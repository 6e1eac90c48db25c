------------------------------ MODULE JobQueue ------------------------------
(***************************************************************************)
(* The durable job queue of fraiseql-observers: RedisJobQueue             *)
(* (queue/redis.rs) and the workers and pools that drain it               *)
(* (queue/worker.rs).                                                      *)
(*                                                                         *)
(* Every operation of the queue is a sequence of single Redis commands    *)
(* joined by `?`, so each command is an action here, and after each one   *)
(* the operation may stop: the command failed, it was applied but its     *)
(* reply was lost, or the process died.                                    *)
(*                                                                         *)
(* The scores of the sorted sets order jobs by whole seconds; nothing here *)
(* depends on that order, so a pop may take any pending job.  The reason  *)
(* of a dead letter and the retry and failure counters are written and    *)
(* never read, and are left out.                                           *)
(***************************************************************************)
EXTENDS Naturals, FiniteSets

CONSTANTS
    Jobs,          \* the jobs clients submit, each once
    Attempt,       \* [Jobs -> Nat]: Job.attempt as submitted
    MaxAttempts,   \* max_attempts of the retry policy
    Pools,         \* the worker pools, one per process
    Workers,       \* their worker tasks
    NoJob,         \* a worker without a job
    PoolOf         \* [Workers -> Pools]

ASSUME JobQueueAssumption ==
    /\ IsFiniteSet(Jobs)
    /\ Attempt \in [Jobs -> Nat \ {0}]
    /\ MaxAttempts \in Nat
    /\ PoolOf \in [Workers -> Pools]
    /\ NoJob \notin Jobs

VARIABLES
    redis,      \* the keys of the queue, all but successes sets of jobs, and
                \* (history) the jobs whose completed record has expired
    submitted,  \* how far the client's enqueue of a job is
    pool,       \* each JobWorkerPool: is_running is pool[p] = "up"
    pc,         \* where each worker task is
    held,       \* the job a worker has popped and not finished
    runs,       \* history: how often the action of a job was executed
    abandoned   \* history: the command at which a job was left, or "no"

vars == <<redis, submitted, pool, pc, held, runs, abandoned>>

\* Worker positions with a job in hand, each named for the command that is next.
Holding == {"get", "mark", "process", "execute", "complete", "release",
            "forget", "count", "unmark_retry", "park", "unmark_dead", "bury"}

\* Positions at which a job in hand is in no key of Redis but its data.
Window == {"get", "mark", "park", "bury"}

Init ==
    /\ redis = [data |-> {}, pending |-> {}, processing |-> {}, retry |-> {},
                dead |-> {}, completed |-> {}, expired |-> {}, successes |-> 0]
    /\ submitted = [j \in Jobs |-> "new"]
    /\ pool = [p \in Pools |-> "down"]
    /\ pc = [w \in Workers |-> "off"]
    /\ held = [w \in Workers |-> NoJob]
    /\ runs = [j \in Jobs |-> 0]
    /\ abandoned = [j \in Jobs |-> "no"]

----------------------------------------------------------------------------
(* enqueue, called by a client: SET of the job's data, then ZADD.          *)

\* The command is applied and answered; or it fails, applied or not, and
\* enqueue returns the error.
Submit(j, after, next) ==
    /\ \/ redis' = after /\ submitted' = [submitted EXCEPT ![j] = next]
       \/ redis' \in {redis, after} /\ submitted' = [submitted EXCEPT ![j] = "failed"]
    /\ UNCHANGED <<pool, pc, held, runs, abandoned>>

StoreJob(j) ==
    /\ submitted[j] = "new"
    /\ Submit(j, [redis EXCEPT !.data = @ \cup {j}], "stored")

AddPending(j) ==
    /\ submitted[j] = "stored"
    /\ Submit(j, [redis EXCEPT !.pending = @ \cup {j}], "queued")

----------------------------------------------------------------------------
(* The worker pool.                                                        *)

\* start: sets is_running and spawns the tasks; an error if already running.
start(p) ==
    /\ pool[p] = "down"
    /\ pool' = [pool EXCEPT ![p] = "up"]
    /\ pc' = [w \in Workers |-> IF PoolOf[w] = p THEN "spawned" ELSE pc[w]]
    /\ UNCHANGED <<redis, submitted, held, runs, abandoned>>

\* The only look a task takes at is_running is before it enters JobWorker::run,
\* which has no return.
Enter(w) ==
    /\ pc[w] = "spawned"
    /\ pc' = [pc EXCEPT ![w] = IF pool[PoolOf[w]] = "up" THEN "idle" ELSE "ended"]
    /\ UNCHANGED <<redis, submitted, pool, held, runs, abandoned>>

\* stop: clears is_running, then joins every task.
stop(p) ==
    /\ pool[p] = "up"
    /\ pool' = [pool EXCEPT ![p] = "stopping"]
    /\ UNCHANGED <<redis, submitted, pc, held, runs, abandoned>>

StopReturns(p) ==
    /\ pool[p] = "stopping"
    /\ \A w \in Workers : PoolOf[w] = p => pc[w] = "ended"
    /\ pool' = [pool EXCEPT ![p] = "down"]
    /\ UNCHANGED <<redis, submitted, pc, held, runs, abandoned>>

\* The process of a pool dies, and with it what its workers had in hand.
Crash(p) ==
    LET mine == {w \in Workers : PoolOf[w] = p}
    IN  /\ pool[p] # "down"
        /\ pool' = [pool EXCEPT ![p] = "down"]
        /\ pc' = [w \in Workers |-> IF w \in mine THEN "off" ELSE pc[w]]
        /\ held' = [w \in Workers |-> IF w \in mine THEN NoJob ELSE held[w]]
        /\ abandoned' = [j \in Jobs |->
               IF \E w \in mine : held[w] = j
               THEN pc[CHOOSE w \in mine : held[w] = j] ELSE abandoned[j]]
        /\ UNCHANGED <<redis, submitted, runs>>

----------------------------------------------------------------------------
(* The worker's loop: dequeue, process_job, and what it does with the      *)
(* outcome.                                                                *)

\* The worker goes on to the next command, or back to its loop without a job.
Goto(w, next) ==
    /\ pc' = [pc EXCEPT ![w] = next]
    /\ held' = [held EXCEPT ![w] = IF next = "idle" THEN NoJob ELSE @]

\* The operation returns an error, which run() only logs: the worker forgets
\* the job and dequeues again.
Abandon(w) ==
    /\ Goto(w, "idle")
    /\ abandoned' = [abandoned EXCEPT ![held[w]] = pc[w]]

\* One Redis command of worker w: applied and answered, and w goes on; or it
\* fails, applied or not.
Command(w, at, after, next) ==
    /\ pc[w] = at
    /\ \/ redis' = after /\ Goto(w, next) /\ UNCHANGED abandoned
       \/ redis' \in {redis, after} /\ Abandon(w)
    /\ UNCHANGED <<submitted, pool, runs>>

\* Mutant of Pop: ZRANGE instead of ZPOPMIN, which leaves the job pending.
PopPeeks(w) ==
    /\ pc[w] = "idle"
    /\ \E j \in redis.pending :
          /\ held' = [held EXCEPT ![w] = j]
          /\ pc' = [pc EXCEPT ![w] = "get"]
    /\ UNCHANGED <<redis, submitted, pool, runs, abandoned>>

\* ZPOPMIN: one command takes the job from the pending set.
Pop(w) ==
    /\ pc[w] = "idle"
    /\ \E j \in redis.pending :
          /\ redis' = [redis EXCEPT !.pending = @ \ {j}]
          /\ \/ /\ held' = [held EXCEPT ![w] = j]
                /\ pc' = [pc EXCEPT ![w] = "get"]
                /\ UNCHANGED abandoned
             \/ /\ abandoned' = [abandoned EXCEPT ![j] = "get"]
                /\ UNCHANGED <<held, pc>>
    /\ UNCHANGED <<submitted, pool, runs>>

\* The job's data is read and parsed; without it dequeue is an error.
Get(w) ==
    /\ pc[w] = "get"
    /\ \/ held[w] \in redis.data /\ Goto(w, "mark") /\ UNCHANGED abandoned
       \/ Abandon(w)
    /\ UNCHANGED <<redis, submitted, pool, runs>>

\* The HSET that ends dequeue, and the one of mark_processing.
Mark(w) == Command(w, "mark", [redis EXCEPT !.processing = @ \cup {held[w]}], "process")

mark_processing(w) ==
    Command(w, "process", [redis EXCEPT !.processing = @ \cup {held[w]}], "execute")

should_retry(attempt) == attempt < MaxAttempts

\* The action runs under a timeout; a timeout is handled as a failure.
Execute(w) ==
    LET failed == IF should_retry(Attempt[held[w]] + 1) THEN "unmark_retry" ELSE "unmark_dead"
    IN  /\ pc[w] = "execute"
        /\ runs' = [runs EXCEPT ![held[w]] = @ + 1]
        /\ \E next \in {"complete", failed} : Goto(w, next)
        /\ UNCHANGED <<redis, submitted, pool, abandoned>>

\* Mutant of mark_success: the success counter is also bumped with the result.
mark_success_counts_twice(w) ==
    \/ Command(w, "complete", [redis EXCEPT !.completed = @ \cup {held[w]},
                                            !.successes = @ + 1], "release")
    \/ Command(w, "release", [redis EXCEPT !.processing = @ \ {held[w]}], "forget")
    \/ Command(w, "forget", [redis EXCEPT !.data = @ \ {held[w]}], "count")
    \/ Command(w, "count", [redis EXCEPT !.successes = @ + 1], "idle")

\* Mutant of mark_success: the job leaves processing before its result is stored.
mark_success_releases_first(w) ==
    \/ Command(w, "complete", [redis EXCEPT !.processing = @ \ {held[w]}], "release")
    \/ Command(w, "release", [redis EXCEPT !.completed = @ \cup {held[w]}], "forget")
    \/ Command(w, "forget", [redis EXCEPT !.data = @ \ {held[w]}], "count")
    \/ Command(w, "count", [redis EXCEPT !.successes = @ + 1], "idle")

\* mark_success: store the result, leave processing, delete the data, count.
mark_success(w) ==
    \/ Command(w, "complete", [redis EXCEPT !.completed = @ \cup {held[w]}], "release")
    \/ Command(w, "release", [redis EXCEPT !.processing = @ \ {held[w]}], "forget")
    \/ Command(w, "forget", [redis EXCEPT !.data = @ \ {held[w]}], "count")
    \/ Command(w, "count", [redis EXCEPT !.successes = @ + 1], "idle")

\* mark_retry: leave processing, then enter the retry set.
mark_retry(w) ==
    \/ Command(w, "unmark_retry", [redis EXCEPT !.processing = @ \ {held[w]}], "park")
    \/ Command(w, "park", [redis EXCEPT !.retry = @ \cup {held[w]}], "idle")

\* Mutant of mark_deadletter: the job leaves processing and is put nowhere.
mark_deadletter_discards(w) ==
    Command(w, "unmark_dead", [redis EXCEPT !.processing = @ \ {held[w]}], "idle")

\* mark_deadletter: leave processing, then enter the dead-letter set.
mark_deadletter(w) ==
    \/ Command(w, "unmark_dead", [redis EXCEPT !.processing = @ \ {held[w]}], "bury")
    \/ Command(w, "bury", [redis EXCEPT !.dead = @ \cup {held[w]}], "idle")

\* The data of a job is kept for 24 hours from its submission, wherever the
\* job is by then, and its completed record for 24 hours.
Expire(j) ==
    /\ \/ /\ j \in redis.data
          /\ redis' = [redis EXCEPT !.data = @ \ {j}]
       \/ /\ j \in redis.completed
          /\ redis' = [redis EXCEPT !.completed = @ \ {j}, !.expired = @ \cup {j}]
    /\ UNCHANGED <<submitted, pool, pc, held, runs, abandoned>>

Work(w) ==
    \/ Enter(w)
    \/ Pop(w)
    \/ Get(w)
    \/ Mark(w)
    \/ mark_processing(w)
    \/ Execute(w)
    \/ mark_success(w)
    \/ mark_retry(w)
    \/ mark_deadletter(w)

Next ==
    \/ \E j \in Jobs : StoreJob(j) \/ AddPending(j) \/ Expire(j)
    \/ \E p \in Pools : start(p) \/ stop(p) \/ StopReturns(p) \/ Crash(p)
    \/ \E w \in Workers : Work(w)

Spec == Init /\ [][Next]_vars

\* A task that can go on is scheduled, and Redis does not refuse every command
\* for ever.
FairSpec == Spec /\ \A w \in Workers : WF_vars(Work(w))

----------------------------------------------------------------------------
(* Properties.                                                             *)

\* The keys hold jobs, and the success counter read by get_stats never exceeds
\* the number of jobs, because no job is counted twice.
TypeOK ==
    /\ redis \in [data : SUBSET Jobs, pending : SUBSET Jobs, processing : SUBSET Jobs,
                   retry : SUBSET Jobs, dead : SUBSET Jobs, completed : SUBSET Jobs,
                   expired : SUBSET Jobs, successes : 0 .. Cardinality(Jobs)]
    /\ submitted \in [Jobs -> {"new", "stored", "queued", "failed"}]
    /\ pool \in [Pools -> {"down", "up", "stopping"}]
    /\ pc \in [Workers -> Holding \cup {"off", "spawned", "ended", "idle"}]
    /\ held \in [Workers -> Jobs \cup {NoJob}]
    /\ runs \in [Jobs -> Nat]
    /\ abandoned \in [Jobs -> Holding \cup {"no"}]

InHand(j) == {w \in Workers : held[w] = j}

\* Whatever commands fail, replies get lost and processes die, a job is in one
\* worker's hands at most, is executed once at most, and has one outcome at most:
\* the three operations that end a job never both record it.
OneOutcome ==
    \A j \in Jobs :
        /\ Cardinality(InHand(j)) <= 1
        /\ runs[j] <= 1
        /\ j \in redis.completed \cup redis.expired => j \notin redis.retry \cup redis.dead
        /\ j \notin redis.retry \cap redis.dead
        /\ j \in redis.pending => InHand(j) = {} /\ runs[j] = 0

\* A job whose enqueue returned Ok stays in sight until its completed record
\* expires: it is pending, in processing, parked, dead-lettered or completed,
\* except between the pop and the HSET of dequeue and between the HDEL and the
\* ZADD of mark_retry and mark_deadletter, or because an operation stopped
\* exactly there.
InSight ==
    \A j \in Jobs : submitted[j] = "queued" =>
        \/ \E f \in {"pending", "processing", "retry", "dead", "completed"} : j \in redis[f]
        \/ j \in redis.expired
        \/ \E w \in InHand(j) : pc[w] \in Window
        \/ abandoned[j] \in Window \cup {"unmark_retry", "unmark_dead"}

\* While some worker stays in its loop, every pending job ends completed, parked
\* for retry or dead-lettered, unless an operation on it stopped half way.
Settles ==
    (\E w \in Workers : <>[](pc[w] \in Holding \cup {"idle"})) =>
        \A j \in Jobs :
            j \in redis.pending ~>
                j \in redis.completed \cup redis.retry \cup redis.dead \/ abandoned[j] # "no"
=============================================================================
