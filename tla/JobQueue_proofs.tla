---------------------------- MODULE JobQueue_proofs ----------------------------
(***************************************************************************)
(* Proofs about the job queue, for any number of jobs, pools and workers:  *)
(* type correctness with the bound on the success counter, one execution   *)
(* and one outcome per job, that a queued job drops out of sight only in   *)
(* the windows between two commands, and the refinement of JobLife.        *)
(***************************************************************************)
EXTENDS JobQueue, FiniteSetTheorems, TLAPS

Keys == [data : SUBSET Jobs, pending : SUBSET Jobs, processing : SUBSET Jobs,
         retry : SUBSET Jobs, dead : SUBSET Jobs, completed : SUBSET Jobs,
         expired : SUBSET Jobs, successes : Nat]

\* TypeOK without the bound on the counter, which needs the rest.
Typed ==
    /\ redis \in Keys
    /\ submitted \in [Jobs -> {"new", "stored", "queued", "failed"}]
    /\ pool \in [Pools -> {"down", "up", "stopping"}]
    /\ pc \in [Workers -> Holding \cup {"off", "spawned", "ended", "idle"}]
    /\ held \in [Workers -> Jobs \cup {NoJob}]
    /\ runs \in [Jobs -> Nat]
    /\ abandoned \in [Jobs -> Holding \cup {"no"}]

\* The jobs whose success was recorded.
Done(r) == r.completed \cup r.expired
USE DEF Done

\* Positions before the execution of the action.
Early == {"get", "mark", "process", "execute"}

\* No worker has had the job.
Untouched(j) ==
    /\ \A w \in Workers : held[w] # j
    /\ runs[j] = 0 /\ abandoned[j] = "no"
    /\ j \notin redis.processing \cup Done(redis) \cup redis.retry \cup redis.dead

\* Where a job may be that InSight excuses, and where it may not.
Somewhere(j) ==
    j \in redis.pending \cup redis.processing \cup Done(redis) \cup redis.retry \cup redis.dead

Excused(label) == label \in Window \cup {"unmark_retry", "unmark_dead"}

OneOf(j) ==
    /\ j \in Done(redis) => j \notin redis.retry \cup redis.dead
    /\ j \in redis.retry => j \notin redis.dead

JobOK(j) ==
    /\ submitted[j] \in {"new", "stored"} => j \notin redis.pending
    /\ submitted[j] \in {"new", "stored"} \/ j \in redis.pending => Untouched(j)
    /\ runs[j] <= 1
    /\ OneOf(j)
    /\ submitted[j] = "queued" =>
          Somewhere(j) \/ Excused(abandoned[j]) \/ \E w \in Workers : held[w] = j /\ pc[w] \in Window

\* What the position of a worker says of the job in its hands.
HolderOK(w) ==
    /\ held[w] = NoJob <=> pc[w] \notin Holding
    /\ held[w] # NoJob =>
          /\ \A v \in Workers : held[v] = held[w] => v = w
          /\ pc[w] \in Early <=> runs[held[w]] = 0
          /\ held[w] \in redis.processing \/ pc[w] \in Window \cup {"forget", "count"}
          /\ held[w] \in Done(redis) <=> pc[w] \in {"release", "forget", "count"}
          /\ held[w] \notin redis.retry \cup redis.dead

\* A pool that is down has no worker in its loop.
Resting == \A w \in Workers : pool[PoolOf[w]] = "down" => pc[w] \in {"off", "ended"}

QueueInv ==
    /\ Typed
    /\ Resting
    /\ \A w \in Workers : HolderOK(w)
    /\ \A j \in Jobs : JobOK(j)

-----------------------------------------------------------------------------
(* What a step leaves alone.                                               *)

SameKeys(j) ==
    /\ j \in redis'.pending <=> j \in redis.pending
    /\ j \in redis'.processing <=> j \in redis.processing
    /\ j \in Done(redis') <=> j \in Done(redis)
    /\ j \in redis'.retry <=> j \in redis.retry
    /\ j \in redis'.dead <=> j \in redis.dead

SameJob(j) ==
    /\ SameKeys(j)
    /\ submitted'[j] = submitted[j] /\ runs'[j] = runs[j] /\ abandoned'[j] = abandoned[j]

SameWorker(w) == pc'[w] = pc[w] /\ held'[w] = held[w]

LEMMA JobFrame ==
    ASSUME NEW j \in Jobs, JobOK(j), SameJob(j),
           \A w \in Workers : held'[w] = j <=> held[w] = j,
           \A w \in Workers : held[w] = j => pc'[w] = pc[w]
    PROVE  JobOK(j)'
  BY DEF JobOK, SameJob, SameKeys, Untouched, OneOf, Somewhere, Excused

LEMMA HolderFrame ==
    ASSUME NEW w \in Workers, HolderOK(w), SameWorker(w), NEW j, j = held[w], j # NoJob => SameJob(j),
           \A v \in Workers : held'[v] = j => held[v] = j \/ j = NoJob
    PROVE  HolderOK(w)'
  BY DEF HolderOK, SameJob, SameKeys, SameWorker

\* A step of worker w on job j: what is said of these two is all that can change.
LEMMA Touch ==
    ASSUME QueueInv, NEW w \in Workers, NEW j \in Jobs,
           pool' = pool, pc[w] \notin {"off", "ended"},
           \A v \in Workers : v # w => SameWorker(v) /\ held[v] # j,
           held[w] \in {j, NoJob}, held'[w] \in {j, NoJob},
           \A k \in Jobs : k # j => SameJob(k),
           Typed', HolderOK(w)', JobOK(j)'
    PROVE  QueueInv'
<1>1. ASSUME NEW k \in Jobs PROVE JobOK(k)'
  <2>1. CASE k = j
    BY <2>1
  <2>2. CASE k # j
    <3>1. JobOK(k) /\ k # NoJob
      BY JobQueueAssumption DEF QueueInv
    <3> QED
      BY <2>2, <3>1, JobFrame DEF SameWorker
  <2> QED
    BY <2>1, <2>2
<1>2. ASSUME NEW v \in Workers PROVE HolderOK(v)'
  <2>1. CASE v = w
    BY <2>1
  <2>2. CASE v # w
    <3>1. HolderOK(v) /\ held[v] \in Jobs \cup {NoJob} /\ held[v] # j
      BY <2>2 DEF QueueInv, Typed
    <3>2. PICK k : k = held[v]
      OBVIOUS
    <3>3. \A u \in Workers : held'[u] = k => held[u] = k \/ k = NoJob
      BY <3>1, <3>2 DEF SameWorker
    <3> QED
      BY <2>2, <3>1, <3>2, <3>3, HolderFrame
  <2> QED
    BY <2>1, <2>2
<1>3. Resting'
  BY DEF QueueInv, Resting, SameWorker
<1> QED
  BY <1>1, <1>2, <1>3 DEF QueueInv

\* A worker gives the job in its hands up, the keys of that job having changed
\* to redis'.
LEMMA Forgets ==
    ASSUME QueueInv, NEW w \in Workers, NEW j \in Jobs, j = held[w], pc[w] \in Holding,
           UNCHANGED <<submitted, pool, runs>>, Typed',
           pc'[w] = "idle", held'[w] = NoJob,
           \A v \in Workers : v # w => SameWorker(v),
           \A k \in Jobs : k # j => SameKeys(k) /\ abandoned'[k] = abandoned[k],
           j \notin redis'.pending, OneOf(j)',
           submitted[j] = "queued" => Somewhere(j)' \/ Excused(abandoned[j])'
    PROVE  QueueInv'
<1>1. HolderOK(w) /\ JobOK(j) /\ NoJob # j
  BY JobQueueAssumption DEF QueueInv
<1>2. \A v \in Workers : v # w => held[v] # j
  BY <1>1 DEF HolderOK
<1>3. HolderOK(w)'
  BY DEF HolderOK, Holding
<1>4. JobOK(j)'
  BY <1>1 DEF JobOK, Untouched
<1>5. \A k \in Jobs : k # j => SameJob(k)
  BY DEF SameJob
<1> QED
  BY <1>2, <1>3, <1>4, <1>5, Touch DEF Holding

\* A worker goes on with the job in its hands.
LEMMA GoesOn ==
    ASSUME QueueInv, NEW w \in Workers, NEW j \in Jobs, j = held[w], pc[w] \in Holding,
           UNCHANGED <<submitted, pool, held, abandoned>>, Typed',
           \A v \in Workers : v # w => pc'[v] = pc[v],
           \A k \in Jobs : k # j => SameKeys(k) /\ runs'[k] = runs[k],
           pc'[w] \in Holding,
           j \notin redis'.pending, j \notin redis'.retry \cup redis'.dead,
           runs'[j] <= 1,
           pc'[w] \in Early <=> runs'[j] = 0,
           j \in redis'.processing \/ pc'[w] \in Window \cup {"forget", "count"},
           j \in Done(redis') <=> pc'[w] \in {"release", "forget", "count"}
    PROVE  QueueInv'
<1>1. HolderOK(w) /\ JobOK(j) /\ NoJob # j
  BY JobQueueAssumption DEF QueueInv
<1>2. \A v \in Workers : v # w => held[v] # j
  BY <1>1 DEF HolderOK
<1>3. HolderOK(w)'
  BY <1>1, <1>2 DEF HolderOK
<1>4. OneOf(j)'
  BY DEF OneOf
<1>5. submitted[j] \notin {"new", "stored"}
  BY <1>1 DEF JobOK, Untouched
<1>6. Somewhere(j)' \/ \E v \in Workers : held'[v] = j /\ pc'[v] \in Window
  BY DEF Somewhere
<1>7. JobOK(j)'
  BY <1>4, <1>5, <1>6 DEF JobOK
<1>8. \A k \in Jobs : k # j => SameJob(k)
  BY DEF SameJob
<1> QED
  BY <1>2, <1>3, <1>7, <1>8, Touch DEF SameWorker, Holding

\* What a command of worker w leaves behind, however it ends.
LEMMA CommandEnds ==
    ASSUME Typed, NEW w \in Workers, NEW j \in Jobs, j = held[w], NEW at \in Holding,
           NEW next \in Holding \cup {"idle"}, NEW after \in Keys, Command(w, at, after, next)
    PROVE  /\ pc[w] = at /\ redis' \in {redis, after} /\ UNCHANGED <<submitted, pool, runs>>
           /\ \A v \in Workers : v # w => SameWorker(v)
           /\ \A k \in Jobs : k # j => abandoned'[k] = abandoned[k]
           /\ \/ redis' = after /\ abandoned' = abandoned /\ pc'[w] = next
                 /\ held'[w] = IF next = "idle" THEN NoJob ELSE j
              \/ abandoned'[j] = at /\ pc'[w] = "idle" /\ held'[w] = NoJob
           /\ Typed'
<1>1. pc[w] = at /\ redis' \in {redis, after} /\ UNCHANGED <<submitted, pool, runs>>
  BY DEF Command
<1>2. PICK l \in Holding \cup {"idle"} :
        /\ pc' = [pc EXCEPT ![w] = l]
        /\ held' = [held EXCEPT ![w] = IF l = "idle" THEN NoJob ELSE @]
        /\ \/ redis' = after /\ abandoned' = abandoned /\ l = next
           \/ abandoned' = [abandoned EXCEPT ![j] = at] /\ l = "idle"
  BY <1>1 DEF Command, Abandon, Goto
<1>3. \A v \in Workers : v # w => SameWorker(v)
  BY <1>2 DEF Typed, SameWorker
<1>4. \A k \in Jobs : k # j => abandoned'[k] = abandoned[k]
  BY <1>2 DEF Typed
<1>5. \/ redis' = after /\ abandoned' = abandoned /\ pc'[w] = next
         /\ held'[w] = IF next = "idle" THEN NoJob ELSE j
      \/ abandoned'[j] = at /\ pc'[w] = "idle" /\ held'[w] = NoJob
  BY <1>2 DEF Typed
<1>6. Typed'
  <2>1. redis' \in Keys
    BY <1>1 DEF Typed
  <2>2. pc' \in [Workers -> Holding \cup {"off", "spawned", "ended", "idle"}]
    BY <1>2 DEF Typed
  <2>3. held' \in [Workers -> Jobs \cup {NoJob}]
    BY <1>2 DEF Typed
  <2>4. abandoned' \in [Jobs -> Holding \cup {"no"}]
    BY <1>2 DEF Typed
  <2> QED
    BY <1>1, <2>1, <2>2, <2>3, <2>4 DEF Typed
<1> QED
  BY <1>1, <1>3, <1>4, <1>5, <1>6

\* What the commands of a worker have to ensure: only the keys of the job in
\* hand change, it stays in sight if the operation stops after this command, it
\* is where the next position expects it, and a result is for an executed job.
Shape(j, at, after, next) ==
    /\ \A k \in Jobs : k # j =>
          /\ k \in after.pending <=> k \in redis.pending
          /\ k \in after.processing <=> k \in redis.processing
          /\ k \in after.completed <=> k \in redis.completed
          /\ k \in after.retry <=> k \in redis.retry
          /\ k \in after.dead <=> k \in redis.dead
    /\ after.pending = redis.pending
    /\ redis.completed \subseteq after.completed /\ after.expired = redis.expired
    /\ j \in Done(redis) => (j \in after.completed <=> j \in redis.completed)
    /\ j \in Done(after) => j \notin after.retry \cup after.dead
    /\ j \in after.retry => j \notin after.dead
    /\ j \in Done(after) \cup after.retry \cup after.dead => at \notin Early
    /\ j \in after.processing \cup Done(after) \cup after.retry \cup after.dead \/ Excused(at)
    /\ next = "idle" => j \in Done(after) \cup after.retry \cup after.dead
    /\ next # "idle" =>
          /\ j \notin after.retry \cup after.dead
          /\ next \in Early <=> at \in Early
          /\ j \in after.processing \/ next \in Window \cup {"forget", "count"}
          /\ j \in Done(after) <=> next \in {"release", "forget", "count"}

Shaped(w) ==
    \E j \in Jobs, at \in Holding, next \in Holding \cup {"idle"}, after \in Keys :
        j = held[w] /\ Command(w, at, after, next) /\ Shape(j, at, after, next)

LEMMA CommandStep ==
    ASSUME QueueInv, NEW w \in Workers, NEW j \in Jobs, j = held[w], NEW at \in Holding,
           NEW next \in Holding \cup {"idle"}, NEW after \in Keys, Command(w, at, after, next),
           Shape(j, at, after, next)
    PROVE  QueueInv'
<1>1. HolderOK(w) /\ JobOK(j) /\ j # NoJob
  BY JobQueueAssumption DEF QueueInv
<1>2. /\ pc[w] = at /\ redis' \in {redis, after} /\ UNCHANGED <<submitted, pool, runs>>
      /\ \A v \in Workers : v # w => SameWorker(v)
      /\ \A k \in Jobs : k # j => abandoned'[k] = abandoned[k]
      /\ Typed'
  BY CommandEnds DEF QueueInv
<1>3. \/ redis' = after /\ abandoned' = abandoned /\ pc'[w] = next
         /\ held'[w] = IF next = "idle" THEN NoJob ELSE j
      \/ abandoned'[j] = at /\ pc'[w] = "idle" /\ held'[w] = NoJob
  BY CommandEnds DEF QueueInv
<1>4. \A k \in Jobs : k # j => SameKeys(k)
  BY <1>2 DEF SameKeys, Shape
<1>5. j \notin redis'.pending
  BY <1>1, <1>2 DEF JobOK, Untouched, Shape
<1>6. OneOf(j)'
  BY <1>1, <1>2 DEF JobOK, OneOf, Shape
<1>7. CASE pc'[w] = "idle" /\ held'[w] = NoJob
  <2>1. j \in redis.processing \cup Done(redis) \/ at \in Window
    BY <1>1, <1>2 DEF HolderOK
  <2>2. Somewhere(j)' \/ Excused(abandoned[j])'
    BY <1>2, <1>3, <1>7, <2>1 DEF Somewhere, Excused, Holding, Shape
  <2> QED
    BY <1>2, <1>4, <1>5, <1>6, <1>7, <2>2, Forgets
<1>8. CASE redis' = after /\ abandoned' = abandoned /\ pc'[w] = next /\ held'[w] = j /\ next \in Holding
  <2>1. held' = held
    BY <1>2, <1>8 DEF QueueInv, Typed, SameWorker
  <2>2. runs'[j] <= 1
    BY <1>1, <1>2 DEF JobOK
  <2>3. next # "idle"
    BY <1>8 DEF Holding
  <2>4. pc'[w] \in Early <=> runs'[j] = 0
    BY <1>1, <1>2, <1>8, <2>3 DEF HolderOK, Shape
  <2>5. /\ j \notin redis'.retry \cup redis'.dead
        /\ j \in redis'.processing \/ pc'[w] \in Window \cup {"forget", "count"}
        /\ j \in Done(redis') <=> pc'[w] \in {"release", "forget", "count"}
    BY <1>8, <2>3 DEF Shape
  <2> QED
    BY <1>2, <1>4, <1>5, <1>8, <2>1, <2>2, <2>4, <2>5, GoesOn DEF SameWorker
<1> QED
  BY <1>3, <1>7, <1>8

-----------------------------------------------------------------------------
(* The commands of a worker.                                               *)

\* A worker at a command has a job, and these facts about it.
LEMMA InHandFacts ==
    ASSUME QueueInv, NEW w \in Workers, pc[w] \in Holding
    PROVE  /\ held[w] \in Jobs /\ held[w] # NoJob /\ HolderOK(w) /\ JobOK(held[w])
           /\ redis \in Keys
  BY DEF QueueInv, HolderOK, Typed

LEMMA MarkShape ==
    ASSUME QueueInv, NEW w \in Workers, Mark(w) \/ mark_processing(w)
    PROVE  Shaped(w)
<1>1. pc[w] \in {"mark", "process"} /\ pc[w] \in Holding
  BY DEF Mark, mark_processing, Command, Holding
<1>2. PICK j \in Jobs : j = held[w]
  BY <1>1, InHandFacts
<1>3. HolderOK(w) /\ JobOK(j) /\ redis \in Keys /\ j # NoJob
  BY <1>1, <1>2, InHandFacts
<1> DEFINE after == [redis EXCEPT !.processing = @ \cup {j}]
           next == IF pc[w] = "mark" THEN "process" ELSE "execute"
<1>4. Command(w, pc[w], after, next)
  BY <1>1, <1>2 DEF Mark, mark_processing, Command
<1>5. /\ after \in Keys /\ after.pending = redis.pending
      /\ after.processing = redis.processing \cup {j} /\ after.completed = redis.completed /\ after.expired = redis.expired
      /\ after.retry = redis.retry /\ after.dead = redis.dead
  BY <1>3 DEF Keys
<1>6. j \notin Done(redis) \cup redis.retry \cup redis.dead
  BY <1>1, <1>2, <1>3 DEF HolderOK
<1>7. next \in Holding \cap Early /\ pc[w] \in Early /\ next # "idle"
      /\ next \notin {"release", "forget", "count"}
  BY <1>1 DEF Holding, Early
<1> HIDE DEF after, next
<1> QED
  BY <1>1, <1>2, <1>4, <1>5, <1>6, <1>7 DEF Shaped, Shape, Early

LEMMA SuccessShape ==
    ASSUME QueueInv, NEW w \in Workers, mark_success(w)
    PROVE  Shaped(w)
<1>1. pc[w] \in {"complete", "release", "forget", "count"} /\ pc[w] \in Holding
  BY DEF mark_success, Command, Holding
<1>2. PICK j \in Jobs : j = held[w]
  BY <1>1, InHandFacts
<1>3. HolderOK(w) /\ JobOK(j) /\ redis \in Keys /\ j # NoJob
  BY <1>1, <1>2, InHandFacts
<1>4. j \notin redis.retry \cup redis.dead
  BY <1>2, <1>3 DEF HolderOK
<1>5. CASE pc[w] = "complete"
  <2> DEFINE after == [redis EXCEPT !.completed = @ \cup {j}]
  <2>1. Command(w, "complete", after, "release")
    BY <1>2, <1>5 DEF mark_success, Command
  <2>2. /\ after \in Keys /\ after.pending = redis.pending
        /\ after.processing = redis.processing /\ after.completed = redis.completed \cup {j} /\ after.expired = redis.expired
        /\ after.retry = redis.retry /\ after.dead = redis.dead
    BY <1>3 DEF Keys
  <2>3. j \in redis.processing /\ j \notin Done(redis) /\ {"complete", "release"} \subseteq Holding
    BY <1>2, <1>3, <1>5 DEF HolderOK, Window, Holding
  <2> HIDE DEF after
  <2> QED
    BY <1>2, <1>4, <2>1, <2>2, <2>3 DEF Shaped, Shape, Early
<1>6. CASE pc[w] = "release"
  <2> DEFINE after == [redis EXCEPT !.processing = @ \ {j}]
  <2>1. Command(w, "release", after, "forget")
    BY <1>2, <1>6 DEF mark_success, Command
  <2>2. /\ after \in Keys /\ after.pending = redis.pending
        /\ after.processing = redis.processing \ {j} /\ after.completed = redis.completed /\ after.expired = redis.expired
        /\ after.retry = redis.retry /\ after.dead = redis.dead
    BY <1>3 DEF Keys
  <2>3. j \in Done(redis) /\ j \in Done(after) /\ {"release", "forget"} \subseteq Holding
    BY <1>2, <1>3, <1>6, <2>2 DEF HolderOK, Holding
  <2> HIDE DEF after
  <2>4. Done(after) = Done(redis)
    BY <2>2
  <2>5. Shape(j, "release", after, "forget")
    <3>1. \A k \in Jobs : k # j =>
             /\ k \in after.pending <=> k \in redis.pending
             /\ k \in after.processing <=> k \in redis.processing
             /\ k \in after.completed <=> k \in redis.completed
             /\ k \in after.retry <=> k \in redis.retry
             /\ k \in after.dead <=> k \in redis.dead
      BY <2>2
    <3> HIDE DEF Done
    <3> QED
      BY <1>4, <2>2, <2>3, <2>4, <3>1 DEF Shape, Early
  <2> QED
    BY <1>2, <2>1, <2>2, <2>3, <2>5 DEF Shaped
<1>7. CASE pc[w] = "forget"
  <2> DEFINE after == [redis EXCEPT !.data = @ \ {j}]
  <2>1. Command(w, "forget", after, "count")
    BY <1>2, <1>7 DEF mark_success, Command
  <2>2. /\ after \in Keys /\ after.pending = redis.pending
        /\ after.processing = redis.processing /\ after.completed = redis.completed /\ after.expired = redis.expired
        /\ after.retry = redis.retry /\ after.dead = redis.dead
    BY <1>3 DEF Keys
  <2>3. j \in Done(redis) /\ j \in Done(after) /\ {"forget", "count"} \subseteq Holding
    BY <1>2, <1>3, <1>7, <2>2 DEF HolderOK, Holding
  <2> HIDE DEF after
  <2>4. Done(after) = Done(redis)
    BY <2>2
  <2>5. Shape(j, "forget", after, "count")
    <3>1. \A k \in Jobs : k # j =>
             /\ k \in after.pending <=> k \in redis.pending
             /\ k \in after.processing <=> k \in redis.processing
             /\ k \in after.completed <=> k \in redis.completed
             /\ k \in after.retry <=> k \in redis.retry
             /\ k \in after.dead <=> k \in redis.dead
      BY <2>2
    <3> HIDE DEF Done
    <3> QED
      BY <1>4, <2>2, <2>3, <2>4, <3>1 DEF Shape, Early
  <2> QED
    BY <1>2, <2>1, <2>2, <2>3, <2>5 DEF Shaped
<1>8. CASE pc[w] = "count"
  <2> DEFINE after == [redis EXCEPT !.successes = @ + 1]
  <2>1. Command(w, "count", after, "idle")
    BY <1>2, <1>8 DEF mark_success, Command
  <2>2. /\ after \in Keys /\ after.pending = redis.pending
        /\ after.processing = redis.processing /\ after.completed = redis.completed /\ after.expired = redis.expired
        /\ after.retry = redis.retry /\ after.dead = redis.dead
    BY <1>3 DEF Keys
  <2>3. j \in Done(redis) /\ j \in Done(after) /\ "count" \in Holding
    BY <1>2, <1>3, <1>8, <2>2 DEF HolderOK, Holding
  <2> HIDE DEF after
  <2>4. Done(after) = Done(redis)
    BY <2>2
  <2>5. Shape(j, "count", after, "idle")
    <3>1. \A k \in Jobs : k # j =>
             /\ k \in after.pending <=> k \in redis.pending
             /\ k \in after.processing <=> k \in redis.processing
             /\ k \in after.completed <=> k \in redis.completed
             /\ k \in after.retry <=> k \in redis.retry
             /\ k \in after.dead <=> k \in redis.dead
      BY <2>2
    <3> HIDE DEF Done
    <3> QED
      BY <1>4, <2>2, <2>3, <2>4, <3>1 DEF Shape, Early
  <2> QED
    BY <1>2, <2>1, <2>2, <2>3, <2>5 DEF Shaped
<1> QED
  BY <1>1, <1>5, <1>6, <1>7, <1>8

LEMMA FailureShape ==
    ASSUME QueueInv, NEW w \in Workers, mark_retry(w) \/ mark_deadletter(w)
    PROVE  Shaped(w)
<1>1. pc[w] \in {"unmark_retry", "park", "unmark_dead", "bury"} /\ pc[w] \in Holding
  BY DEF mark_retry, mark_deadletter, Command, Holding
<1>2. PICK j \in Jobs : j = held[w]
  BY <1>1, InHandFacts
<1>3. HolderOK(w) /\ JobOK(j) /\ redis \in Keys /\ j # NoJob
  BY <1>1, <1>2, InHandFacts
<1>4. j \notin Done(redis) \cup redis.retry \cup redis.dead
  BY <1>1, <1>2, <1>3 DEF HolderOK
<1>5. CASE pc[w] \in {"unmark_retry", "unmark_dead"}
  <2> DEFINE after == [redis EXCEPT !.processing = @ \ {j}]
             next == IF pc[w] = "unmark_retry" THEN "park" ELSE "bury"
  <2>1. Command(w, pc[w], after, next)
    BY <1>2, <1>5 DEF mark_retry, mark_deadletter, Command
  <2>2. /\ after \in Keys /\ after.pending = redis.pending
        /\ after.processing = redis.processing \ {j} /\ after.completed = redis.completed /\ after.expired = redis.expired
        /\ after.retry = redis.retry /\ after.dead = redis.dead
    BY <1>3 DEF Keys
  <2>3. next \in {"park", "bury"} /\ next \in Holding /\ next \in Window
    BY DEF Holding, Window
  <2>4. Excused(pc[w])
    BY <1>5 DEF Excused
  <2> HIDE DEF after, next
  <2> QED
    BY <1>1, <1>2, <1>4, <2>1, <2>2, <2>3, <2>4 DEF Shaped, Shape, Early
<1>6. CASE pc[w] = "park"
  <2> DEFINE after == [redis EXCEPT !.retry = @ \cup {j}]
  <2>1. Command(w, "park", after, "idle")
    BY <1>2, <1>6 DEF mark_retry, mark_deadletter, Command
  <2>2. /\ after \in Keys /\ after.pending = redis.pending
        /\ after.processing = redis.processing /\ after.completed = redis.completed /\ after.expired = redis.expired
        /\ after.retry = redis.retry \cup {j} /\ after.dead = redis.dead
    BY <1>3 DEF Keys
  <2> HIDE DEF after
  <2> QED
    BY <1>1, <1>2, <1>4, <1>6, <2>1, <2>2 DEF Shaped, Shape, Early
<1>7. CASE pc[w] = "bury"
  <2> DEFINE after == [redis EXCEPT !.dead = @ \cup {j}]
  <2>1. Command(w, "bury", after, "idle")
    BY <1>2, <1>7 DEF mark_retry, mark_deadletter, Command
  <2>2. /\ after \in Keys /\ after.pending = redis.pending
        /\ after.processing = redis.processing /\ after.completed = redis.completed /\ after.expired = redis.expired
        /\ after.retry = redis.retry /\ after.dead = redis.dead \cup {j}
    BY <1>3 DEF Keys
  <2> HIDE DEF after
  <2> QED
    BY <1>1, <1>2, <1>4, <1>7, <2>1, <2>2 DEF Shaped, Shape, Early
<1> QED
  BY <1>1, <1>5, <1>6, <1>7

LEMMA CommandsStep ==
    ASSUME QueueInv, NEW w \in Workers, Shaped(w)
    PROVE  QueueInv'
  BY CommandStep DEF Shaped

\* The steps of a worker that change no key, and the pop.
LEMMA GetStep ==
    ASSUME QueueInv, NEW w \in Workers, Get(w)
    PROVE  QueueInv'
<1>1. pc[w] = "get" /\ pc[w] \in Holding /\ UNCHANGED <<redis, submitted, pool, runs>>
  BY DEF Get, Holding
<1>2. PICK j \in Jobs : j = held[w]
  BY <1>1, InHandFacts
<1>3. HolderOK(w) /\ JobOK(j) /\ j # NoJob /\ Typed
  BY <1>1, <1>2, InHandFacts DEF QueueInv
<1>4. \A k \in Jobs : SameKeys(k)
  BY <1>1 DEF SameKeys
<1>5. /\ j \notin redis.pending /\ j \notin Done(redis) \cup redis.retry \cup redis.dead
      /\ runs[j] = 0
  BY <1>1, <1>2, <1>3 DEF HolderOK, JobOK, Untouched, Early
<1>6. CASE Goto(w, "mark") /\ UNCHANGED abandoned
  <2>1. Typed'
    BY <1>1, <1>3, <1>6 DEF Goto, Typed, Holding
  <2>2. pc'[w] = "mark" /\ held' = held /\ \A v \in Workers : v # w => pc'[v] = pc[v]
    BY <1>3, <1>6 DEF Goto, Typed
  <2>3. "mark" \in Holding /\ "mark" \in Window
    BY DEF Holding, Window
  <2> QED
    BY <1>1, <1>2, <1>4, <1>5, <1>6, <2>1, <2>2, <2>3, GoesOn DEF Early
<1>7. CASE Abandon(w)
  <2>1. Typed'
    BY <1>1, <1>2, <1>3, <1>7 DEF Abandon, Goto, Typed, Holding
  <2>2. pc'[w] = "idle" /\ held'[w] = NoJob /\ \A v \in Workers : v # w => SameWorker(v)
    BY <1>3, <1>7 DEF Abandon, Goto, Typed, SameWorker
  <2>3. abandoned'[j] = "get" /\ \A k \in Jobs : k # j => abandoned'[k] = abandoned[k]
    BY <1>1, <1>2, <1>3, <1>7 DEF Abandon, Typed
  <2>4. Excused(abandoned[j])' /\ OneOf(j)' /\ j \notin redis'.pending
    BY <1>1, <1>3, <1>5, <2>3 DEF Excused, Window, JobOK, OneOf
  <2> QED
    BY <1>1, <1>2, <1>4, <2>1, <2>2, <2>3, <2>4, Forgets
<1> QED
  BY <1>6, <1>7 DEF Get

LEMMA ExecuteStep ==
    ASSUME QueueInv, NEW w \in Workers, Execute(w)
    PROVE  QueueInv'
<1>1. pc[w] = "execute" /\ pc[w] \in Holding /\ UNCHANGED <<redis, submitted, pool, abandoned>>
  BY DEF Execute, Holding
<1>2. PICK j \in Jobs : j = held[w]
  BY <1>1, InHandFacts
<1>3. HolderOK(w) /\ JobOK(j) /\ j # NoJob /\ Typed
  BY <1>1, <1>2, InHandFacts DEF QueueInv
<1>4. PICK next \in {"complete", "unmark_retry", "unmark_dead"} : Goto(w, next)
  BY DEF Execute
<1>5. runs' = [runs EXCEPT ![j] = @ + 1]
  BY <1>2 DEF Execute
<1>6. /\ j \notin redis.pending /\ j \notin Done(redis) \cup redis.retry \cup redis.dead
      /\ j \in redis.processing /\ runs[j] = 0
  BY <1>1, <1>2, <1>3 DEF HolderOK, JobOK, Untouched, Window, Early
<1>7. runs'[j] = 1 /\ \A k \in Jobs : k # j => runs'[k] = runs[k]
  BY <1>3, <1>5, <1>6 DEF Typed
<1>8. pc'[w] = next /\ held' = held /\ \A v \in Workers : v # w => pc'[v] = pc[v]
  BY <1>3, <1>4 DEF Goto, Typed
<1>9. Typed'
  BY <1>1, <1>3, <1>4, <1>5, <1>8 DEF Typed, Goto, Holding
<1>10. \A k \in Jobs : SameKeys(k)
  BY <1>1 DEF SameKeys
<1>11. next \in Holding
  BY DEF Holding
<1> QED
  BY <1>1, <1>2, <1>6, <1>7, <1>8, <1>9, <1>10, <1>11, GoesOn DEF Early

LEMMA PopStep ==
    ASSUME QueueInv, NEW w \in Workers, Pop(w)
    PROVE  QueueInv'
<1>1. PICK j \in redis.pending :
        /\ redis' = [redis EXCEPT !.pending = @ \ {j}]
        /\ \/ /\ held' = [held EXCEPT ![w] = j]
              /\ pc' = [pc EXCEPT ![w] = "get"]
              /\ UNCHANGED abandoned
           \/ /\ abandoned' = [abandoned EXCEPT ![j] = "get"]
              /\ UNCHANGED <<held, pc>>
  BY DEF Pop
<1>2. pc[w] = "idle" /\ UNCHANGED <<submitted, pool, runs>>
  BY DEF Pop
<1>3. Typed /\ j \in Jobs /\ JobOK(j) /\ HolderOK(w) /\ j # NoJob
  BY JobQueueAssumption DEF QueueInv, Typed, Keys
<1>4. held[w] = NoJob
  BY <1>2, <1>3 DEF HolderOK, Holding
<1>5. Untouched(j) /\ submitted[j] \notin {"new", "stored"}
  BY <1>3 DEF JobOK
<1>6. /\ redis' \in Keys /\ redis'.pending = redis.pending \ {j}
      /\ redis'.processing = redis.processing /\ redis'.completed = redis.completed /\ redis'.expired = redis.expired
      /\ redis'.retry = redis.retry /\ redis'.dead = redis.dead
  BY <1>1, <1>3 DEF Typed, Keys
<1>7. \A k \in Jobs : k # j => SameKeys(k)
  BY <1>6 DEF SameKeys
<1>8. "get" \in Holding /\ "get" \in Window
  BY DEF Holding, Window
<1>9. OneOf(j)' /\ runs'[j] <= 1
  BY <1>2, <1>3, <1>6 DEF JobOK, OneOf
<1>10. CASE held' = [held EXCEPT ![w] = j] /\ pc' = [pc EXCEPT ![w] = "get"] /\ UNCHANGED abandoned
  <2>1. /\ pc'[w] = "get" /\ held'[w] = j
        /\ \A v \in Workers : v # w => SameWorker(v) /\ held[v] # j
    BY <1>3, <1>5, <1>10 DEF Typed, SameWorker, Untouched
  <2>2. Typed'
    BY <1>2, <1>3, <1>6, <1>8, <1>10 DEF Typed
  <2>3. HolderOK(w)'
    BY <1>2, <1>3, <1>5, <1>6, <1>8, <2>1 DEF HolderOK, Untouched, SameWorker, Early
  <2>4. JobOK(j)'
    BY <1>2, <1>5, <1>6, <1>8, <1>9, <2>1 DEF JobOK
  <2>5. \A k \in Jobs : k # j => SameJob(k)
    BY <1>2, <1>7, <1>10 DEF SameJob
  <2> QED
    BY <1>2, <1>3, <1>4, <2>1, <2>2, <2>3, <2>4, <2>5, Touch
<1>11. CASE abandoned' = [abandoned EXCEPT ![j] = "get"] /\ UNCHANGED <<held, pc>>
  <2>1. abandoned'[j] = "get" /\ \A k \in Jobs : k # j => abandoned'[k] = abandoned[k]
    BY <1>3, <1>11 DEF Typed
  <2>2. Typed'
    BY <1>2, <1>3, <1>6, <1>8, <1>11 DEF Typed
  <2>3. HolderOK(w)'
    BY <1>2, <1>4, <1>11 DEF HolderOK, Holding
  <2>4. JobOK(j)'
    BY <1>2, <1>5, <1>6, <1>8, <1>9, <2>1 DEF JobOK, Excused
  <2>5. \A k \in Jobs : k # j => SameJob(k)
    BY <1>2, <1>7, <2>1 DEF SameJob
  <2>6. \A v \in Workers : v # w => SameWorker(v) /\ held[v] # j
    BY <1>5, <1>11 DEF SameWorker, Untouched
  <2> QED
    BY <1>2, <1>3, <1>4, <1>11, <2>2, <2>3, <2>4, <2>5, <2>6, Touch
<1> QED
  BY <1>1, <1>10, <1>11

-----------------------------------------------------------------------------
(* Steps that leave every job in hand where it is: the client's, the       *)
(* expiry of data, and those of the pools but for a crash.                 *)

LEMMA QuietStep ==
    ASSUME QueueInv, UNCHANGED <<held, runs, abandoned>>, Typed', Resting',
           \A w \in Workers : pc'[w] # pc[w] => held[w] = NoJob /\ pc'[w] \notin Holding,
           \A k \in Jobs : SameKeys(k) /\ submitted'[k] = submitted[k]
    PROVE  QueueInv'
<1>1. ASSUME NEW w \in Workers PROVE HolderOK(w)'
  <2>1. HolderOK(w) /\ held[w] \in Jobs \cup {NoJob}
    BY DEF QueueInv, Typed
  <2>2. CASE pc'[w] = pc[w]
    BY <2>1, <2>2 DEF HolderOK, SameKeys
  <2>3. CASE pc'[w] # pc[w]
    BY <2>3 DEF HolderOK
  <2> QED
    BY <2>2, <2>3
<1>2. ASSUME NEW k \in Jobs PROVE JobOK(k)'
  <2>1. JobOK(k) /\ k # NoJob /\ SameJob(k)
    BY JobQueueAssumption DEF QueueInv, SameJob
  <2> QED
    BY <2>1, JobFrame
<1> QED
  BY <1>1, <1>2 DEF QueueInv

LEMMA PoolStep ==
    ASSUME QueueInv, NEW p \in Pools, start(p) \/ stop(p) \/ StopReturns(p)
    PROVE  QueueInv'
<1>1. Typed /\ Resting /\ UNCHANGED <<redis, submitted, held, runs, abandoned>>
  BY DEF QueueInv, start, stop, StopReturns
<1>2. PoolOf \in [Workers -> Pools]
  BY JobQueueAssumption
<1>3. \A w \in Workers : pc[w] \notin Holding => held[w] = NoJob
  BY DEF QueueInv, HolderOK
<1>4. {"off", "ended", "spawned", "idle"} \cap Holding = {}
  BY DEF Holding
<1>5. \A k \in Jobs : SameKeys(k) /\ submitted'[k] = submitted[k]
  BY <1>1 DEF SameKeys
<1>6. CASE start(p)
  <2>1. /\ pool[p] = "down" /\ pool' = [pool EXCEPT ![p] = "up"]
        /\ pc' = [w \in Workers |-> IF PoolOf[w] = p THEN "spawned" ELSE pc[w]]
    BY <1>6 DEF start
  <2>2. Typed'
    BY <1>1, <2>1 DEF Typed
  <2>3. Resting'
    BY <1>1, <1>2, <2>1 DEF Resting, Typed
  <2>4. \A w \in Workers : pc'[w] # pc[w] => held[w] = NoJob /\ pc'[w] \notin Holding
    BY <1>1, <1>3, <1>4, <2>1 DEF Resting
  <2> QED
    BY <1>1, <1>5, <2>2, <2>3, <2>4, QuietStep
<1>7. CASE stop(p) \/ StopReturns(p)
  <2>1. pc' = pc
    BY <1>7 DEF stop, StopReturns
  <2>2. Typed'
    BY <1>1, <1>7 DEF Typed, stop, StopReturns
  <2>3. Resting'
    BY <1>1, <1>2, <1>7 DEF Resting, Typed, stop, StopReturns
  <2> QED
    BY <1>1, <1>5, <2>1, <2>2, <2>3, QuietStep
<1> QED
  BY <1>6, <1>7

LEMMA EnterStep ==
    ASSUME QueueInv, NEW w \in Workers, Enter(w)
    PROVE  QueueInv'
<1>1. /\ pc[w] = "spawned" /\ UNCHANGED <<redis, submitted, pool, held, runs, abandoned>>
      /\ pc' = [pc EXCEPT ![w] = IF pool[PoolOf[w]] = "up" THEN "idle" ELSE "ended"]
      /\ Typed /\ Resting /\ HolderOK(w)
  BY DEF Enter, QueueInv
<1>2. pc'[w] \in {"idle", "ended"} /\ \A v \in Workers : v # w => pc'[v] = pc[v]
  BY <1>1 DEF Typed
<1>3. Typed'
  BY <1>1 DEF Typed
<1>4. Resting'
  BY <1>1, <1>2 DEF Resting
<1>5. held[w] = NoJob /\ pc'[w] \notin Holding
  BY <1>1, <1>2 DEF HolderOK, Holding
<1>6. \A k \in Jobs : SameKeys(k) /\ submitted'[k] = submitted[k]
  BY <1>1 DEF SameKeys
<1>7. \A v \in Workers : pc'[v] # pc[v] => held[v] = NoJob /\ pc'[v] \notin Holding
  BY <1>2, <1>5
<1> QED
  BY <1>1, <1>3, <1>4, <1>6, <1>7, QuietStep

\* A crash drops what the workers of the pool have in hand.
LEMMA CrashStep ==
    ASSUME QueueInv, NEW p \in Pools, Crash(p)
    PROVE  QueueInv'
<1> DEFINE mine == {w \in Workers : PoolOf[w] = p}
<1>1. /\ pool' = [pool EXCEPT ![p] = "down"]
      /\ pc' = [w \in Workers |-> IF w \in mine THEN "off" ELSE pc[w]]
      /\ held' = [w \in Workers |-> IF w \in mine THEN NoJob ELSE held[w]]
      /\ abandoned' = [j \in Jobs |->
               IF \E w \in mine : held[w] = j
               THEN pc[CHOOSE w \in mine : held[w] = j] ELSE abandoned[j]]
      /\ UNCHANGED <<redis, submitted, runs>>
  BY DEF Crash
<1>2. Typed /\ Resting /\ PoolOf \in [Workers -> Pools] /\ NoJob \notin Jobs
  BY JobQueueAssumption DEF QueueInv
<1>3. ASSUME NEW j \in Jobs, NEW w \in mine, held[w] = j
      PROVE  abandoned'[j] = pc[w] /\ HolderOK(w) /\ pc[w] \in Holding
  <2>1. HolderOK(w) /\ j # NoJob
    BY <1>2 DEF QueueInv
  <2>2. (CHOOSE v \in mine : held[v] = j) = w
    BY <1>3, <2>1 DEF HolderOK
  <2> QED
    BY <1>1, <1>3, <2>1, <2>2 DEF HolderOK
<1>4. ASSUME NEW j \in Jobs, \A w \in mine : held[w] # j
      PROVE  abandoned'[j] = abandoned[j]
  BY <1>1, <1>4
<1> HIDE DEF mine
<1>5. mine \subseteq Workers
  BY DEF mine
<1>6. Typed'
  <2>1. \A j \in Jobs : abandoned'[j] \in Holding \cup {"no"}
    BY <1>2, <1>3, <1>4 DEF Typed
  <2>2. abandoned' \in [Jobs -> Holding \cup {"no"}]
    BY <1>1, <2>1
  <2> QED
    BY <1>1, <1>2, <2>2 DEF Typed
<1>7. Resting'
  BY <1>1, <1>2 DEF Resting, Typed, mine
<1>8. ASSUME NEW w \in Workers PROVE HolderOK(w)'
  <2>1. CASE w \in mine
    BY <1>1, <2>1 DEF HolderOK, Holding
  <2>2. CASE w \notin mine
    <3>1. HolderOK(w) /\ pc'[w] = pc[w] /\ held'[w] = held[w]
      BY <1>1, <2>2 DEF QueueInv
    <3>2. \A v \in Workers : held'[v] = held[w] /\ held[w] # NoJob => held[v] = held[w]
      BY <1>1
    <3> QED
      BY <1>1, <3>1, <3>2 DEF HolderOK
  <2> QED
    BY <2>1, <2>2
<1>9. ASSUME NEW j \in Jobs PROVE JobOK(j)'
  <2>1. JobOK(j) /\ j # NoJob
    BY <1>2 DEF QueueInv
  <2>2. CASE \E w \in mine : held[w] = j
    <3>1. PICK w \in mine : held[w] = j
      BY <2>2
    <3>2. abandoned'[j] = pc[w] /\ HolderOK(w)
      BY <1>3, <3>1
    <3>3. j \in redis.processing \cup Done(redis) \/ Excused(abandoned[j])'
      BY <2>1, <3>1, <3>2 DEF HolderOK, Excused
    <3>4. submitted[j] \notin {"new", "stored"} /\ j \notin redis.pending
      BY <1>5, <2>1, <3>1 DEF JobOK, Untouched
    <3>5. Somewhere(j)' \/ Excused(abandoned[j])'
      BY <1>1, <3>3 DEF Somewhere
    <3> QED
      BY <1>1, <2>1, <3>4, <3>5 DEF JobOK, OneOf
  <2>3. CASE \A w \in mine : held[w] # j
    <3>1. SameJob(j)
      BY <1>1, <1>4, <2>3 DEF SameJob, SameKeys
    <3>2. /\ \A w \in Workers : held'[w] = j <=> held[w] = j
          /\ \A w \in Workers : held[w] = j => pc'[w] = pc[w]
      BY <1>1, <2>1, <2>3
    <3> QED
      BY <2>1, <3>1, <3>2, JobFrame
  <2> QED
    BY <2>2, <2>3
<1> QED
  BY <1>6, <1>7, <1>8, <1>9 DEF QueueInv

\* The client's steps: only the job that is submitted changes, and no worker
\* has it yet.
LEMMA SubmitStep ==
    ASSUME QueueInv, NEW j \in Jobs, StoreJob(j) \/ AddPending(j)
    PROVE  QueueInv'
<1>1. Typed /\ Resting /\ JobOK(j) /\ UNCHANGED <<pool, pc, held, runs, abandoned>>
  BY DEF QueueInv, StoreJob, AddPending, Submit
<1>2. PICK next \in {"stored", "queued", "failed"} : submitted' = [submitted EXCEPT ![j] = next]
  BY DEF StoreJob, AddPending, Submit
<1>3. Untouched(j) /\ j \notin redis.pending /\ submitted[j] \in {"new", "stored"}
  BY <1>1 DEF JobOK, StoreJob, AddPending
<1>4. /\ redis' \in Keys
      /\ redis'.processing = redis.processing /\ redis'.completed = redis.completed /\ redis'.expired = redis.expired
      /\ redis'.retry = redis.retry /\ redis'.dead = redis.dead
      /\ redis'.pending \in {redis.pending, redis.pending \cup {j}}
      /\ next = "queued" => redis'.pending = redis.pending \cup {j}
      /\ next = "stored" => redis'.pending = redis.pending
  <2>1. CASE StoreJob(j)
    BY <1>1, <1>2, <2>1 DEF StoreJob, Submit, Typed, Keys
  <2>2. CASE AddPending(j)
    BY <1>1, <1>2, <2>2 DEF AddPending, Submit, Typed, Keys
  <2> QED
    BY <2>1, <2>2
<1>5. submitted'[j] = next /\ \A k \in Jobs : k # j => submitted'[k] = submitted[k]
  BY <1>1, <1>2 DEF Typed
<1>6. Typed'
  BY <1>1, <1>2, <1>4 DEF Typed
<1>7. Resting'
  BY <1>1 DEF Resting
<1>8. ASSUME NEW w \in Workers PROVE HolderOK(w)'
  BY <1>1, <1>4 DEF QueueInv, HolderOK
<1>9. ASSUME NEW k \in Jobs PROVE JobOK(k)'
  <2>1. CASE k = j
    <3>1. Untouched(j)' /\ OneOf(j)' /\ runs'[j] <= 1
      BY <1>1, <1>3, <1>4 DEF Untouched, OneOf, JobOK
    <3> QED
      BY <1>3, <1>4, <1>5, <2>1, <3>1 DEF JobOK, Somewhere
  <2>2. CASE k # j
    <3>1. JobOK(k) /\ SameJob(k)
      BY <1>1, <1>4, <1>5, <2>2 DEF QueueInv, SameJob, SameKeys
    <3> QED
      BY <1>1, <3>1, JobFrame
  <2> QED
    BY <2>1, <2>2
<1> QED
  BY <1>6, <1>7, <1>8, <1>9 DEF QueueInv

\* Data that expires changes no key the proofs look at; a completed record that
\* expires leaves its job done.
LEMMA ExpireKeys ==
    ASSUME Typed, NEW j \in Jobs, Expire(j)
    PROVE  /\ redis' \in Keys /\ redis'.pending = redis.pending
           /\ redis'.processing = redis.processing /\ redis'.retry = redis.retry
           /\ redis'.dead = redis.dead /\ redis'.successes = redis.successes
           /\ Done(redis') = Done(redis)
           /\ redis'.completed \in {redis.completed, redis.completed \ {j}}
<1>1. redis \in Keys
  BY DEF Typed
<1>2. CASE redis' = [redis EXCEPT !.data = @ \ {j}]
  BY <1>1, <1>2 DEF Keys
<1>3. CASE j \in redis.completed /\ redis' = [redis EXCEPT !.completed = @ \ {j}, !.expired = @ \cup {j}]
  <2>1. /\ redis' \in Keys /\ redis'.pending = redis.pending
        /\ redis'.processing = redis.processing /\ redis'.retry = redis.retry
        /\ redis'.dead = redis.dead /\ redis'.successes = redis.successes
        /\ redis'.completed = redis.completed \ {j} /\ redis'.expired = redis.expired \cup {j}
    BY <1>1, <1>3 DEF Keys
  <2> QED
    BY <1>3, <2>1
<1> QED
  BY <1>2, <1>3 DEF Expire

LEMMA ExpireStep ==
    ASSUME QueueInv, NEW j \in Jobs, Expire(j)
    PROVE  QueueInv'
<1>1. Typed /\ Resting /\ UNCHANGED <<submitted, pool, pc, held, runs, abandoned>>
  BY DEF QueueInv, Expire
<1>2. /\ redis' \in Keys /\ redis'.pending = redis.pending
      /\ redis'.processing = redis.processing /\ Done(redis') = Done(redis)
      /\ redis'.retry = redis.retry /\ redis'.dead = redis.dead
  BY <1>1, ExpireKeys
<1>3. Typed'
  BY <1>1, <1>2 DEF Typed
<1>4. Resting' /\ \A k \in Jobs : SameKeys(k) /\ submitted'[k] = submitted[k]
  BY <1>1, <1>2 DEF Resting, SameKeys
<1> QED
  BY <1>1, <1>3, <1>4, QuietStep

-----------------------------------------------------------------------------
LEMMA QueueInit == Init => QueueInv
<1> SUFFICES ASSUME Init PROVE QueueInv
  OBVIOUS
<1>1. Typed
  BY DEF Init, Typed, Keys
<1>2. Resting /\ \A w \in Workers : HolderOK(w)
  BY DEF Init, Resting, HolderOK, Holding
<1>3. \A j \in Jobs : JobOK(j)
  BY JobQueueAssumption DEF Init, JobOK, Untouched, OneOf
<1> QED
  BY <1>1, <1>2, <1>3 DEF QueueInv

LEMMA QueueStep == QueueInv /\ [Next]_vars => QueueInv'
<1> SUFFICES ASSUME QueueInv, [Next]_vars PROVE QueueInv'
  OBVIOUS
<1>1. ASSUME NEW w \in Workers, Work(w) PROVE QueueInv'
  BY <1>1, EnterStep, PopStep, GetStep, ExecuteStep, MarkShape, SuccessShape, FailureShape, CommandsStep
     DEF Work
<1>2. ASSUME NEW j \in Jobs, StoreJob(j) \/ AddPending(j) \/ Expire(j) PROVE QueueInv'
  BY <1>2, SubmitStep, ExpireStep
<1>3. ASSUME NEW p \in Pools, start(p) \/ stop(p) \/ StopReturns(p) \/ Crash(p) PROVE QueueInv'
  BY <1>3, PoolStep, CrashStep
<1>4. CASE UNCHANGED vars
  BY <1>4 DEF vars, QueueInv, Typed, Resting, HolderOK, JobOK, Untouched, OneOf, Somewhere, Excused
<1> QED
  BY <1>1, <1>2, <1>3, <1>4 DEF Next

LEMMA QueueHolds == Spec => []QueueInv
  BY QueueInit, QueueStep, PTL DEF Spec

LEMMA AtMostOne ==
    ASSUME NEW S, \A x, y \in S : x = y
    PROVE  Cardinality(S) <= 1
<1>1. CASE S = {}
  BY <1>1, FS_EmptySet
<1>2. CASE \E x : x \in S
  <2>1. PICK x : x \in S
    BY <1>2
  <2>2. S = {x}
    BY <2>1
  <2> QED
    BY <2>2, FS_Singleton
<1> QED
  BY <1>1, <1>2

\* Whatever fails and whoever dies, a job is in one worker's hands at most, is
\* executed once at most and ends in one of the three sets at most, for any
\* number of jobs, pools and workers.
THEOREM JobsHaveOneOutcome == Spec => []OneOutcome
<1>1. QueueInv => OneOutcome
  <2> SUFFICES ASSUME QueueInv, NEW j \in Jobs
               PROVE  /\ Cardinality(InHand(j)) <= 1
                      /\ runs[j] <= 1
                      /\ j \in Done(redis) => j \notin redis.retry \cup redis.dead
                      /\ j \notin redis.retry \cap redis.dead
                      /\ j \in redis.pending => InHand(j) = {} /\ runs[j] = 0
    BY DEF OneOutcome
  <2>1. JobOK(j) /\ j # NoJob
    BY JobQueueAssumption DEF QueueInv
  <2>2. Cardinality(InHand(j)) <= 1
    <3>1. \A v, w \in InHand(j) : v = w
      BY <2>1 DEF InHand, QueueInv, HolderOK
    <3> QED
      BY <3>1, AtMostOne
  <2>3. /\ j \in Done(redis) => j \notin redis.retry \cup redis.dead
        /\ j \notin redis.retry \cap redis.dead
    BY <2>1 DEF JobOK, OneOf
  <2>4. runs[j] <= 1 /\ (j \in redis.pending => InHand(j) = {} /\ runs[j] = 0)
    BY <2>1 DEF JobOK, Untouched, InHand
  <2> QED
    BY <2>2, <2>3, <2>4
<1> QED
  BY <1>1, QueueHolds, PTL

\* A job whose enqueue returned Ok is in one of the five sets, until its
\* completed record expires, unless it is, or was left, between two commands of
\* the operations that move it.
THEOREM QueuedJobsInSight == Spec => []InSight
<1>1. QueueInv => InSight
  <2> SUFFICES ASSUME QueueInv, NEW j \in Jobs, submitted[j] = "queued"
               PROVE  \/ \E f \in {"pending", "processing", "retry", "dead", "completed"} : j \in redis[f]
                      \/ j \in redis.expired
                      \/ \E w \in InHand(j) : pc[w] \in Window
                      \/ abandoned[j] \in Window \cup {"unmark_retry", "unmark_dead"}
    BY DEF InSight
  <2>1. Somewhere(j) \/ Excused(abandoned[j]) \/ \E w \in Workers : held[w] = j /\ pc[w] \in Window
    BY DEF QueueInv, JobOK
  <2>2. CASE Somewhere(j)
    BY <2>2 DEF Somewhere
  <2>3. CASE Excused(abandoned[j])
    BY <2>3 DEF Excused
  <2>4. CASE \E w \in Workers : held[w] = j /\ pc[w] \in Window
    BY <2>4 DEF InHand
  <2> QED
    BY <2>1, <2>2, <2>3, <2>4
<1> QED
  BY <1>1, QueueHolds, PTL

-----------------------------------------------------------------------------
(***************************************************************************)
(* The success counter.  It is bumped last, when the job is completed and  *)
(* as it leaves the worker's hands, so it never exceeds the number of      *)
(* completed jobs that are in nobody's hands.                              *)
(***************************************************************************)

Counted == {j \in Done(redis) : \A w \in Workers : held[w] # j}

CountInv == redis.successes <= Cardinality(Counted)

LEMMA SubsetFinite ==
    ASSUME NEW S, S \subseteq Jobs
    PROVE  /\ IsFiniteSet(S) /\ Cardinality(S) \in Nat
           /\ Cardinality(S) <= Cardinality(Jobs) /\ Cardinality(Jobs) \in Nat
  BY JobQueueAssumption, FS_Subset, FS_CardinalityType

LEMMA CountedFinite ==
    ASSUME Typed
    PROVE  /\ IsFiniteSet(Counted) /\ Cardinality(Counted) \in Nat
           /\ Cardinality(Counted) <= Cardinality(Jobs) /\ Cardinality(Jobs) \in Nat
<1>1. Counted \subseteq Jobs
  BY DEF Counted, Typed, Keys
<1> QED
  BY <1>1, SubsetFinite

\* Completed jobs stay completed and are not taken up again.
LEMMA CountedGrows ==
    ASSUME QueueInv, Done(redis) \subseteq Done(redis'),
           \A w \in Workers : held'[w] \in {held[w], NoJob} \/ held'[w] \in redis.pending
    PROVE  Counted \subseteq Counted'
<1> SUFFICES ASSUME NEW j \in Counted, NEW w \in Workers, held'[w] = j PROVE FALSE
  BY DEF Counted
<1>1. j \in Jobs /\ j # NoJob /\ JobOK(j)
  BY JobQueueAssumption DEF QueueInv, Counted, Typed, Keys
<1> QED
  BY <1>1 DEF Counted, JobOK, Untouched

LEMMA CountQuiet ==
    ASSUME QueueInv, Typed', CountInv, redis'.successes = redis.successes,
           Counted \subseteq Counted'
    PROVE  CountInv'
<1>1. IsFiniteSet(Counted') /\ Cardinality(Counted') \in Nat
  <2>1. Counted' \subseteq Jobs
    BY DEF Counted, Typed, Keys
  <2> QED
    BY <2>1, SubsetFinite
<1>2. Cardinality(Counted) <= Cardinality(Counted')
  BY <1>1, FS_Subset
<1>3. redis.successes \in Nat /\ Cardinality(Counted) \in Nat
  BY CountedFinite DEF QueueInv, Typed, Keys
<1> QED
  BY <1>1, <1>2, <1>3 DEF CountInv

\* What the steps of a worker do to the hands and the counter.
LEMMA CountWork ==
    ASSUME QueueInv, QueueInv', CountInv, NEW w \in Workers, Work(w)
    PROVE  CountInv'
<1>1. Typed /\ Typed' /\ redis \in Keys /\ HolderOK(w) /\ HolderOK(w)'
  BY DEF QueueInv, Typed
<1>2. ASSUME NEW at, NEW next, NEW after, Command(w, at, after, next)
      PROVE  /\ pc[w] = at /\ redis' \in {redis, after}
             /\ \A v \in Workers : held'[v] \in {held[v], NoJob}
             /\ next = "idle" => held'[w] = NoJob
  BY <1>1, <1>2 DEF Command, Abandon, Goto, Typed
<1>3. CASE mark_success(w) /\ pc[w] = "count"
  <2> DEFINE after == [redis EXCEPT !.successes = @ + 1]
  <2>1. Command(w, "count", after, "idle")
    BY <1>3 DEF mark_success, Command
  <2>2. /\ redis' \in {redis, after} /\ held'[w] = NoJob
        /\ \A v \in Workers : held'[v] \in {held[v], NoJob}
    BY <1>2, <2>1
  <2>3. after.completed = redis.completed /\ after.expired = redis.expired /\ after.successes = redis.successes + 1
    BY <1>1 DEF Keys
  <2> HIDE DEF after
  <2>4. Counted \subseteq Counted'
    BY <2>2, <2>3, CountedGrows
  <2>5. PICK j \in Done(redis) : j = held[w]
    BY <1>1, <1>3 DEF HolderOK, Holding
  <2>6. j \in Counted' /\ j \notin Counted
    <3>1. \A v \in Workers : v # w => held[v] # j
      BY <1>1, <1>3, <2>5 DEF HolderOK, Holding
    <3>2. j # NoJob
      BY <1>1, <2>5, JobQueueAssumption DEF Keys
    <3> QED
      BY <2>2, <2>3, <2>5, <3>1, <3>2 DEF Counted
  <2>7. IsFiniteSet(Counted') /\ Cardinality(Counted') \in Nat
    <3>1. Counted' \subseteq Jobs
      BY <1>1 DEF Counted, Typed, Keys
    <3> QED
      BY <3>1, SubsetFinite
  <2>8. IsFiniteSet(Counted) /\ Cardinality(Counted) \in Nat
    BY <1>1, CountedFinite
  <2>9. Cardinality(Counted \cup {j}) = Cardinality(Counted) + 1
    BY <2>6, <2>8, FS_AddElement
  <2>10. Cardinality(Counted \cup {j}) <= Cardinality(Counted')
    BY <2>4, <2>6, <2>7, FS_Subset
  <2>11. redis.successes \in Nat /\ redis'.successes \in {redis.successes, redis.successes + 1}
    BY <1>1, <2>2, <2>3 DEF Keys
  <2> QED
    BY <2>7, <2>8, <2>9, <2>10, <2>11 DEF CountInv
<1>4. ASSUME redis'.successes = redis.successes, Done(redis) \subseteq Done(redis'),
             \A v \in Workers : held'[v] \in {held[v], NoJob} \/ held'[v] \in redis.pending
      PROVE  CountInv'
  BY <1>1, <1>4, CountedGrows, CountQuiet
<1>5. CASE mark_success(w) /\ pc[w] # "count"
  <2>1. PICK after \in {[redis EXCEPT !.completed = @ \cup {held[w]}],
                        [redis EXCEPT !.processing = @ \ {held[w]}],
                        [redis EXCEPT !.data = @ \ {held[w]}]},
             at \in Holding, next \in Holding \cup {"idle"} : Command(w, at, after, next)
    BY <1>5 DEF mark_success, Command, Holding
  <2>2. after.successes = redis.successes /\ Done(redis) \subseteq Done(after)
    BY <1>1, <2>1 DEF Keys
  <2> QED
    BY <1>2, <1>4, <2>1, <2>2
<1>6. CASE Mark(w) \/ mark_processing(w) \/ mark_retry(w) \/ mark_deadletter(w)
  <2>1. PICK after \in {[redis EXCEPT !.processing = @ \cup {held[w]}],
                        [redis EXCEPT !.processing = @ \ {held[w]}],
                        [redis EXCEPT !.retry = @ \cup {held[w]}],
                        [redis EXCEPT !.dead = @ \cup {held[w]}]},
             at \in Holding, next \in Holding \cup {"idle"} : Command(w, at, after, next)
    BY <1>6 DEF Mark, mark_processing, mark_retry, mark_deadletter, Holding
  <2>2. after.successes = redis.successes /\ Done(redis) \subseteq Done(after)
    BY <1>1, <2>1 DEF Keys
  <2> QED
    BY <1>2, <1>4, <2>1, <2>2
<1>7. CASE Enter(w) \/ Get(w) \/ Execute(w)
  <2>1. redis' = redis
    BY <1>7 DEF Enter, Get, Execute
  <2>2. \A v \in Workers : held'[v] \in {held[v], NoJob}
    BY <1>1, <1>7 DEF Enter, Get, Execute, Abandon, Goto, Typed
  <2> QED
    BY <1>4, <2>1, <2>2
<1>8. CASE Pop(w)
  <2>1. redis'.successes = redis.successes /\ redis'.completed = redis.completed /\ redis'.expired = redis.expired
    BY <1>1, <1>8 DEF Pop, Keys
  <2>2. \A v \in Workers : held'[v] = held[v] \/ held'[v] \in redis.pending
    BY <1>1, <1>8 DEF Pop, Typed
  <2> QED
    BY <1>4, <2>1, <2>2
<1> QED
  BY <1>3, <1>5, <1>6, <1>7, <1>8 DEF Work

LEMMA CountStep == QueueInv /\ QueueInv' /\ CountInv /\ [Next]_vars => CountInv'
<1> SUFFICES ASSUME QueueInv, QueueInv', CountInv, [Next]_vars PROVE CountInv'
  OBVIOUS
<1>1. Typed /\ Typed' /\ redis \in Keys
  BY DEF QueueInv, Typed
<1>2. CASE \E w \in Workers : Work(w)
  BY <1>2, CountWork
<1>3. CASE ~\E w \in Workers : Work(w)
  <2>1. redis'.successes = redis.successes /\ Done(redis') = Done(redis)
    <3>1. ASSUME NEW j \in Jobs, StoreJob(j) \/ AddPending(j)
          PROVE  /\ redis'.successes = redis.successes /\ redis'.completed = redis.completed
                 /\ redis'.expired = redis.expired
      BY <1>1, <3>1 DEF StoreJob, AddPending, Submit, Keys
    <3> QED
      BY <1>1, <1>3, <3>1, ExpireKeys DEF Next, start, stop, StopReturns, Crash, vars
  <2>2. \A v \in Workers : held'[v] \in {held[v], NoJob}
    <3>1. ASSUME NEW p \in Pools, Crash(p)
          PROVE  \A v \in Workers : held'[v] \in {held[v], NoJob}
      BY <3>1 DEF Crash
    <3>2. held' = held \/ \E p \in Pools : Crash(p)
      BY <1>3 DEF Next, StoreJob, AddPending, Submit, Expire, start, stop, StopReturns, vars
    <3> QED
      BY <1>1, <3>1, <3>2 DEF Typed
  <2> QED
    BY <1>1, <2>1, <2>2, CountedGrows, CountQuiet
<1> QED
  BY <1>2, <1>3

\* The keys and the workers have their types, and the success counter never
\* exceeds the number of jobs, for any number of jobs, pools and workers.
THEOREM TypeCorrect == Spec => []TypeOK
<1>1. Init => CountInv
  <2> SUFFICES ASSUME Init PROVE CountInv
    OBVIOUS
  <2>1. Counted = {} /\ redis.successes = 0
    BY DEF Init, Counted
  <2> QED
    BY <2>1, FS_EmptySet DEF CountInv
<1>2. QueueInv /\ CountInv => TypeOK
  <2> SUFFICES ASSUME QueueInv, CountInv PROVE TypeOK
    OBVIOUS
  <2>1. Typed /\ redis.successes \in 0 .. Cardinality(Jobs)
    BY CountedFinite DEF QueueInv, CountInv, Typed, Keys
  <2> QED
    BY <2>1 DEF Typed, Keys, TypeOK
<1> QED
  BY <1>1, <1>2, CountStep, QueueHolds, PTL DEF Spec

-----------------------------------------------------------------------------
(***************************************************************************)
(* The queue implements JobLife.  The status of a job is read off the keys *)
(* that hold it and the workers' hands: a job in no key that once was in   *)
(* hand is left.                                                           *)
(***************************************************************************)

Recorded(j) == j \in Done(redis) \cup redis.retry \cup redis.dead
Taken(j) == \E w \in Workers : held[w] = j

Status(j) ==
    CASE j \in Done(redis) -> IF j \in redis.completed THEN "success" ELSE "forgotten"
      [] j \in redis.retry /\ j \notin Done(redis) -> "retrying"
      [] j \in redis.dead /\ j \notin Done(redis) \cup redis.retry -> "deadletter"
      [] j \in redis.pending /\ ~Recorded(j) -> "pending"
      [] Taken(j) /\ ~Recorded(j) /\ j \notin redis.pending -> "processing"
      [] OTHER -> IF abandoned[j] # "no" THEN "left" ELSE "new"

StatusOf == [j \in Jobs |-> Status(j)]
Executed == {j \in Jobs : runs[j] # 0}

Life == INSTANCE JobLife WITH status <- StatusOf, executed <- Executed

LEMMA StatusFrame ==
    ASSUME NEW j \in Jobs, SameJob(j), Taken(j)' <=> Taken(j),
           j \in redis'.completed <=> j \in redis.completed
    PROVE  Status(j)' = Status(j)
  BY DEF SameJob, SameKeys, Status, Recorded

\* The status of one job changes along an edge of JobLife, or none does.
Edge(j) ==
    \/ Status(j)' = Status(j)
    \/ Status(j) = "new" /\ Status(j)' = "pending"
    \/ Status(j) = "success" /\ Status(j)' = "forgotten"
    \/ Status(j) = "pending" /\ Status(j)' = "processing"
    \/ Status(j) \in {"pending", "processing"} /\ Status(j)' = "left"
    \/ Status(j) = "processing" /\ Status(j)' \in {"success", "retrying", "deadletter"} /\ runs[j] # 0

LEMMA LifeEdge ==
    ASSUME NEW j \in Jobs, UNCHANGED runs, Edge(j),
           \A k \in Jobs : k # j => Status(k)' = Status(k)
    PROVE  Life!Next \/ UNCHANGED Life!lifeVars
<1>1. Executed' = Executed
  BY DEF Executed
<1>2. StatusOf' = [StatusOf EXCEPT ![j] = Status(j)'] /\ StatusOf[j] = Status(j)
  BY DEF StatusOf
<1>3. CASE Status(j)' = Status(j)
  <2>1. StatusOf' = StatusOf
    BY <1>3 DEF StatusOf
  <2> QED
    BY <1>1, <2>1 DEF Life!lifeVars
<1>4. CASE Status(j) = "new" /\ Status(j)' = "pending"
  <2>1. Life!Submit(j)
    BY <1>1, <1>2, <1>4 DEF Life!Submit, Life!Move
  <2> QED
    BY <2>1 DEF Life!Next
<1>5. CASE Status(j) = "pending" /\ Status(j)' = "processing"
  <2>1. Life!Take(j)
    BY <1>1, <1>2, <1>5 DEF Life!Take, Life!Move
  <2> QED
    BY <2>1 DEF Life!Next
<1>6. CASE Status(j) \in {"pending", "processing"} /\ Status(j)' = "left"
  <2>1. \A k \in {j} : StatusOf[k] \in {"pending", "processing"}
    BY <1>2, <1>6
  <2>2. StatusOf' = [k \in Jobs |-> IF k \in {j} THEN "left" ELSE StatusOf[k]]
    BY <1>6 DEF StatusOf
  <2>3. Life!Leave({j})
    BY <1>1, <2>1, <2>2 DEF Life!Leave
  <2> QED
    BY <2>3 DEF Life!Next
<1>7. CASE /\ Status(j) = "processing" /\ runs[j] # 0
           /\ Status(j)' \in {"success", "retrying", "deadletter"}
  <2>1. j \in Executed
    BY <1>7 DEF Executed
  <2>2. Life!Record(j)
    BY <1>1, <1>2, <1>7, <2>1 DEF Life!Record, Life!Move, Life!Results
  <2> QED
    BY <2>2 DEF Life!Next
<1>8. CASE Status(j) = "success" /\ Status(j)' = "forgotten"
  <2>1. Life!Forget(j)
    BY <1>1, <1>2, <1>8 DEF Life!Forget, Life!Move
  <2> QED
    BY <2>1 DEF Life!Next
<1> QED
  BY <1>3, <1>4, <1>5, <1>6, <1>7, <1>8 DEF Edge

\* A step that moves no job.
LEMMA LifeStutter ==
    ASSUME UNCHANGED runs, \A k \in Jobs : Status(k)' = Status(k)
    PROVE  UNCHANGED Life!lifeVars
  BY DEF Life!lifeVars, StatusOf, Executed

LEMMA LifeCommand ==
    ASSUME QueueInv, NEW w \in Workers, Shaped(w)
    PROVE  Life!Next \/ UNCHANGED Life!lifeVars
<1>1. PICK j \in Jobs, at \in Holding, next \in Holding \cup {"idle"}, after \in Keys :
        j = held[w] /\ Command(w, at, after, next) /\ Shape(j, at, after, next)
  BY DEF Shaped
<1>2. HolderOK(w) /\ JobOK(j) /\ j # NoJob
  BY JobQueueAssumption DEF QueueInv
<1>3. /\ pc[w] = at /\ redis' \in {redis, after} /\ UNCHANGED <<submitted, pool, runs>>
      /\ \A v \in Workers : v # w => SameWorker(v)
      /\ \A k \in Jobs : k # j => abandoned'[k] = abandoned[k]
      /\ \/ redis' = after /\ abandoned' = abandoned /\ pc'[w] = next
            /\ held'[w] = IF next = "idle" THEN NoJob ELSE j
         \/ abandoned'[j] = at /\ pc'[w] = "idle" /\ held'[w] = NoJob
  BY <1>1, CommandEnds DEF QueueInv
<1>4. ASSUME NEW k \in Jobs, k # j PROVE Status(k)' = Status(k)
  <2>1. SameJob(k)
    BY <1>1, <1>3, <1>4 DEF SameJob, SameKeys, Shape
  <2>2. k # NoJob
    BY JobQueueAssumption
  <2>3. Taken(k)' <=> Taken(k)
    BY <1>1, <1>3, <1>4, <2>2 DEF Taken, SameWorker
  <2>4. k \in redis'.completed <=> k \in redis.completed
    BY <1>1, <1>3, <1>4 DEF Shape
  <2> QED
    BY <2>1, <2>3, <2>4, StatusFrame
<1>5. /\ j \notin redis.pending /\ j \notin redis'.pending
      /\ j \notin redis.retry \cup redis.dead
      /\ at \in Early <=> runs[j] = 0
  BY <1>1, <1>2, <1>3 DEF HolderOK, JobOK, Untouched, Shape
<1>6. Taken(j) /\ (held'[w] = j => Taken(j)') /\ (held'[w] = NoJob => ~Taken(j)')
  BY <1>1, <1>2, <1>3 DEF Taken, HolderOK, SameWorker
<1>7. CASE j \in Done(redis)
  <2>1. j \in Done(redis') /\ (j \in redis'.completed <=> j \in redis.completed)
    BY <1>1, <1>2, <1>3, <1>7 DEF Shape, HolderOK
  <2>2. Status(j)' = Status(j)
    BY <1>7, <2>1 DEF Status, Recorded
  <2> QED
    BY <1>3, <1>4, <2>2, LifeEdge DEF Edge
<1>8. CASE j \notin Done(redis)
  <2>1. Status(j) = "processing"
    BY <1>5, <1>6, <1>8 DEF Status, Recorded
  <2>2. CASE Recorded(j)'
    <3>0. j \notin redis'.expired
      BY <1>1, <1>3, <1>8 DEF Shape
    <3>1. Status(j)' \in {"success", "retrying", "deadletter"}
      BY <2>2, <3>0 DEF Status, Recorded
    <3>2. redis' = after
      BY <1>3, <1>5, <1>8, <2>2 DEF Recorded
    <3>3. runs[j] # 0
      BY <1>1, <1>5, <2>2, <3>2 DEF Recorded, Shape
    <3> QED
      BY <1>3, <1>4, <2>1, <3>1, <3>3, LifeEdge DEF Edge
  <2>3. CASE ~Recorded(j)' /\ held'[w] = j
    <3>1. Status(j)' = "processing"
      BY <1>5, <1>6, <2>3 DEF Status, Recorded
    <3> QED
      BY <1>3, <1>4, <2>1, <3>1, LifeEdge DEF Edge
  <2>4. CASE ~Recorded(j)' /\ held'[w] = NoJob
    <3>1. abandoned'[j] # "no"
      BY <1>1, <1>2, <1>3, <2>4 DEF Shape, Recorded, Holding
    <3>2. Status(j)' = "left"
      BY <1>5, <1>6, <2>4, <3>1 DEF Status, Recorded
    <3> QED
      BY <1>3, <1>4, <2>1, <3>2, LifeEdge DEF Edge
  <2>5. held'[w] \in {j, NoJob}
    BY <1>3
  <2> QED
    BY <2>2, <2>3, <2>4, <2>5
<1> QED
  BY <1>7, <1>8

LEMMA LifeGet ==
    ASSUME QueueInv, NEW w \in Workers, Get(w)
    PROVE  Life!Next \/ UNCHANGED Life!lifeVars
<1>1. pc[w] = "get" /\ pc[w] \in Holding /\ UNCHANGED <<redis, submitted, pool, runs>>
  BY DEF Get, Holding
<1>2. PICK j \in Jobs : j = held[w]
  BY <1>1, InHandFacts
<1>3. HolderOK(w) /\ JobOK(j) /\ j # NoJob /\ Typed
  BY <1>1, <1>2, InHandFacts DEF QueueInv
<1>4. CASE Goto(w, "mark") /\ UNCHANGED abandoned
  <2>1. held' = held
    BY <1>3, <1>4 DEF Goto, Typed
  <2>2. \A k \in Jobs : Status(k)' = Status(k)
    BY <1>1, <1>4, <2>1 DEF Status, Recorded, Taken
  <2> QED
    BY <1>1, <2>2, LifeStutter
<1>5. CASE Abandon(w)
  <2>1. /\ held'[w] = NoJob /\ abandoned'[j] = "get"
        /\ \A v \in Workers : v # w => held'[v] = held[v]
        /\ \A k \in Jobs : k # j => abandoned'[k] = abandoned[k]
    BY <1>1, <1>2, <1>3, <1>5 DEF Abandon, Goto, Typed
  <2>2. ASSUME NEW k \in Jobs, k # j PROVE Status(k)' = Status(k)
    <3>1. Taken(k)' <=> Taken(k)
      BY <1>2, <2>1, <2>2, JobQueueAssumption DEF Taken
    <3> QED
      BY <1>1, <2>1, <2>2, <3>1 DEF Status, Recorded
  <2>3. Taken(j) /\ ~Taken(j)' /\ ~Recorded(j) /\ j \notin redis.pending
    BY <1>1, <1>2, <1>3, <2>1 DEF Taken, HolderOK, Recorded, JobOK, Untouched
  <2>4. Status(j) = "processing"
    BY <2>3 DEF Status, Recorded
  <2>5. Status(j)' = "left"
    BY <1>1, <2>1, <2>3 DEF Status, Recorded
  <2> QED
    BY <1>1, <2>2, <2>4, <2>5, LifeEdge DEF Edge
<1> QED
  BY <1>4, <1>5 DEF Get

LEMMA LifeExecute ==
    ASSUME QueueInv, NEW w \in Workers, Execute(w)
    PROVE  Life!Next \/ UNCHANGED Life!lifeVars
<1>1. pc[w] = "execute" /\ pc[w] \in Holding /\ UNCHANGED <<redis, submitted, pool, abandoned>>
  BY DEF Execute, Holding
<1>2. PICK j \in Jobs : j = held[w]
  BY <1>1, InHandFacts
<1>3. HolderOK(w) /\ JobOK(j) /\ j # NoJob /\ Typed
  BY <1>1, <1>2, InHandFacts DEF QueueInv
<1>4. held' = held /\ runs' = [runs EXCEPT ![j] = @ + 1]
  BY <1>2, <1>3 DEF Execute, Goto, Typed
<1>5. StatusOf' = StatusOf
  BY <1>1, <1>4 DEF StatusOf, Status, Recorded, Taken
<1>6. runs[j] = 0 /\ ~Recorded(j) /\ j \notin redis.pending /\ Taken(j)
  BY <1>1, <1>2, <1>3 DEF HolderOK, Recorded, JobOK, Untouched, Taken, Early
<1>7. StatusOf[j] = "processing"
  BY <1>6 DEF StatusOf, Status, Recorded
<1>8. j \notin Executed /\ Executed' = Executed \cup {j}
  BY <1>3, <1>4, <1>6 DEF Executed, Typed
<1>9. Life!Run(j)
  BY <1>5, <1>7, <1>8 DEF Life!Run
<1> QED
  BY <1>9 DEF Life!Next

LEMMA LifePop ==
    ASSUME QueueInv, NEW w \in Workers, Pop(w)
    PROVE  Life!Next \/ UNCHANGED Life!lifeVars
<1>1. PICK j \in redis.pending :
        /\ redis' = [redis EXCEPT !.pending = @ \ {j}]
        /\ \/ /\ held' = [held EXCEPT ![w] = j]
              /\ UNCHANGED abandoned
           \/ /\ abandoned' = [abandoned EXCEPT ![j] = "get"]
              /\ UNCHANGED held
  BY DEF Pop
<1>2. pc[w] = "idle" /\ UNCHANGED <<submitted, pool, runs>>
  BY DEF Pop
<1>3. Typed /\ j \in Jobs /\ JobOK(j) /\ HolderOK(w) /\ j # NoJob
  BY JobQueueAssumption DEF QueueInv, Typed, Keys
<1>4. held[w] = NoJob
  BY <1>2, <1>3 DEF HolderOK, Holding
<1>5. ~Recorded(j) /\ ~Taken(j)
  BY <1>3 DEF JobOK, Untouched, Recorded, Taken
<1>6. /\ redis'.pending = redis.pending \ {j} /\ redis'.processing = redis.processing
      /\ redis'.completed = redis.completed /\ redis'.expired = redis.expired /\ redis'.retry = redis.retry /\ redis'.dead = redis.dead
  BY <1>1, <1>3 DEF Typed, Keys
<1>7. /\ \A v \in Workers : v # w => held'[v] = held[v]
      /\ \A k \in Jobs : k # j => abandoned'[k] = abandoned[k]
      /\ \/ held'[w] = j
         \/ abandoned'[j] = "get" /\ held' = held
  BY <1>1, <1>3 DEF Typed
<1>8. ASSUME NEW k \in Jobs, k # j PROVE Status(k)' = Status(k)
  <2>1. Taken(k)' <=> Taken(k)
    BY <1>4, <1>7, <1>8, JobQueueAssumption DEF Taken
  <2>2. SameJob(k)
    BY <1>2, <1>6, <1>7, <1>8 DEF SameJob, SameKeys
  <2> QED
    BY <1>6, <2>1, <2>2, StatusFrame
<1>9. Status(j) = "pending"
  BY <1>5 DEF Status, Recorded
<1>10. ~Recorded(j)' /\ j \notin redis'.pending
  BY <1>5, <1>6 DEF Recorded
<1>11. Status(j)' \in {"processing", "left"}
  <2>1. CASE Taken(j)'
    BY <1>10, <2>1 DEF Status, Recorded
  <2>2. CASE ~Taken(j)'
    <3>1. abandoned'[j] = "get"
      BY <1>7, <2>2 DEF Taken
    <3> QED
      BY <1>10, <2>2, <3>1 DEF Status, Recorded
  <2> QED
    BY <2>1, <2>2
<1> QED
  BY <1>2, <1>3, <1>8, <1>9, <1>11, LifeEdge DEF Edge

LEMMA LifeSubmit ==
    ASSUME QueueInv, NEW j \in Jobs, StoreJob(j) \/ AddPending(j)
    PROVE  Life!Next \/ UNCHANGED Life!lifeVars
<1>1. Typed /\ JobOK(j) /\ UNCHANGED <<held, runs, abandoned>>
  BY DEF QueueInv, StoreJob, AddPending, Submit
<1>2. Untouched(j) /\ j \notin redis.pending
  BY <1>1 DEF JobOK, StoreJob, AddPending
<1>3. /\ redis'.processing = redis.processing /\ redis'.completed = redis.completed /\ redis'.expired = redis.expired
      /\ redis'.retry = redis.retry /\ redis'.dead = redis.dead
      /\ redis'.pending \in {redis.pending, redis.pending \cup {j}}
  BY <1>1 DEF StoreJob, AddPending, Submit, Typed, Keys
<1>4. ASSUME NEW k \in Jobs, k # j PROVE Status(k)' = Status(k)
  BY <1>1, <1>3, <1>4 DEF Status, Recorded, Taken
<1>5. Status(j) = "new"
  BY <1>2 DEF Status, Recorded, Taken, Untouched
<1>6. Status(j)' \in {"new", "pending"}
  BY <1>1, <1>2, <1>3 DEF Status, Recorded, Taken, Untouched
<1> QED
  BY <1>1, <1>4, <1>5, <1>6, LifeEdge DEF Edge

LEMMA LifeCrash ==
    ASSUME QueueInv, NEW p \in Pools, Crash(p)
    PROVE  Life!Next \/ UNCHANGED Life!lifeVars
<1> DEFINE mine == {w \in Workers : PoolOf[w] = p}
           S == {j \in Jobs : ~Recorded(j) /\ \E w \in mine : held[w] = j}
<1>1. /\ held' = [w \in Workers |-> IF w \in mine THEN NoJob ELSE held[w]]
      /\ abandoned' = [j \in Jobs |->
               IF \E w \in mine : held[w] = j
               THEN pc[CHOOSE w \in mine : held[w] = j] ELSE abandoned[j]]
      /\ UNCHANGED <<redis, submitted, runs>>
  BY DEF Crash
<1>2. ASSUME NEW j \in Jobs, NEW w \in mine, held[w] = j
      PROVE  ~Taken(j)' /\ abandoned'[j] # "no" /\ j \notin redis.pending /\ Taken(j)
  <2>1. HolderOK(w) /\ JobOK(j) /\ j # NoJob
    BY JobQueueAssumption DEF QueueInv
  <2>2. (CHOOSE v \in mine : held[v] = j) = w /\ pc[w] \in Holding
    BY <1>2, <2>1 DEF HolderOK
  <2>3. abandoned'[j] = pc[w]
    BY <1>1, <1>2, <2>2
  <2>4. abandoned'[j] # "no"
    BY <2>2, <2>3 DEF Holding
  <2>5. ~Taken(j)'
    BY <1>1, <1>2, <2>1 DEF Taken, HolderOK
  <2> QED
    BY <1>2, <2>1, <2>4, <2>5 DEF Taken, JobOK, Untouched
<1>3. ASSUME NEW j \in Jobs, \A w \in mine : held[w] # j
      PROVE  abandoned'[j] = abandoned[j] /\ (Taken(j)' <=> Taken(j))
  BY <1>1, <1>3, JobQueueAssumption DEF Taken
<1>4. ASSUME NEW j \in S
      PROVE  Status(j) = "processing" /\ Status(j)' = "left"
  <2>1. PICK w \in mine : held[w] = j
    BY <1>4
  <2>2. ~Taken(j)' /\ abandoned'[j] # "no" /\ j \notin redis.pending /\ Taken(j) /\ ~Recorded(j)
    BY <1>2, <1>4, <2>1
  <2> QED
    BY <1>1, <2>2 DEF Status, Recorded
<1>5. ASSUME NEW j \in Jobs, j \notin S
      PROVE  Status(j)' = Status(j)
  <2>1. CASE Recorded(j)
    BY <1>1, <2>1 DEF Status, Recorded
  <2>2. CASE \A w \in mine : held[w] # j
    <3>1. SameJob(j) /\ (Taken(j)' <=> Taken(j))
      BY <1>1, <1>3, <2>2 DEF SameJob, SameKeys
    <3> QED
      BY <1>1, <3>1, StatusFrame
  <2> QED
    BY <1>5, <2>1, <2>2
<1> HIDE DEF S, mine
<1>6. StatusOf' = [j \in Jobs |-> IF j \in S THEN "left" ELSE StatusOf[j]]
  BY <1>4, <1>5 DEF StatusOf
<1>7. S \subseteq Jobs
  BY DEF S
<1>8. \A j \in S : StatusOf[j] \in {"pending", "processing"}
  BY <1>4, <1>7 DEF StatusOf
<1>9. Executed' = Executed
  BY <1>1 DEF Executed
<1>10. Life!Leave(S)
  BY <1>6, <1>8, <1>9 DEF Life!Leave
<1> QED
  BY <1>7, <1>10 DEF Life!Next

LEMMA LifeStep == QueueInv /\ [Next]_vars => [Life!Next]_(Life!lifeVars)
<1> SUFFICES ASSUME QueueInv, [Next]_vars
             PROVE  Life!Next \/ UNCHANGED Life!lifeVars
  OBVIOUS
<1>1. ASSUME NEW w \in Workers, Work(w)
      PROVE  Life!Next \/ UNCHANGED Life!lifeVars
  <2>1. CASE Enter(w)
    BY <2>1, LifeStutter DEF Enter, Status, Recorded, Taken
  <2> QED
    BY <1>1, <2>1, LifePop, LifeGet, LifeExecute, MarkShape, SuccessShape, FailureShape, LifeCommand
       DEF Work
<1>2. ASSUME NEW j \in Jobs, Expire(j)
      PROVE  Life!Next \/ UNCHANGED Life!lifeVars
  <2>1. /\ redis'.pending = redis.pending /\ Done(redis') = Done(redis)
        /\ redis'.retry = redis.retry /\ redis'.dead = redis.dead
        /\ UNCHANGED <<held, runs, abandoned>>
        /\ redis'.completed \in {redis.completed, redis.completed \ {j}}
    BY <1>2, ExpireKeys DEF Expire, QueueInv
  <2>2. ASSUME NEW k \in Jobs, k # j PROVE Status(k)' = Status(k)
    BY <2>1, <2>2 DEF Status, Recorded, Taken
  <2>3. Status(j)' = Status(j) \/ (Status(j) = "success" /\ Status(j)' = "forgotten")
    BY <2>1 DEF Status, Recorded, Taken
  <2> QED
    BY <2>1, <2>2, <2>3, LifeEdge DEF Edge
<1>3. ASSUME UNCHANGED <<redis, held, runs, abandoned>>
      PROVE  UNCHANGED Life!lifeVars
  BY <1>3, LifeStutter DEF Status, Recorded, Taken
<1> QED
  BY <1>1, <1>2, <1>3, LifeSubmit, LifeCrash DEF Next, start, stop, StopReturns, vars

\* The life of a job never goes back: for any number of jobs, pools and workers
\* every step of the queue is a step of JobLife or leaves it alone.
THEOREM QueueImplementsLife == Spec => Life!Spec
<1>1. Init => Life!Init
  BY JobQueueAssumption DEF Init, Life!Init, StatusOf, Status, Recorded, Taken, Executed
<1> QED
  BY <1>1, LifeStep, QueueHolds, PTL DEF Spec, Life!Spec
=============================================================================
