----------------------------- MODULE MCJobQueue -----------------------------
(* Two jobs, the second on its last attempt, and two pools of one worker.  *)
EXTENDS JobQueue, TLC

CONSTANTS j1, j2, p1, p2, w1, w2

MCAttempt == j1 :> 1 @@ j2 :> 2
MCPoolOf == w1 :> p1 @@ w2 :> p2
=============================================================================
