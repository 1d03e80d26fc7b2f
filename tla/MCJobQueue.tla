------------------------------ MODULE MCJobQueue ------------------------------
(* JobQueue on a small instance: two jobs and two servers, of which the    *)
(* one that may crash has two workers.                                     *)
EXTENDS JobQueue, TLC

CONSTANTS j1, j2, s1, s2, w1, w2, w3

MCJobs     == {j1, j2}
MCServers  == {s1, s2}
MCWorkers  == {w1, w2, w3}
MCServerOf == w1 :> s1 @@ w2 :> s1 @@ w3 :> s2
MCStopping == {s1}
=============================================================================
