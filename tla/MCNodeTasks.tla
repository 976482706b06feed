------------------------------ MODULE MCNodeTasks ------------------------------
(* Instances of NodeTasks for TLC. *)
EXTENDS NodeTasks, TLC

CONSTANTS w1, w2, o1, o2

\* every process has a worker id of its own (hostname, pid, random suffix)
OwnIds == w1 :> o1 @@ w2 :> o2

\* both processes were started with the same worker_id
SharedId == w1 :> o1 @@ w2 :> o1
===============================================================================
