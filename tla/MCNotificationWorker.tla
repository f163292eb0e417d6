------------------------- MODULE MCNotificationWorker -------------------------
(***************************************************************************)
(* Instances of NotificationWorker for TLC: a notify and a deliver job of  *)
(* two attempts, one or two processes.                                     *)
(***************************************************************************)
EXTENDS NotificationWorker, TLC

CONSTANTS n1, d1, w1, w2

MCTwoJobs == {n1, d1}
MCTypes == {"notify", "deliver"}
MCTwoJobType == [j \in MCTwoJobs |-> IF j = d1 THEN "deliver" ELSE "notify"]
MCPriority == [j \in Jobs |-> 10]
MCMaxAttempts == [j \in Jobs |-> 2]
MCWorkers == {w1, w2}
MCOneWorker == {w1}

NoSweep == {"ttl", "dbError", "crash", "shutdown"}
StopAndSweep == {"crash", "shutdown", "sweep"}

WorkerSymmetry == Permutations(Workers)
=============================================================================
