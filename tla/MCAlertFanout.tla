----------------------------- MODULE MCAlertFanout -----------------------------
(***************************************************************************)
(* An instance of AlertFanout for TLC: one alert for parents, with two     *)
(* attempts, and one process.  Only the kind of an entry goes by its       *)
(* address, and one address at three places brings out the most: the       *)
(* owner's own entry, a contact, and the student's alertEmail, which makes *)
(* all of them the student's.                                              *)
(***************************************************************************)
EXTENDS AlertFanout

CONSTANTS a1, mum, w1

MCAlerts == {a1}
MCPeople == {mum}
MCPasses == 1..2
MCJobs == MCAlerts \union DeliverJobs
MCTypes == {"notify", "deliver"}
MCJobType == [j \in Jobs |-> IF j \in MCAlerts THEN "notify" ELSE "deliver"]
MCPriority == [j \in Jobs |-> 10]
MCMaxAttempts == [j \in Jobs |-> IF j \in MCAlerts THEN 2 ELSE 1]
MCAudience == [a \in MCAlerts |-> {"parent"}]
MCWorkers == {w1}
MCFaults == {"dbError"}
MCFrequencies == {"balanced", "minimal"}
=============================================================================
