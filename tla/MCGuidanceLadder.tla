--------------------------- MODULE MCGuidanceLadder ---------------------------
(***************************************************************************)
(* Instances of GuidanceLadder for TLC.  The assignment is due at 11:30 of *)
(* day 3, its third step half an hour before the midnight after it, and    *)
(* two ingests have scheduled it; or it is due at noon, and its first step *)
(* is snapped away from the time it stands for.                            *)
(***************************************************************************)
EXTENDS GuidanceLadder, TLC

CONSTANTS a1, c1, c2, w1

MCTypes == {"guidance"}
MCWorkers == {w1}
MCErrors == {"dbError", "crash"}
MCJobType == [j \in Jobs |-> "guidance"]
MCPriority == [j \in Jobs |-> 10]
MCMaxAttempts == [j \in Jobs |-> 2]
MCAssignments == {a1}

MCTwoCopies == {c1, c2}
MCTwoJobs == MCAssignments \X {"t12h"} \X MCTwoCopies
MCDueMorning == [a \in MCAssignments |-> 167]
MCMidnight == {190, 191, 192}
MCWindow == {<<1, 6>>}
CopySymmetry == Permutations(MCTwoCopies)

MCOneCopy == {c1}
MCOneJob == MCAssignments \X {"t48h"} \X MCOneCopy
MCDueNoon == [a \in MCAssignments |-> 168]
MCAfternoon == {0, 72, 80}
MCNoWindow == {<<0, 0>>}
=============================================================================
