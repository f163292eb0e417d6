----------------------------- MODULE JobContract -----------------------------
(***************************************************************************)
(* What the job queue and its workers promise to whoever adds a job, one   *)
(* atomic step per outcome: a job waits, runs, and its execution succeeds  *)
(* or fails; a failed execution is counted and either scheduled again or,  *)
(* at the limit, recorded as failed.  A job whose process dies is stranded.*)
(* The commands, locks, loops and promises of the implementation are gone. *)
(***************************************************************************)
EXTENDS Naturals

CONSTANTS Jobs, MaxAttempts

VARIABLES state, tries

States == {"unknown", "waiting", "running", "stranded", "completed", "failed", "gone"}

Init ==
  /\ state = [j \in Jobs |-> "unknown"]
  /\ tries = [j \in Jobs |-> 0]

Becomes(j, s) == state' = [state EXCEPT ![j] = s] /\ UNCHANGED tries

Submit(j) == state[j] = "unknown" /\ Becomes(j, "waiting")
Withdraw(j) == state[j] = "waiting" /\ Becomes(j, "gone")
Execute(j) == state[j] = "waiting" /\ Becomes(j, "running")
Succeed(j) == state[j] = "running" /\ Becomes(j, "completed")

FailOnce(j) ==
  /\ state[j] = "running"
  /\ tries' = [tries EXCEPT ![j] = @ + 1]
  /\ state' = [state EXCEPT ![j] =
                 IF tries[j] + 1 < MaxAttempts[j] THEN "waiting" ELSE "failed"]

\* A process dies with everything it was running.
Strand ==
  /\ \E S \in SUBSET {j \in Jobs : state[j] = "running"} :
       state' = [j \in Jobs |-> IF j \in S THEN "stranded" ELSE state[j]]
  /\ UNCHANGED tries

\* The retention of the collection: a stored document is deleted.
Forget(j) == state[j] \notin {"unknown", "gone"} /\ Becomes(j, "gone")

Next ==
  \/ \E j \in Jobs :
       \/ Submit(j)
       \/ Withdraw(j)
       \/ Execute(j)
       \/ Succeed(j)
       \/ FailOnce(j)
       \/ Forget(j)
  \/ Strand

Spec == Init /\ [][Next]_<<state, tries>>
=============================================================================
