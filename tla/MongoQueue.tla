------------------------------ MODULE MongoQueue ------------------------------
(***************************************************************************)
(* The persistent job queue of packages/agents: one MongoDB collection     *)
(* 'jobs', shared by the API (which adds), the scheduler (which cancels)   *)
(* and the worker processes (which claim, complete and fail).              *)
(*                                                                         *)
(* A document is abstracted to what the queue's own code branches on:      *)
(*   status    its status field, "absent" before add, "deleted" after      *)
(*   attempts  its attempts field                                          *)
(*   due       scheduledFor <= now                                         *)
(*   stale     lockedAt < now - 5 min (meaningful while "processing")      *)
(* lockedBy and processingStartedAt are written but never read by the      *)
(* operations below, so they are left out.  Every operator here is one     *)
(* command sent to the server, hence atomic.                               *)
(***************************************************************************)
EXTENDS Naturals, FiniteSets

CONSTANTS
  Jobs,         \* the documents that may ever be inserted
  Types,        \* the job types ('notify', 'deliver', 'guidance')
  JobType,      \* [Jobs -> Types]
  Priority,     \* [Jobs -> Nat], the smaller the sooner
  MaxAttempts,  \* [Jobs -> Nat \ {0}]
  Faults,       \* what the deployment is exposed to, see FaultKinds
  MaxSweeps     \* bound: resetStalledJobs stops counting attempts here

(***************************************************************************)
(* "ttl":      the API has run createIndexes, whose TTL index on           *)
(*             jobs.scheduledFor lets the server delete due documents      *)
(* "sweep":    something calls resetStalledJobs (no production code does)  *)
(* "dbError":  a command may fail, its effect applied or not               *)
(* "crash":    a worker process may die                                    *)
(* "shutdown": a worker process may get SIGTERM and call stop()            *)
(***************************************************************************)
FaultKinds == {"ttl", "sweep", "dbError", "crash", "shutdown"}

ASSUME QueueConstants ==
  /\ JobType \in [Jobs -> Types]
  /\ Priority \in [Jobs -> Nat]
  /\ MaxAttempts \in [Jobs -> Nat \ {0}]
  /\ Faults \subseteq FaultKinds
  /\ MaxSweeps \in Nat

VARIABLES status, attempts, due, stale

queueVars == <<status, attempts, due, stale>>

Statuses == {"absent", "pending", "processing", "completed", "failed", "deleted"}

Stored(j) == status[j] \notin {"absent", "deleted"}

QueueTypeOK ==
  /\ status \in [Jobs -> Statuses]
  /\ attempts \in [Jobs -> Nat]
  /\ due \in [Jobs -> BOOLEAN]
  /\ stale \in [Jobs -> BOOLEAN]

QueueInit ==
  /\ status = [j \in Jobs |-> "absent"]
  /\ attempts = [j \in Jobs |-> 0]
  /\ due = [j \in Jobs |-> FALSE]
  /\ stale = [j \in Jobs |-> FALSE]

-----------------------------------------------------------------------------
(* Operations of callers other than the worker. *)

\* add(): insertOne, due at once or at options.scheduledFor / delay.
Add(j) ==
  /\ status[j] = "absent"
  /\ status' = [status EXCEPT ![j] = "pending"]
  /\ \E d \in BOOLEAN : due' = [due EXCEPT ![j] = d]
  /\ UNCHANGED <<attempts, stale>>

\* cancel(): deleteOne on a pending document only.
Cancel(j) ==
  /\ status[j] = "pending"
  /\ status' = [status EXCEPT ![j] = "deleted"]
  /\ UNCHANGED <<attempts, due, stale>>

\* cleanup() and the TTL index on completedAt: old completed documents go.
Cleanup(j) ==
  /\ status[j] = "completed"
  /\ status' = [status EXCEPT ![j] = "deleted"]
  /\ UNCHANGED <<attempts, due, stale>>

\* resetStalledJobs(): each matching document, once; nothing compares
\* attempts with maxAttempts.
ResetStalled(j) ==
  /\ "sweep" \in Faults
  /\ status[j] = "processing"
  /\ stale[j]
  /\ attempts[j] < MaxSweeps
  /\ status' = [status EXCEPT ![j] = "pending"]
  /\ attempts' = [attempts EXCEPT ![j] = @ + 1]
  /\ stale' = [stale EXCEPT ![j] = FALSE]
  /\ UNCHANGED due

\* The TTL index on scheduledFor: expireAfterSeconds 0 and no partial filter,
\* so the server deletes a due document in whatever status it is.
TtlExpire(j) ==
  /\ "ttl" \in Faults
  /\ Stored(j)
  /\ due[j]
  /\ status' = [status EXCEPT ![j] = "deleted"]
  /\ UNCHANGED <<attempts, due, stale>>

-----------------------------------------------------------------------------
(* The clock, as far as the guards can tell. *)

\* scheduledFor is reached.
BecomeDue(j) ==
  /\ status[j] = "pending"
  /\ ~due[j]
  /\ due' = [due EXCEPT ![j] = TRUE]
  /\ UNCHANGED <<status, attempts, stale>>

\* Five minutes pass under the same lock.
BecomeStale(j) ==
  /\ "sweep" \in Faults
  /\ status[j] = "processing"
  /\ ~stale[j]
  /\ stale' = [stale EXCEPT ![j] = TRUE]
  /\ UNCHANGED <<status, attempts, due>>

-----------------------------------------------------------------------------
(* The worker's commands; the actions that issue them are in              *)
(* NotificationWorker.                                                     *)

\* Variant: the filter forgets the status.
ClaimableInAnyStatus(t) == {j \in Jobs : Stored(j) /\ due[j] /\ JobType[j] = t}

\* The filter of getNextJob.
Claimable(t) == {j \in Jobs : status[j] = "pending" /\ due[j] /\ JobType[j] = t}

\* Its sort: lowest priority value first.  Among equals the earliest
\* scheduledFor wins; the order among due documents is left open here.
NextJobs(t) ==
  {j \in Claimable(t) : \A k \in Claimable(t) : Priority[j] <= Priority[k]}

\* findOneAndUpdate: filter and lock in one step.
LockJob(j) ==
  /\ status' = [status EXCEPT ![j] = "processing"]
  /\ stale' = [stale EXCEPT ![j] = FALSE]
  /\ UNCHANGED <<attempts, due>>

\* complete(): updateOne by _id alone, whatever the status; no match, no write.
SetCompleted(j) ==
  /\ status' = IF Stored(j) THEN [status EXCEPT ![j] = "completed"] ELSE status
  /\ stale' = [stale EXCEPT ![j] = FALSE]
  /\ UNCHANGED <<attempts, due>>

\* Variant: the comparison with maxAttempts is off by one.
ExhaustedLate(j, n) == n > MaxAttempts[j]

\* The branch of fail() taken with n = the attempts it read, plus one.
Exhausted(j, n) == n >= MaxAttempts[j]

\* The write of fail(): updateOne by _id alone.  A retry is scheduled
\* 2^n * 2 s ahead, so it is not due.
SetFailed(j, n) ==
  IF ~Stored(j) THEN UNCHANGED queueVars
  ELSE /\ status' = [status EXCEPT ![j] = IF Exhausted(j, n) THEN "failed" ELSE "pending"]
       /\ attempts' = [attempts EXCEPT ![j] = n]
       /\ due' = [due EXCEPT ![j] = IF Exhausted(j, n) THEN @ ELSE FALSE]
       /\ stale' = [stale EXCEPT ![j] = FALSE]

\* Everything that changes the collection without a worker asking for it.
QueueStep(j) ==
  \/ Add(j)
  \/ Cancel(j)
  \/ Cleanup(j)
  \/ ResetStalled(j)
  \/ TtlExpire(j)
  \/ BecomeDue(j)
  \/ BecomeStale(j)
=============================================================================
