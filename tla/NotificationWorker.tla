-------------------------- MODULE NotificationWorker --------------------------
(***************************************************************************)
(* The worker processes that drain MongoQueue (NotificationWorker.ts,      *)
(* started and stopped by packages/workers/src/worker.ts).                 *)
(*                                                                         *)
(* A process runs one polling loop per job type.  A loop compares          *)
(* _activeJobs with the concurrency limit, awaits getNextJob, and, given a *)
(* job, counts it and starts processJob without awaiting it.  Such an      *)
(* unawaited processJob is a run, a record of the set runs:                *)
(*   job, nth   which execution of which job                               *)
(*   worker     the process it runs in                                     *)
(*   pc         "handling"   the handler is executing                      *)
(*              "completing" it returned; complete() has been called       *)
(*              "failing"    something threw; the findOne of fail() is out *)
(*              "recording"  fail() read attempts = seen, its write is out *)
(* Between two of these the process awaits, and any other step may happen. *)
(***************************************************************************)
EXTENDS MongoQueue

CONSTANTS
  Workers,      \* worker processes (a deploy overlaps two of them)
  Concurrency   \* config.concurrency

ASSUME WorkerConstants ==
  /\ Concurrency \in Nat \ {0}
  /\ IsFiniteSet(Types)

VARIABLES
  phase,   \* of each process: "down", "up", or how far stop() has got
  loop,    \* of each process and type: "top", "claiming" or "ended"
  active,  \* _activeJobs
  runs,    \* the executions in progress
  claims   \* history: how often each job has been handed out

workerVars == <<phase, loop, active, runs, claims>>
vars == <<queueVars, workerVars>>

Phases == {"down", "up", "draining", "joining", "stopped"}
Pcs == {"handling", "completing", "failing", "recording"}
Run == [job : Jobs, nth : Nat, worker : Workers, pc : Pcs, seen : Nat]

TypeOK ==
  /\ QueueTypeOK
  /\ phase \in [Workers -> Phases]
  /\ loop \in [Workers -> [Types -> {"top", "claiming", "ended"}]]
  /\ active \in [Workers -> Nat]
  /\ runs \in SUBSET Run
  /\ claims \in [Jobs -> Nat]

Init ==
  /\ QueueInit
  /\ phase = [w \in Workers |-> "down"]
  /\ loop = [w \in Workers |-> [t \in Types |-> "ended"]]
  /\ active = [w \in Workers |-> 0]
  /\ runs = {}
  /\ claims = [j \in Jobs |-> 0]

-----------------------------------------------------------------------------
(* Process lifetime. *)

RunsOf(w) == {r \in runs : r.worker = w}
Claiming(w) == {t \in Types : loop[w][t] = "claiming"}

\* start(): sets _running and launches the loops.
Start(w) ==
  /\ phase[w] = "down"
  /\ phase' = [phase EXCEPT ![w] = "up"]
  /\ loop' = [loop EXCEPT ![w] = [t \in Types |-> "top"]]
  /\ UNCHANGED <<queueVars, active, runs, claims>>

\* The process is gone with everything it was doing; nothing is written.
Die(w) ==
  /\ phase' = [phase EXCEPT ![w] = "down"]
  /\ loop' = [loop EXCEPT ![w] = [t \in Types |-> "ended"]]
  /\ active' = [active EXCEPT ![w] = 0]
  /\ runs' = runs \ RunsOf(w)
  /\ UNCHANGED <<queueVars, claims>>

Crash(w) ==
  /\ "crash" \in Faults
  /\ phase[w] # "down"
  /\ Die(w)

\* stop(): clears _running ...
StopRequested(w) ==
  /\ "shutdown" \in Faults
  /\ phase[w] = "up"
  /\ phase' = [phase EXCEPT ![w] = "draining"]
  /\ UNCHANGED <<queueVars, loop, active, runs, claims>>

\* ... polls until no job is active ...
StopDrained(w) ==
  /\ phase[w] = "draining"
  /\ active[w] = 0
  /\ phase' = [phase EXCEPT ![w] = "joining"]
  /\ UNCHANGED <<queueVars, loop, active, runs, claims>>

\* ... and awaits the loops.
StopReturns(w) ==
  /\ phase[w] = "joining"
  /\ \A t \in Types : loop[w][t] = "ended"
  /\ phase' = [phase EXCEPT ![w] = "stopped"]
  /\ UNCHANGED <<queueVars, loop, active, runs, claims>>

\* shutdown() in worker.ts: close the client, process.exit(0).
Exit(w) ==
  /\ phase[w] = "stopped"
  /\ Die(w)

-----------------------------------------------------------------------------
(* The polling loop of type t in process w. *)

\* Variant: > instead of >= .
PollOneMore(w, t) ==
  /\ phase[w] = "up"
  /\ loop[w][t] = "top"
  /\ active[w] <= Concurrency
  /\ loop' = [loop EXCEPT ![w][t] = "claiming"]
  /\ UNCHANGED <<queueVars, phase, active, runs, claims>>

\* while (this._running) { if (_activeJobs >= _concurrency) sleep ... }
Poll(w, t) ==
  /\ phase[w] = "up"
  /\ loop[w][t] = "top"
  /\ active[w] < Concurrency
  /\ loop' = [loop EXCEPT ![w][t] = "claiming"]
  /\ UNCHANGED <<queueVars, phase, active, runs, claims>>

LoopEnds(w, t) ==
  /\ phase[w] \in {"draining", "joining"}
  /\ loop[w][t] = "top"
  /\ loop' = [loop EXCEPT ![w][t] = "ended"]
  /\ UNCHANGED <<queueVars, phase, active, runs, claims>>

\* getNextJob hands out j: _activeJobs++ and processJob(j), not awaited.
\* _running is not looked at again before the run starts.
Claim(w, t, j) ==
  /\ loop[w][t] = "claiming"
  /\ j \in NextJobs(t)
  /\ LockJob(j)
  /\ loop' = [loop EXCEPT ![w][t] = "top"]
  /\ active' = [active EXCEPT ![w] = @ + 1]
  /\ claims' = [claims EXCEPT ![j] = @ + 1]
  /\ runs' = runs \union {[job |-> j, nth |-> claims[j] + 1, worker |-> w,
                           pc |-> "handling", seen |-> 0]}
  /\ UNCHANGED phase

\* getNextJob returns null, or throws before the server changed anything.
ClaimNothing(w, t) ==
  /\ loop[w][t] = "claiming"
  /\ NextJobs(t) = {} \/ "dbError" \in Faults
  /\ loop' = [loop EXCEPT ![w][t] = "top"]
  /\ UNCHANGED <<queueVars, phase, active, runs, claims>>

\* getNextJob throws although the server has locked j: nobody runs it.
ClaimReplyLost(w, t, j) ==
  /\ "dbError" \in Faults
  /\ loop[w][t] = "claiming"
  /\ j \in NextJobs(t)
  /\ LockJob(j)
  /\ loop' = [loop EXCEPT ![w][t] = "top"]
  /\ claims' = [claims EXCEPT ![j] = @ + 1]
  /\ UNCHANGED <<phase, active, runs>>

-----------------------------------------------------------------------------
(* A run, up to the finally() that decrements _activeJobs. *)

Advance(r, pc) == runs' = (runs \ {r}) \union {[r EXCEPT !.pc = pc]}

\* Variant: without the finally().
SettlesUncounted(r) == runs' = runs \ {r} /\ UNCHANGED active

\* The promise settles: the run is over and _activeJobs--.
Settles(r) ==
  /\ runs' = runs \ {r}
  /\ active' = [active EXCEPT ![r.worker] = @ - 1]

HandlerReturns(r) ==
  /\ r.pc = "handling"
  /\ Advance(r, "completing")
  /\ UNCHANGED <<queueVars, phase, loop, active, claims>>

HandlerThrows(r) ==
  /\ r.pc = "handling"
  /\ Advance(r, "failing")
  /\ UNCHANGED <<queueVars, phase, loop, active, claims>>

Complete(r) ==
  /\ r.pc = "completing"
  /\ SetCompleted(r.job)
  /\ Settles(r)
  /\ UNCHANGED <<phase, loop, claims>>

\* complete() throws, inside the same try as the handler: fail() is called,
\* also when the server did mark the job completed.
CompleteThrows(r) ==
  /\ "dbError" \in Faults
  /\ r.pc = "completing"
  /\ SetCompleted(r.job) \/ UNCHANGED queueVars
  /\ Advance(r, "failing")
  /\ UNCHANGED <<phase, loop, active, claims>>

FailReads(r) ==
  /\ r.pc = "failing"
  /\ Stored(r.job)
  /\ runs' = (runs \ {r}) \union
             {[r EXCEPT !.pc = "recording", !.seen = attempts[r.job]]}
  /\ UNCHANGED <<queueVars, phase, loop, active, claims>>

\* findOne returns null: 'Job ... not found' is thrown and only logged.
FailFindsNothing(r) ==
  /\ r.pc = "failing"
  /\ ~Stored(r.job)
  /\ Settles(r)
  /\ UNCHANGED <<queueVars, phase, loop, claims>>

FailWrites(r) ==
  /\ r.pc = "recording"
  /\ SetFailed(r.job, r.seen + 1)
  /\ Settles(r)
  /\ UNCHANGED <<phase, loop, claims>>

\* Either command of fail() throws and had no effect: only logged.
FailThrows(r) ==
  /\ "dbError" \in Faults
  /\ r.pc \in {"failing", "recording"}
  /\ Settles(r)
  /\ UNCHANGED <<queueVars, phase, loop, claims>>

-----------------------------------------------------------------------------
Lifetime(w) ==
  \/ Start(w)
  \/ Crash(w)
  \/ StopRequested(w)
  \/ StopDrained(w)
  \/ StopReturns(w)
  \/ Exit(w)

LoopStep(w, t) ==
  \/ Poll(w, t)
  \/ LoopEnds(w, t)
  \/ \E j \in Jobs : Claim(w, t, j)
  \/ ClaimNothing(w, t)
  \/ \E j \in Jobs : ClaimReplyLost(w, t, j)

RunStep(r) ==
  \/ HandlerReturns(r)
  \/ HandlerThrows(r)
  \/ Complete(r)
  \/ CompleteThrows(r)
  \/ FailReads(r)
  \/ FailFindsNothing(r)
  \/ FailWrites(r)
  \/ FailThrows(r)

Next ==
  \/ \E j \in Jobs : QueueStep(j) /\ UNCHANGED workerVars
  \/ \E w \in Workers : Lifetime(w)
  \/ \E w \in Workers, t \in Types : LoopStep(w, t)
  \/ \E r \in runs : RunStep(r)

Spec == Init /\ [][Next]_vars

(***************************************************************************)
(* Timers fire, loops keep polling, stop() keeps waiting, and a handler    *)
(* eventually returns or throws: all of it is the event loop's doing.      *)
(* Callers, faults and the operator's signals are under no fairness.       *)
(***************************************************************************)
RunProgress(j) == \E r \in runs : r.job = j /\ RunStep(r)

Fairness ==
  /\ \A j \in Jobs :
       /\ WF_vars(BecomeDue(j) /\ UNCHANGED workerVars)
       /\ WF_vars(BecomeStale(j) /\ UNCHANGED workerVars)
       /\ WF_vars(ResetStalled(j) /\ UNCHANGED workerVars)
       /\ WF_vars(RunProgress(j))
  /\ \A w \in Workers :
       /\ WF_vars(Start(w))
       /\ WF_vars(StopDrained(w))
       /\ WF_vars(StopReturns(w))
       /\ WF_vars(Exit(w))
       /\ \A t \in Types : WF_vars(LoopStep(w, t))

FairSpec == Spec /\ Fairness

-----------------------------------------------------------------------------
(* Properties. *)

\* No job is ever executed twice at the same time, by whatever processes,
\* although complete() and fail() write by _id without looking at the lock.
SingleRunner == \A r, s \in runs : r.job = s.job => r = s

\* A job is executed at most maxAttempts times, although fail() reads the
\* attempts it increments in one command and writes them in another.
RunsWithinBudget == \A j \in Jobs : claims[j] <= MaxAttempts[j]

\* A job is given up only after exactly maxAttempts executions.
FailedMeansExhausted ==
  \A j \in Jobs : status[j] = "failed" =>
    /\ attempts[j] = MaxAttempts[j]
    /\ claims[j] = MaxAttempts[j]

\* _activeJobs counts the executions in progress: a path that settled without
\* decrementing it would use up the concurrency for good.
ActiveJobsExact == \A w \in Workers : active[w] = Cardinality(RunsOf(w))

\* The loops check _activeJobs before they await getNextJob, so the limit can
\* be overshot, by at most one job per further loop.
BoundedOvershoot ==
  \A w \in Workers : active[w] < Concurrency + Cardinality(Types)

\* Whatever escapes the wait of stop() was claimed by a loop that was already
\* awaiting getNextJob: at most one execution per loop is cut off by the exit.
StopAbandonsOnePerLoop ==
  \A w \in Workers : phase[w] \in {"joining", "stopped"} =>
    Cardinality(RunsOf(w)) <= Cardinality(Types)

\* A recorded outcome is final: a completed or failed job is never pending or
\* processing again.
OutcomeIsFinal ==
  [][\A j \in Jobs : status[j] \in {"completed", "failed"} =>
       status'[j] \in {status[j], "deleted"}]_vars

\* stop() returns, whatever is queued and however many jobs were in flight.
StopTerminates ==
  \A w \in Workers : phase[w] \in {"draining", "joining"} ~> phase[w] = "down"

\* A job locked by a process that no longer runs it.
Stranded(j) == status[j] = "processing" /\ \A r \in runs : r.job # j

\* While a process is up, every scheduled job gets an outcome (or is cancelled
\* or cleaned up), unless the process goes away under it.
EveryJobSettles ==
  \A j \in Jobs : status[j] = "pending" ~>
    \/ status[j] \in {"completed", "failed", "deleted"}
    \/ Stranded(j)
    \/ \A w \in Workers : phase[w] # "up"

-----------------------------------------------------------------------------
(* The contract the queue keeps with its callers. *)

JobState(j) ==
  CASE status[j] = "absent" -> "unknown"
    [] status[j] = "pending" -> "waiting"
    [] status[j] = "processing" -> IF Stranded(j) THEN "stranded" ELSE "running"
    [] status[j] = "completed" -> "completed"
    [] status[j] = "failed" -> "failed"
    [] status[j] = "deleted" -> "gone"

ContractState == [j \in Jobs |-> JobState(j)]

Contract == INSTANCE JobContract WITH state <- ContractState, tries <- attempts

\* Across crashes, exits and expiry, the unguarded writes of complete() and
\* the two commands of fail() act as one atomic step on a job that is running.
ImplementsContract == Contract!Spec
=============================================================================
