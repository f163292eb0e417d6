----------------------- MODULE NotificationWorkerProofs -----------------------
(***************************************************************************)
(* Theorems about NotificationWorker, for every set of jobs, types and     *)
(* processes and every combination of faults unless a theorem excludes     *)
(* some.  The proofs go in three layers:                                   *)
(*   CountInv      executions are finitely many, identified by (job, nth), *)
(*                 and counted exactly by _activeJobs                      *)
(*   LoopInv       how many claims the loops can still have in flight      *)
(*   JobInv        the lock: what the status of a job says about who runs  *)
(*                 it and how often it has been run                        *)
(***************************************************************************)
EXTENDS NotificationWorker, FiniteSetTheorems, TLAPS

-----------------------------------------------------------------------------
(* Counting the executions of a process. *)

\* An execution that advances to its next await stays counted once.
LEMMA ReplaceRun ==
  ASSUME IsFiniteSet(runs), NEW r \in runs, NEW s, s.worker = r.worker,
         s \notin runs, runs' = (runs \ {r}) \union {s}, NEW w
  PROVE  /\ IsFiniteSet(runs')
         /\ Cardinality(RunsOf(w)') = Cardinality(RunsOf(w))
<1>1. IsFiniteSet(runs')
  BY FS_RemoveElement, FS_AddElement
<1>2. IsFiniteSet(RunsOf(w))
  BY FS_Subset DEF RunsOf
<1>3. CASE r.worker # w
  <2>1. RunsOf(w)' = RunsOf(w)
    BY <1>3 DEF RunsOf
  <2> QED BY <1>1, <2>1
<1>4. CASE r.worker = w
  <2>1. RunsOf(w)' = (RunsOf(w) \ {r}) \union {s}
    BY <1>4 DEF RunsOf
  <2>2. r \in RunsOf(w) /\ s \notin RunsOf(w) \ {r}
    BY <1>4 DEF RunsOf
  <2>3. Cardinality(RunsOf(w)) \in Nat
    BY <1>2, FS_CardinalityType
  <2>4. /\ IsFiniteSet(RunsOf(w) \ {r})
        /\ Cardinality(RunsOf(w) \ {r}) = Cardinality(RunsOf(w)) - 1
    BY <1>2, <2>2, FS_RemoveElement
  <2>5. Cardinality(RunsOf(w)') = Cardinality(RunsOf(w) \ {r}) + 1
    BY <2>1, <2>2, <2>4, FS_AddElement
  <2> QED BY <1>1, <2>3, <2>4, <2>5
<1> QED BY <1>3, <1>4

\* An execution that is over leaves its process with one less.
LEMMA EndRun ==
  ASSUME IsFiniteSet(runs), NEW r \in runs, runs' = runs \ {r}, NEW w
  PROVE  /\ IsFiniteSet(runs')
         /\ Cardinality(RunsOf(w)) \in Nat
         /\ w = r.worker =>
              /\ Cardinality(RunsOf(w)) > 0
              /\ Cardinality(RunsOf(w)') = Cardinality(RunsOf(w)) - 1
         /\ w # r.worker => RunsOf(w)' = RunsOf(w)
<1>1. IsFiniteSet(runs') /\ IsFiniteSet(RunsOf(w))
  BY FS_RemoveElement, FS_Subset DEF RunsOf
<1>2. Cardinality(RunsOf(w)) \in Nat
  BY <1>1, FS_CardinalityType
<1>3. ASSUME w = r.worker
      PROVE  /\ Cardinality(RunsOf(w)) > 0
             /\ Cardinality(RunsOf(w)') = Cardinality(RunsOf(w)) - 1
  <2>1. RunsOf(w)' = RunsOf(w) \ {r} /\ r \in RunsOf(w)
    BY <1>3 DEF RunsOf
  <2>2. Cardinality(RunsOf(w)) # 0
    BY <1>1, <2>1, FS_EmptySet
  <2>3. Cardinality(RunsOf(w)') = Cardinality(RunsOf(w)) - 1
    BY <1>1, <2>1, FS_RemoveElement
  <2> QED BY <1>2, <2>2, <2>3
<1>4. ASSUME w # r.worker PROVE RunsOf(w)' = RunsOf(w)
  BY <1>4 DEF RunsOf
<1> QED BY <1>1, <1>2, <1>3, <1>4

\* A claimed job is one more execution of the claiming process.
LEMMA NewRun ==
  ASSUME IsFiniteSet(runs), NEW s, s \notin runs, runs' = runs \union {s}, NEW w
  PROVE  /\ IsFiniteSet(runs')
         /\ Cardinality(RunsOf(w)) \in Nat
         /\ w = s.worker => Cardinality(RunsOf(w)') = Cardinality(RunsOf(w)) + 1
         /\ w # s.worker => RunsOf(w)' = RunsOf(w)
<1>1. IsFiniteSet(runs') /\ IsFiniteSet(RunsOf(w))
  BY FS_AddElement, FS_Subset DEF RunsOf
<1>2. ASSUME w = s.worker
      PROVE  Cardinality(RunsOf(w)') = Cardinality(RunsOf(w)) + 1
  <2>1. RunsOf(w)' = RunsOf(w) \union {s} /\ s \notin RunsOf(w)
    BY <1>2 DEF RunsOf
  <2> QED BY <1>1, <2>1, FS_AddElement
<1>3. ASSUME w # s.worker PROVE RunsOf(w)' = RunsOf(w)
  BY <1>3 DEF RunsOf
<1> QED BY <1>1, <1>2, <1>3, FS_CardinalityType

-----------------------------------------------------------------------------
(* CountInv. *)

\* Two executions are never the same (job, nth).
Identified ==
  /\ \A r \in runs : r.nth <= claims[r.job]
  /\ \A r, s \in runs : r.job = s.job /\ r.nth = s.nth => r = s

DownIsIdle ==
  \A w \in Workers : phase[w] = "down" =>
    RunsOf(w) = {} /\ \A t \in Types : loop[w][t] = "ended"

CountInv ==
  /\ TypeOK
  /\ IsFiniteSet(runs)
  /\ Identified
  /\ ActiveJobsExact
  /\ DownIsIdle

LEMMA CountInit == Init => CountInv
<1> SUFFICES ASSUME Init PROVE CountInv
  OBVIOUS
<1>1. TypeOK
  <2>1. QueueTypeOK
    BY DEF Init, QueueInit, QueueTypeOK, Statuses
  <2>2. loop \in [Workers -> [Types -> {"top", "claiming", "ended"}]]
    BY DEF Init
  <2>3. /\ phase \in [Workers -> Phases]
        /\ active \in [Workers -> Nat]
        /\ runs \in SUBSET Run
        /\ claims \in [Jobs -> Nat]
    BY DEF Init, Phases
  <2> QED BY <2>1, <2>2, <2>3 DEF TypeOK
<1>2. \A w \in Workers : RunsOf(w) = {}
  BY DEF Init, RunsOf
<1> QED BY <1>1, <1>2, FS_EmptySet
  DEF Init, CountInv, Identified, ActiveJobsExact, DownIsIdle

\* A command on the collection keeps the documents well formed.
LEMMA QueueTypes ==
  ASSUME QueueTypeOK, NEW j \in Jobs,
         \/ QueueStep(j) \/ LockJob(j) \/ SetCompleted(j)
         \/ \E n \in Nat : SetFailed(j, n)
         \/ UNCHANGED queueVars
  PROVE  QueueTypeOK'
<1>1. CASE QueueStep(j)
  <2>1. CASE Add(j)
    BY <2>1 DEF Add, QueueTypeOK, Statuses
  <2>2. CASE Cancel(j) \/ Cleanup(j)
    BY <2>2 DEF Cancel, Cleanup, QueueTypeOK, Statuses
  <2>3. CASE ResetStalled(j)
    BY <2>3 DEF ResetStalled, QueueTypeOK, Statuses
  <2>4. CASE TtlExpire(j)
    BY <2>4 DEF TtlExpire, QueueTypeOK, Statuses
  <2>5. CASE BecomeDue(j) \/ BecomeStale(j)
    BY <2>5 DEF BecomeDue, BecomeStale, QueueTypeOK, Statuses
  <2> QED BY <1>1, <2>1, <2>2, <2>3, <2>4, <2>5 DEF QueueStep
<1>2. CASE LockJob(j) \/ SetCompleted(j)
  BY <1>2 DEF LockJob, SetCompleted, QueueTypeOK, Statuses
<1>3. CASE \E n \in Nat : SetFailed(j, n)
  BY <1>3 DEF SetFailed, queueVars, QueueTypeOK, Statuses
<1>4. CASE UNCHANGED queueVars
  BY <1>4 DEF queueVars, QueueTypeOK
<1> QED BY <1>1, <1>2, <1>3, <1>4

\* Steps of an execution that keep it in progress.
LEMMA CountAdvance ==
  ASSUME CountInv, NEW r \in runs, NEW s \in Run,
         s.job = r.job, s.nth = r.nth, s.worker = r.worker, s # r,
         runs' = (runs \ {r}) \union {s},
         QueueTypeOK', UNCHANGED <<phase, loop, active, claims>>
  PROVE  CountInv'
<1> USE DEF CountInv
<1>1. s \notin runs
  BY DEF Identified
<1>2. TypeOK'
  BY DEF TypeOK
<1>3. /\ IsFiniteSet(runs')
      /\ \A w : Cardinality(RunsOf(w)') = Cardinality(RunsOf(w))
  BY <1>1, ReplaceRun
<1>4. Identified'
  BY DEF Identified
<1>5. ActiveJobsExact'
  BY <1>3 DEF ActiveJobsExact
<1>6. DownIsIdle'
  BY DEF DownIsIdle, RunsOf
<1> QED BY <1>2, <1>3, <1>4, <1>5, <1>6

\* Steps that end an execution.
LEMMA CountSettles ==
  ASSUME CountInv, NEW r \in runs, Settles(r),
         QueueTypeOK', UNCHANGED <<phase, loop, claims>>
  PROVE  CountInv'
<1> USE DEF CountInv
<1>1. r.worker \in Workers /\ runs' = runs \ {r}
  BY DEF TypeOK, Run, Settles
<1>2. /\ IsFiniteSet(runs')
      /\ \A w : /\ Cardinality(RunsOf(w)) \in Nat
                /\ w = r.worker =>
                     /\ Cardinality(RunsOf(w)) > 0
                     /\ Cardinality(RunsOf(w)') = Cardinality(RunsOf(w)) - 1
                /\ w # r.worker => RunsOf(w)' = RunsOf(w)
  BY <1>1, EndRun
<1>3. ActiveJobsExact'
  BY <1>1, <1>2 DEF ActiveJobsExact, Settles, TypeOK
<1>4. active' \in [Workers -> Nat]
  BY <1>1, <1>2 DEF ActiveJobsExact, Settles, TypeOK
<1>5. TypeOK'
  BY <1>1, <1>4 DEF TypeOK
<1>6. Identified' /\ DownIsIdle'
  BY <1>1 DEF Identified, DownIsIdle, RunsOf
<1> QED BY <1>2, <1>3, <1>5, <1>6

\* Every step of an execution either keeps it in progress or ends it.
LEMMA CountRunStep ==
  ASSUME CountInv, NEW r \in runs, RunStep(r)
  PROVE  CountInv'
<1> USE DEF CountInv
<1>r. /\ r \in Run
      /\ r.job \in Jobs
      /\ QueueTypeOK
      /\ attempts[r.job] \in Nat
      /\ r.seen \in Nat
  BY DEF TypeOK, QueueTypeOK, Run
<1>1. CASE HandlerReturns(r)
  <2> DEFINE s == [r EXCEPT !.pc = "completing"]
  <2>1. s \in Run /\ s.job = r.job /\ s.nth = r.nth /\ s.worker = r.worker /\ s # r
    BY <1>1, <1>r DEF HandlerReturns, Run, Pcs
  <2>2. /\ runs' = (runs \ {r}) \union {s}
        /\ UNCHANGED <<queueVars, phase, loop, active, claims>>
    BY <1>1 DEF HandlerReturns, Advance
  <2>3. QueueTypeOK'
    BY <1>r, <2>2 DEF QueueTypeOK, queueVars
  <2> HIDE DEF s
  <2> QED BY <2>1, <2>2, <2>3, CountAdvance
<1>2. CASE HandlerThrows(r)
  <2> DEFINE s == [r EXCEPT !.pc = "failing"]
  <2>1. s \in Run /\ s.job = r.job /\ s.nth = r.nth /\ s.worker = r.worker /\ s # r
    BY <1>2, <1>r DEF HandlerThrows, Run, Pcs
  <2>2. /\ runs' = (runs \ {r}) \union {s}
        /\ UNCHANGED <<queueVars, phase, loop, active, claims>>
    BY <1>2 DEF HandlerThrows, Advance
  <2>3. QueueTypeOK'
    BY <1>r, <2>2 DEF QueueTypeOK, queueVars
  <2> HIDE DEF s
  <2> QED BY <2>1, <2>2, <2>3, CountAdvance
<1>3. CASE CompleteThrows(r)
  <2> DEFINE s == [r EXCEPT !.pc = "failing"]
  <2>1. s \in Run /\ s.job = r.job /\ s.nth = r.nth /\ s.worker = r.worker /\ s # r
    BY <1>3, <1>r DEF CompleteThrows, Run, Pcs
  <2>2. /\ runs' = (runs \ {r}) \union {s}
        /\ UNCHANGED <<phase, loop, active, claims>>
        /\ SetCompleted(r.job) \/ UNCHANGED queueVars
    BY <1>3 DEF CompleteThrows, Advance
  <2>3. QueueTypeOK'
    BY <1>r, <2>2, QueueTypes
  <2> HIDE DEF s
  <2> QED BY <2>1, <2>2, <2>3, CountAdvance
<1>4. CASE FailReads(r)
  <2> DEFINE s == [r EXCEPT !.pc = "recording", !.seen = attempts[r.job]]
  <2>1. s \in Run /\ s.job = r.job /\ s.nth = r.nth /\ s.worker = r.worker /\ s # r
    BY <1>4, <1>r DEF FailReads, Run, Pcs
  <2>2. /\ runs' = (runs \ {r}) \union {s}
        /\ UNCHANGED <<queueVars, phase, loop, active, claims>>
    BY <1>4 DEF FailReads
  <2>3. QueueTypeOK'
    BY <1>r, <2>2 DEF QueueTypeOK, queueVars
  <2> HIDE DEF s
  <2> QED BY <2>1, <2>2, <2>3, CountAdvance
<1>5. CASE Complete(r) \/ FailFindsNothing(r) \/ FailWrites(r) \/ FailThrows(r)
  <2>1. \/ SetCompleted(r.job)
        \/ SetFailed(r.job, r.seen + 1)
        \/ UNCHANGED queueVars
    BY <1>5 DEF Complete, FailFindsNothing, FailWrites, FailThrows
  <2>2. r.seen + 1 \in Nat
    BY <1>r
  <2>3. QueueTypeOK'
    BY <1>r, <2>1, <2>2, QueueTypes
  <2>4. Settles(r) /\ UNCHANGED <<phase, loop, claims>>
    BY <1>5 DEF Complete, FailFindsNothing, FailWrites, FailThrows
  <2> QED BY <2>3, <2>4, CountSettles
<1> QED BY <1>1, <1>2, <1>3, <1>4, <1>5 DEF RunStep

LEMMA CountLoopStep ==
  ASSUME CountInv, NEW w \in Workers, NEW t \in Types, LoopStep(w, t)
  PROVE  CountInv'
<1> USE DEF CountInv
<1>1. CASE Poll(w, t) \/ LoopEnds(w, t) \/ ClaimNothing(w, t)
  <2>1. /\ UNCHANGED <<queueVars, phase, active, runs, claims>>
        /\ \E x \in {"top", "claiming", "ended"} : loop' = [loop EXCEPT ![w][t] = x]
        /\ loop[w][t] # "ended"
        /\ phase[w] = "up" \/ loop[w][t] # "ended"
    BY <1>1 DEF Poll, LoopEnds, ClaimNothing
  <2>2. phase[w] # "down"
    BY <2>1 DEF DownIsIdle
  <2>3. TypeOK'
    BY <2>1 DEF TypeOK, QueueTypeOK, queueVars
  <2>4. Identified' /\ ActiveJobsExact' /\ IsFiniteSet(runs')
    BY <2>1 DEF Identified, ActiveJobsExact, RunsOf
  <2>5. DownIsIdle'
    BY <2>1, <2>2 DEF DownIsIdle, RunsOf, TypeOK
  <2> QED BY <2>3, <2>4, <2>5
<1>2. ASSUME NEW j \in Jobs, Claim(w, t, j)
      PROVE  CountInv'
  <2> DEFINE s == [job |-> j, nth |-> claims[j] + 1, worker |-> w,
                   pc |-> "handling", seen |-> 0]
  <2>1. /\ runs' = runs \union {s}
        /\ loop[w][t] = "claiming"
        /\ loop' = [loop EXCEPT ![w][t] = "top"]
        /\ active' = [active EXCEPT ![w] = @ + 1]
        /\ claims' = [claims EXCEPT ![j] = @ + 1]
        /\ phase' = phase
        /\ LockJob(j)
    BY <1>2 DEF Claim
  <2>2. /\ s \in Run
        /\ s.job = j /\ s.nth = claims[j] + 1 /\ s.worker = w
        /\ claims[j] \in Nat
    BY DEF TypeOK, Run, Pcs
  <2> HIDE DEF s
  <2>3. s \notin runs
    BY <2>2 DEF Identified
  <2>4. /\ IsFiniteSet(runs')
        /\ \A v : /\ Cardinality(RunsOf(v)) \in Nat
                  /\ v = w => Cardinality(RunsOf(v)') = Cardinality(RunsOf(v)) + 1
                  /\ v # w => RunsOf(v)' = RunsOf(v)
    BY <2>1, <2>2, <2>3, NewRun
  <2>5. QueueTypeOK'
    BY <2>1, QueueTypes DEF TypeOK
  <2>6. TypeOK'
    BY <2>1, <2>2, <2>5 DEF TypeOK
  <2>7. \A r \in runs : r.job \in Jobs /\ r.nth \in Nat /\ r.nth <= claims[r.job]
    BY DEF TypeOK, Run, Identified
  <2>8. \A r \in runs' : r.nth <= claims'[r.job]
    BY <2>1, <2>2, <2>7 DEF TypeOK
  <2>9. \A r \in runs : ~(r.job = s.job /\ r.nth = s.nth)
    BY <2>2, <2>7
  <2>10. Identified'
    BY <2>1, <2>8, <2>9 DEF Identified
  <2>11. ActiveJobsExact'
    BY <2>1, <2>4 DEF ActiveJobsExact, TypeOK
  <2>12. phase[w] # "down"
    BY <2>1 DEF DownIsIdle
  <2>13. DownIsIdle'
    BY <2>1, <2>4, <2>12 DEF DownIsIdle, TypeOK
  <2> QED BY <2>4, <2>6, <2>10, <2>11, <2>13
<1>3. ASSUME NEW j \in Jobs, ClaimReplyLost(w, t, j)
      PROVE  CountInv'
  <2>1. /\ LockJob(j)
        /\ loop[w][t] = "claiming"
        /\ loop' = [loop EXCEPT ![w][t] = "top"]
        /\ claims' = [claims EXCEPT ![j] = @ + 1]
        /\ UNCHANGED <<phase, active, runs>>
    BY <1>3 DEF ClaimReplyLost
  <2>2. QueueTypeOK'
    BY <2>1, QueueTypes DEF TypeOK
  <2>3. TypeOK'
    BY <2>1, <2>2 DEF TypeOK
  <2>4. \A r \in runs : r.job \in Jobs /\ r.nth \in Nat /\ r.nth <= claims[r.job]
    BY DEF TypeOK, Run, Identified
  <2>5. Identified'
    BY <2>1, <2>4 DEF Identified, TypeOK
  <2>6. ActiveJobsExact' /\ IsFiniteSet(runs')
    BY <2>1 DEF ActiveJobsExact, RunsOf
  <2>7. DownIsIdle'
    BY <2>1 DEF DownIsIdle, RunsOf, TypeOK
  <2> QED BY <2>3, <2>5, <2>6, <2>7
<1> QED BY <1>1, <1>2, <1>3 DEF LoopStep

LEMMA CountLifetime ==
  ASSUME CountInv, NEW w \in Workers, Lifetime(w)
  PROVE  CountInv'
<1> USE DEF CountInv
<1>1. CASE Start(w)
  <2>1. /\ phase[w] = "down"
        /\ phase' = [phase EXCEPT ![w] = "up"]
        /\ loop' = [loop EXCEPT ![w] = [t \in Types |-> "top"]]
        /\ UNCHANGED <<queueVars, active, runs, claims>>
    BY <1>1 DEF Start
  <2>2. TypeOK'
    BY <2>1 DEF TypeOK, QueueTypeOK, queueVars, Phases
  <2>3. DownIsIdle'
    BY <2>1 DEF DownIsIdle, RunsOf, TypeOK
  <2> QED BY <2>1, <2>2, <2>3 DEF Identified, ActiveJobsExact, RunsOf
<1>2. CASE Die(w)
  <2>1. /\ phase' = [phase EXCEPT ![w] = "down"]
        /\ loop' = [loop EXCEPT ![w] = [t \in Types |-> "ended"]]
        /\ active' = [active EXCEPT ![w] = 0]
        /\ runs' = runs \ RunsOf(w)
        /\ UNCHANGED <<queueVars, claims>>
    BY <1>2 DEF Die
  <2>2. TypeOK'
    BY <2>1 DEF TypeOK, QueueTypeOK, queueVars, Phases
  <2>3. IsFiniteSet(runs')
    BY <2>1, FS_Subset
  <2>4. Identified'
    BY <2>1 DEF Identified
  <2>5. /\ RunsOf(w)' = {}
        /\ \A v \in Workers : v # w => RunsOf(v)' = RunsOf(v)
    BY <2>1 DEF RunsOf
  <2>6. ActiveJobsExact'
    BY <2>1, <2>5, FS_EmptySet DEF ActiveJobsExact, TypeOK
  <2>7. DownIsIdle'
    BY <2>1, <2>5 DEF DownIsIdle, TypeOK
  <2> QED BY <2>2, <2>3, <2>4, <2>6, <2>7
<1>3. CASE StopRequested(w) \/ StopDrained(w) \/ StopReturns(w)
  <2>1. /\ phase[w] # "down"
        /\ \E p \in Phases \ {"down"} : phase' = [phase EXCEPT ![w] = p]
        /\ UNCHANGED <<queueVars, loop, active, runs, claims>>
    BY <1>3 DEF StopRequested, StopDrained, StopReturns, Phases
  <2>2. TypeOK'
    BY <2>1 DEF TypeOK, QueueTypeOK, queueVars
  <2>3. DownIsIdle'
    BY <2>1 DEF DownIsIdle, RunsOf, TypeOK
  <2> QED BY <2>1, <2>2, <2>3 DEF Identified, ActiveJobsExact, RunsOf
<1> QED BY <1>1, <1>2, <1>3 DEF Lifetime, Crash, Exit

LEMMA CountStutter ==
  ASSUME CountInv, UNCHANGED workerVars, QueueTypeOK'
  PROVE  CountInv'
BY DEF CountInv, workerVars, TypeOK, Identified, ActiveJobsExact, DownIsIdle, RunsOf

LEMMA CountNext == CountInv /\ [Next]_vars => CountInv'
<1> SUFFICES ASSUME CountInv, [Next]_vars PROVE CountInv'
  OBVIOUS
<1>1. QueueTypeOK
  BY DEF CountInv, TypeOK
<1>2. ASSUME NEW j \in Jobs, QueueStep(j), UNCHANGED workerVars PROVE CountInv'
  BY <1>1, <1>2, QueueTypes, CountStutter
<1>3. CASE UNCHANGED vars
  BY <1>1, <1>3, CountStutter DEF vars, queueVars, QueueTypeOK
<1> QED BY <1>2, <1>3, CountLifetime, CountLoopStep, CountRunStep DEF Next

\* The state is always well typed: in particular _activeJobs never goes
\* negative, whichever way executions end.
THEOREM TypeCorrect == Spec => []TypeOK
<1>1. CountInv => TypeOK
  BY DEF CountInv
<1> QED BY <1>1, CountInit, CountNext, PTL DEF Spec

\* _activeJobs is exactly the number of executions in progress, under every
\* fault: no path leaks or double-counts concurrency.
THEOREM ActiveJobsCounted == Spec => []ActiveJobsExact
<1>1. CountInv => ActiveJobsExact
  BY DEF CountInv
<1> QED BY <1>1, CountInit, CountNext, PTL DEF Spec

-----------------------------------------------------------------------------
(* LoopInv: the executions of a process and the claims its loops have in   *)
(* flight, together, stay within the limit plus one per further loop; once *)
(* stop() has seen no active job only those claims can still add to them.  *)

InFlight(w) == active[w] + Cardinality(Claiming(w))

LoopInv ==
  \A w \in Workers :
    /\ InFlight(w) < Concurrency + Cardinality(Types)
    /\ phase[w] \in {"joining", "stopped"} => InFlight(w) <= Cardinality(Types)
    /\ phase[w] = "stopped" => \A t \in Types : loop[w][t] = "ended"

LEMMA ClaimingBound ==
  ASSUME NEW w
  PROVE  /\ IsFiniteSet(Claiming(w))
         /\ Cardinality(Claiming(w)) \in Nat
         /\ Cardinality(Types) \in Nat
         /\ Cardinality(Claiming(w)) <= Cardinality(Types)
BY WorkerConstants, FS_Subset, FS_CardinalityType DEF Claiming

LEMMA LoopInit == Init => LoopInv
<1> SUFFICES ASSUME Init, NEW w \in Workers
             PROVE  /\ InFlight(w) < Concurrency + Cardinality(Types)
                    /\ phase[w] = "down"
  BY DEF LoopInv
<1>1. Claiming(w) = {} /\ active[w] = 0 /\ phase[w] = "down"
  BY DEF Init, Claiming
<1> QED BY <1>1, ClaimingBound, WorkerConstants, FS_EmptySet DEF InFlight

\* Only the loops of w change what is in flight in w.
LEMMA LoopElsewhere ==
  ASSUME LoopInv, TypeOK, TypeOK', NEW w \in Workers,
         phase'[w] = phase[w], loop'[w] = loop[w], active'[w] <= active[w]
  PROVE  /\ InFlight(w)' < Concurrency + Cardinality(Types)
         /\ phase'[w] \in {"joining", "stopped"} => InFlight(w)' <= Cardinality(Types)
         /\ phase'[w] = "stopped" => \A t \in Types : loop'[w][t] = "ended"
<1>1. Claiming(w)' = Claiming(w)
  BY DEF Claiming
<1>2. active[w] \in Nat /\ active'[w] \in Nat /\ Concurrency \in Nat
  BY WorkerConstants DEF TypeOK
<1>3. InFlight(w)' <= InFlight(w) /\ InFlight(w) \in Nat /\ InFlight(w)' \in Nat
  BY <1>1, <1>2, ClaimingBound DEF InFlight
<1> QED BY <1>2, <1>3, ClaimingBound DEF LoopInv

LEMMA LoopLoopStep ==
  ASSUME LoopInv, TypeOK, TypeOK', NEW w \in Workers, NEW t \in Types, LoopStep(w, t)
  PROVE  LoopInv'
<1>1. /\ \A v \in Workers : v # w =>
           phase'[v] = phase[v] /\ loop'[v] = loop[v] /\ active'[v] = active[v]
      /\ phase'[w] = phase[w]
  BY DEF LoopStep, Poll, LoopEnds, Claim, ClaimNothing, ClaimReplyLost, TypeOK
<1>2. active[w] \in Nat /\ active'[w] \in Nat /\ Concurrency \in Nat \ {0}
  BY WorkerConstants DEF TypeOK
<1>3. /\ InFlight(w)' < Concurrency + Cardinality(Types)
      /\ phase'[w] \in {"joining", "stopped"} => InFlight(w)' <= Cardinality(Types)
      /\ phase'[w] = "stopped" => \A u \in Types : loop'[w][u] = "ended"
  <2>1. CASE Poll(w, t)
    <3>1. active'[w] = active[w] /\ active[w] < Concurrency /\ phase'[w] = "up"
      BY <2>1 DEF Poll
    <3>2. Cardinality(Claiming(w)') \in Nat /\ Cardinality(Claiming(w)') <= Cardinality(Types)
      BY WorkerConstants, FS_Subset, FS_CardinalityType DEF Claiming
    <3> QED BY <1>2, <3>1, <3>2, ClaimingBound DEF InFlight
  <2>2. CASE LoopEnds(w, t)
    <3>1. Claiming(w)' = Claiming(w) /\ active' = active
      BY <2>2 DEF LoopEnds, Claiming, TypeOK
    <3>2. \A u \in Types : loop[w][u] = "ended" => loop'[w][u] = "ended"
      BY <2>2 DEF LoopEnds, TypeOK
    <3> QED BY <1>1, <3>1, <3>2 DEF InFlight, LoopInv
  <2>3. CASE ClaimNothing(w, t) \/ \E j \in Jobs : Claim(w, t, j) \/ ClaimReplyLost(w, t, j)
    <3>1. /\ loop[w][t] = "claiming"
          /\ loop' = [loop EXCEPT ![w][t] = "top"]
          /\ active'[w] <= active[w] + 1
      BY <1>2, <2>3 DEF ClaimNothing, Claim, ClaimReplyLost, TypeOK
    <3>2. Claiming(w)' = Claiming(w) \ {t} /\ t \in Claiming(w)
      BY <3>1 DEF Claiming, TypeOK
    <3>3. Cardinality(Claiming(w)') = Cardinality(Claiming(w)) - 1
      BY <3>2, ClaimingBound, FS_RemoveElement
    <3>4. InFlight(w)' <= InFlight(w) /\ InFlight(w) \in Nat /\ InFlight(w)' \in Int
      BY <1>2, <3>1, <3>3, ClaimingBound DEF InFlight
    <3>5. phase[w] # "stopped"
      BY <3>1 DEF LoopInv
    <3> QED BY <1>1, <1>2, <3>4, <3>5, ClaimingBound DEF LoopInv
  <2> QED BY <2>1, <2>2, <2>3 DEF LoopStep
<1>4. \A v \in Workers : v # w => active'[v] <= active[v]
  BY <1>1 DEF TypeOK
<1> QED BY <1>1, <1>3, <1>4, LoopElsewhere DEF LoopInv

LEMMA LoopLifetime ==
  ASSUME LoopInv, TypeOK, TypeOK', DownIsIdle, NEW w \in Workers, Lifetime(w)
  PROVE  LoopInv'
<1>1. \A v \in Workers : v # w =>
        phase'[v] = phase[v] /\ loop'[v] = loop[v] /\ active'[v] <= active[v]
  BY DEF Lifetime, Start, Crash, Exit, Die, StopRequested, StopDrained,
     StopReturns, TypeOK
<1>2. active[w] \in Nat /\ active'[w] \in Nat /\ Concurrency \in Nat \ {0}
  BY WorkerConstants DEF TypeOK
<1>3. /\ InFlight(w)' < Concurrency + Cardinality(Types)
      /\ phase'[w] \in {"joining", "stopped"} => InFlight(w)' <= Cardinality(Types)
      /\ phase'[w] = "stopped" => \A u \in Types : loop'[w][u] = "ended"
  <2>1. CASE Start(w)
    <3>1. phase'[w] = "up" /\ active' = active /\ Claiming(w)' = {} /\ Claiming(w) = {}
      BY <2>1 DEF Start, Claiming, TypeOK, DownIsIdle
    <3> QED BY <3>1 DEF InFlight, LoopInv
  <2>2. CASE Die(w)
    <3>1. phase'[w] = "down" /\ active'[w] = 0 /\ Claiming(w)' = {}
      BY <2>2 DEF Die, Claiming, TypeOK
    <3> QED BY <1>2, <3>1, FS_EmptySet, ClaimingBound DEF InFlight
  <2>3. CASE StopRequested(w) \/ StopDrained(w) \/ StopReturns(w)
    <3>1. Claiming(w)' = Claiming(w) /\ active' = active /\ loop' = loop
      BY <2>3 DEF StopRequested, StopDrained, StopReturns, Claiming
    <3>2. CASE StopRequested(w)
      BY <3>1, <3>2 DEF StopRequested, InFlight, LoopInv, TypeOK
    <3>3. CASE StopDrained(w)
      <4>1. active[w] = 0 /\ phase'[w] = "joining"
        BY <3>3 DEF StopDrained, TypeOK
      <4> QED BY <3>1, <4>1, ClaimingBound DEF InFlight, LoopInv
    <3>4. CASE StopReturns(w)
      BY <3>1, <3>4 DEF StopReturns, InFlight, LoopInv, TypeOK
    <3> QED BY <2>3, <3>2, <3>3, <3>4
  <2> QED BY <2>1, <2>2, <2>3 DEF Lifetime, Crash, Exit
<1> QED BY <1>1, <1>3, LoopElsewhere DEF LoopInv

LEMMA LoopNext == LoopInv /\ CountInv /\ CountInv' /\ [Next]_vars => LoopInv'
<1> SUFFICES ASSUME LoopInv, CountInv, CountInv', [Next]_vars PROVE LoopInv'
  OBVIOUS
<1>t. TypeOK /\ TypeOK' /\ DownIsIdle /\ ActiveJobsExact /\ ActiveJobsExact'
  BY DEF CountInv
<1>1. ASSUME UNCHANGED <<phase, loop>>,
             \A w \in Workers : active'[w] <= active[w]
      PROVE  LoopInv'
  BY <1>1, <1>t, LoopElsewhere DEF LoopInv
<1>2. CASE UNCHANGED vars \/ \E j \in Jobs : QueueStep(j) /\ UNCHANGED workerVars
  <2>1. UNCHANGED <<phase, loop, active>>
    BY <1>2 DEF vars, workerVars
  <2> QED BY <1>1, <1>t, <2>1 DEF TypeOK
<1>3. ASSUME NEW r \in runs, RunStep(r) PROVE LoopInv'
  <2>1. UNCHANGED <<phase, loop>>
    BY <1>3 DEF RunStep, HandlerReturns, HandlerThrows, Complete, CompleteThrows,
       FailReads, FailFindsNothing, FailWrites, FailThrows
  <2>2. UNCHANGED active \/ active' = [active EXCEPT ![r.worker] = @ - 1]
    BY <1>3 DEF RunStep, HandlerReturns, HandlerThrows, Complete, CompleteThrows,
       FailReads, FailFindsNothing, FailWrites, FailThrows, Settles
  <2>3. active \in [Workers -> Nat] /\ active' \in [Workers -> Nat]
    BY <1>t DEF TypeOK
  <2>4. \A w \in Workers : active'[w] <= active[w]
    BY ONLY <2>2, <2>3
  <2> QED BY <1>1, <2>1, <2>4
<1> QED BY <1>t, <1>2, <1>3, LoopLoopStep, LoopLifetime DEF Next

LEMMA CountAndLoop == Spec => [](CountInv /\ LoopInv)
<1>1. Init => CountInv /\ LoopInv
  BY CountInit, LoopInit
<1>2. CountInv /\ LoopInv /\ [Next]_vars => (CountInv /\ LoopInv)'
  BY CountNext, LoopNext
<1> QED BY <1>1, <1>2, PTL DEF Spec

\* The concurrency limit, checked before the await, is overshot by less than
\* the number of loops.
THEOREM OvershootBounded == Spec => []BoundedOvershoot
<1>1. CountInv /\ LoopInv => BoundedOvershoot
  <2> SUFFICES ASSUME CountInv, LoopInv, NEW w \in Workers
               PROVE  active[w] < Concurrency + Cardinality(Types)
    BY DEF BoundedOvershoot
  <2>1. active[w] \in Nat /\ Concurrency \in Nat
    BY WorkerConstants DEF CountInv, TypeOK
  <2> QED BY <2>1, ClaimingBound DEF LoopInv, InFlight
<1> QED BY <1>1, CountAndLoop, PTL

\* stop() cuts off at most one execution per loop.
THEOREM StopAbandonsLittle == Spec => []StopAbandonsOnePerLoop
<1>1. CountInv /\ LoopInv => StopAbandonsOnePerLoop
  <2> SUFFICES ASSUME CountInv, LoopInv, NEW w \in Workers,
                      phase[w] \in {"joining", "stopped"}
               PROVE  Cardinality(RunsOf(w)) <= Cardinality(Types)
    BY DEF StopAbandonsOnePerLoop
  <2>1. active[w] \in Nat /\ active[w] = Cardinality(RunsOf(w))
    BY DEF CountInv, TypeOK, ActiveJobsExact
  <2> QED BY <2>1, ClaimingBound DEF LoopInv, InFlight
<1> QED BY <1>1, CountAndLoop, PTL

-----------------------------------------------------------------------------
(* JobInv: without resetStalledJobs, a job is pending only when nobody     *)
(* runs it, so the claim hands it to a single execution; that execution is *)
(* the only one to write it, so what fail() read is still what is stored;  *)
(* and the attempts stored are exactly the executions that failed.         *)

RunHoldsJob(r) ==
  /\ status[r.job] \in {"processing", "completed", "deleted"}
  /\ status[r.job] = "completed" =>
       "dbError" \in Faults /\ r.pc \in {"failing", "recording"}
  /\ r.pc = "recording" => r.seen = attempts[r.job]

Budget(j) ==
  /\ status[j] = "absent" => claims[j] = 0 /\ attempts[j] = 0
  /\ status[j] = "pending" => claims[j] = attempts[j] /\ attempts[j] < MaxAttempts[j]
  /\ status[j] \in {"processing", "completed"} =>
       claims[j] = attempts[j] + 1 /\ claims[j] <= MaxAttempts[j]
  /\ status[j] = "failed" => claims[j] = MaxAttempts[j] /\ attempts[j] = MaxAttempts[j]
  /\ claims[j] <= MaxAttempts[j]

JobInv ==
  /\ SingleRunner
  /\ \A r \in runs : RunHoldsJob(r)
  /\ \A j \in Jobs : Budget(j)

LEMMA JobInit == Init => JobInv
<1> SUFFICES ASSUME Init PROVE JobInv
  OBVIOUS
<1>1. \A j \in Jobs : MaxAttempts[j] \in Nat \ {0}
  BY QueueConstants
<1>2. \A j \in Jobs : Budget(j)
  BY <1>1 DEF Init, QueueInit, Budget
<1> QED BY <1>2 DEF Init, JobInv, SingleRunner

\* Commands of callers, of the clock and of the TTL monitor.
LEMMA JobQueueStep ==
  ASSUME TypeOK, JobInv, "sweep" \notin Faults,
         NEW j \in Jobs, QueueStep(j), UNCHANGED workerVars
  PROVE  JobInv'
<1>1. /\ attempts' = attempts
      /\ \E x \in {"pending", "deleted", status[j]} : status' = [status EXCEPT ![j] = x]
      /\ status'[j] = "pending" => status[j] \in {"absent", "pending"}
  BY DEF QueueStep, Add, Cancel, Cleanup, ResetStalled, TtlExpire, BecomeDue,
     BecomeStale, TypeOK, QueueTypeOK
<1>2. runs' = runs /\ claims' = claims
  BY DEF workerVars
<1>3. \A k \in Jobs : k # j => status'[k] = status[k]
  BY <1>1 DEF TypeOK, QueueTypeOK
<1>4. MaxAttempts[j] \in Nat \ {0} /\ attempts[j] \in Nat /\ claims[j] \in Nat
  BY QueueConstants DEF TypeOK, QueueTypeOK
<1>5. status'[j] \in {"pending", "deleted", status[j]}
  BY <1>1 DEF TypeOK, QueueTypeOK
<1>6. Budget(j)'
  BY <1>1, <1>2, <1>4, <1>5 DEF JobInv, Budget
<1>7. \A k \in Jobs : Budget(k)'
  BY <1>1, <1>2, <1>3, <1>6 DEF JobInv, Budget
<1>8. ASSUME NEW r \in runs PROVE RunHoldsJob(r)'
  <2>1. r.job \in Jobs
    BY DEF TypeOK, Run
  <2>2. CASE r.job = j
    BY <1>1, <1>5, <2>2 DEF JobInv, RunHoldsJob
  <2>3. CASE r.job # j
    BY <1>1, <1>3, <2>1, <2>3 DEF JobInv, RunHoldsJob
  <2> QED BY <2>2, <2>3
<1> QED BY <1>2, <1>7, <1>8 DEF JobInv, SingleRunner

\* The claim of a job, whether or not its reply reaches the process.
LEMMA JobClaim ==
  ASSUME TypeOK, JobInv, NEW t \in Types, NEW j \in Jobs, j \in NextJobs(t),
         LockJob(j), claims' = [claims EXCEPT ![j] = @ + 1],
         \/ runs' = runs
         \/ \E s : s.job = j /\ s.pc = "handling" /\ runs' = runs \union {s}
  PROVE  JobInv'
<1>1. status[j] = "pending"
  BY DEF NextJobs, Claimable
<1>2. \A r \in runs : r.job \in Jobs /\ r.job # j
  BY <1>1 DEF JobInv, RunHoldsJob, TypeOK, Run
<1>3. /\ status' = [status EXCEPT ![j] = "processing"]
      /\ attempts' = attempts
  BY DEF LockJob
<1>4. MaxAttempts[j] \in Nat \ {0} /\ attempts[j] \in Nat /\ claims[j] \in Nat
  BY QueueConstants DEF TypeOK, QueueTypeOK
<1>5. status'[j] = "processing" /\ claims'[j] = claims[j] + 1
  BY <1>3 DEF TypeOK, QueueTypeOK
<1>6. Budget(j)'
  BY <1>1, <1>3, <1>4, <1>5 DEF JobInv, Budget
<1>7. \A k \in Jobs : Budget(k)'
  BY <1>3, <1>6 DEF JobInv, Budget, TypeOK, QueueTypeOK
<1>8. \A r \in runs : RunHoldsJob(r)'
  BY <1>2, <1>3 DEF JobInv, RunHoldsJob, TypeOK, QueueTypeOK
<1>9. \A r \in runs' : RunHoldsJob(r)'
  BY <1>5, <1>8 DEF RunHoldsJob
<1>10. SingleRunner'
  BY <1>2 DEF JobInv, SingleRunner
<1> QED BY <1>7, <1>9, <1>10 DEF JobInv

\* The steps of the execution that holds the job.
LEMMA JobRunStep ==
  ASSUME TypeOK, TypeOK', JobInv, NEW r \in runs, RunStep(r)
  PROVE  JobInv'
<1>1. /\ r.job \in Jobs
      /\ r.seen \in Nat
      /\ claims' = claims
      /\ RunHoldsJob(r)
      /\ Budget(r.job)
  BY DEF RunStep, HandlerReturns, HandlerThrows, Complete, CompleteThrows,
     FailReads, FailFindsNothing, FailWrites, FailThrows, JobInv, TypeOK, Run
<1>2. /\ attempts[r.job] \in Nat /\ claims[r.job] \in Nat
      /\ MaxAttempts[r.job] \in Nat \ {0}
  BY <1>1, QueueConstants DEF TypeOK, QueueTypeOK
<1>3. \A j \in Jobs : j # r.job => status'[j] = status[j] /\ attempts'[j] = attempts[j]
  BY <1>1 DEF RunStep, HandlerReturns, HandlerThrows, Complete, CompleteThrows,
     FailReads, FailFindsNothing, FailWrites, FailThrows, SetCompleted, SetFailed,
     queueVars, TypeOK, QueueTypeOK
<1>4. \A s \in runs : s # r => s.job \in Jobs /\ s.job # r.job
  BY DEF JobInv, SingleRunner, TypeOK, Run
<1>5. \A s \in runs : s # r => RunHoldsJob(s)'
  BY <1>3, <1>4 DEF JobInv, RunHoldsJob
\* What is left to show: the job of r, and r itself if it goes on.
<1>6. ASSUME Budget(r.job)',
             \/ runs' = runs \ {r}
             \/ \E s : s.job = r.job /\ RunHoldsJob(s)' /\ runs' = (runs \ {r}) \union {s}
      PROVE  JobInv'
  <2>1. \A j \in Jobs : Budget(j)'
    BY <1>1, <1>3, <1>6 DEF JobInv, Budget
  <2>2. \A s \in runs' : RunHoldsJob(s)'
    BY <1>5, <1>6
  <2>3. SingleRunner'
    BY <1>4, <1>6 DEF JobInv, SingleRunner
  <2> QED BY <2>1, <2>2, <2>3 DEF JobInv
<1>7. CASE HandlerReturns(r) \/ HandlerThrows(r) \/ FailReads(r)
  <2>1. UNCHANGED queueVars
    BY <1>7 DEF HandlerReturns, HandlerThrows, FailReads
  <2>2. Budget(r.job)'
    BY <1>1, <2>1 DEF Budget, queueVars
  <2>3. CASE HandlerReturns(r) \/ HandlerThrows(r)
    <3>1. PICK p \in {"completing", "failing"} : runs' = (runs \ {r}) \union {[r EXCEPT !.pc = p]}
      BY <2>3 DEF HandlerReturns, HandlerThrows, Advance
    <3> DEFINE s == [r EXCEPT !.pc = p]
    <3>2. s.job = r.job /\ s.pc = p /\ r.pc = "handling"
      BY <2>3 DEF HandlerReturns, HandlerThrows, TypeOK, Run
    <3>3. RunHoldsJob(s)'
      BY <1>1, <2>1, <3>2 DEF RunHoldsJob, queueVars
    <3> HIDE DEF s
    <3> QED BY <1>6, <2>2, <3>1, <3>2, <3>3 DEF s
  <2>4. CASE FailReads(r)
    <3>1. PICK s : s = [r EXCEPT !.pc = "recording", !.seen = attempts[r.job]]
      OBVIOUS
    <3>2. runs' = (runs \ {r}) \union {s} /\ r.pc = "failing"
      BY <2>4, <3>1 DEF FailReads
    <3>3. s.job = r.job /\ s.pc = "recording" /\ s.seen = attempts[r.job]
      BY <3>1 DEF TypeOK, Run
    <3>4. RunHoldsJob(s)'
      BY <1>1, <2>1, <3>2, <3>3 DEF RunHoldsJob, queueVars
    <3> QED BY <1>6, <2>2, <3>2, <3>3, <3>4
  <2> QED BY <1>7, <2>3, <2>4
<1>8. CASE FailFindsNothing(r) \/ FailThrows(r)
  <2>1. UNCHANGED queueVars /\ runs' = runs \ {r}
    BY <1>8 DEF FailFindsNothing, FailThrows, Settles
  <2>2. Budget(r.job)'
    BY <1>1, <2>1 DEF Budget, queueVars
  <2> QED BY <1>6, <2>1, <2>2
<1>9. ASSUME SetCompleted(r.job), r.pc = "completing"
      PROVE  /\ Budget(r.job)'
             /\ status'[r.job] \in {"completed", "deleted"}
             /\ attempts' = attempts
  <2>1. status[r.job] \in {"processing", "deleted"}
    BY <1>1, <1>9 DEF RunHoldsJob
  <2>2. /\ attempts' = attempts
        /\ status[r.job] = "processing" => status'[r.job] = "completed"
        /\ status[r.job] = "deleted" => status'[r.job] = "deleted"
    BY <1>1, <1>9 DEF SetCompleted, Stored, TypeOK, QueueTypeOK
  <2> QED BY <1>1, <2>1, <2>2 DEF Budget
<1>10. CASE Complete(r)
  BY <1>6, <1>9, <1>10 DEF Complete, Settles
<1>11. CASE CompleteThrows(r)
  <2> DEFINE s == [r EXCEPT !.pc = "failing"]
  <2>1. runs' = (runs \ {r}) \union {s} /\ r.pc = "completing" /\ "dbError" \in Faults
    BY <1>11 DEF CompleteThrows, Advance
  <2>2. s.job = r.job /\ s.pc = "failing"
    BY DEF TypeOK, Run
  <2> HIDE DEF s
  <2>3. CASE UNCHANGED queueVars
    <3>1. Budget(r.job)' /\ RunHoldsJob(s)'
      BY <1>1, <2>1, <2>2, <2>3 DEF Budget, RunHoldsJob, queueVars
    <3> QED BY <1>6, <2>1, <2>2, <3>1
  <2>4. CASE SetCompleted(r.job)
    <3>1. Budget(r.job)' /\ RunHoldsJob(s)'
      BY <1>9, <2>1, <2>2, <2>4 DEF RunHoldsJob
    <3> QED BY <1>6, <2>1, <2>2, <3>1
  <2> QED BY <1>11, <2>3, <2>4 DEF CompleteThrows
<1>12. CASE FailWrites(r)
  <2>1. SetFailed(r.job, r.seen + 1) /\ runs' = runs \ {r} /\ r.pc = "recording"
    BY <1>12 DEF FailWrites, Settles
  <2>2. r.seen = attempts[r.job]
    BY <1>1, <2>1 DEF RunHoldsJob
  <2>3. CASE ~Stored(r.job)
    BY <1>1, <1>6, <2>1, <2>3 DEF SetFailed, Budget, queueVars
  <2>4. CASE Stored(r.job)
    <3>1. claims[r.job] = attempts[r.job] + 1 /\ claims[r.job] <= MaxAttempts[r.job]
      BY <1>1, <2>4 DEF RunHoldsJob, Budget, Stored
    <3>2. /\ attempts'[r.job] = attempts[r.job] + 1
          /\ status'[r.job] = IF attempts[r.job] + 1 >= MaxAttempts[r.job]
                              THEN "failed" ELSE "pending"
      BY <1>1, <2>1, <2>2, <2>4 DEF SetFailed, Exhausted, TypeOK, QueueTypeOK
    <3>3. Budget(r.job)'
      BY <1>1, <1>2, <3>1, <3>2 DEF Budget
    <3> QED BY <1>6, <2>1, <3>3
  <2> QED BY <2>3, <2>4
<1> QED BY <1>7, <1>8, <1>10, <1>11, <1>12 DEF RunStep

\* Starting, stopping and dying only ever removes executions.
LEMMA JobFewerRuns ==
  ASSUME JobInv, runs' \subseteq runs, UNCHANGED <<queueVars, claims>>
  PROVE  JobInv'
BY DEF JobInv, SingleRunner, RunHoldsJob, Budget, queueVars

LEMMA JobNext ==
  ASSUME "sweep" \notin Faults, CountInv, CountInv', JobInv, [Next]_vars
  PROVE  JobInv'
<1>t. TypeOK /\ TypeOK'
  BY DEF CountInv
<1>1. CASE UNCHANGED vars
  BY <1>1, JobFewerRuns DEF vars, workerVars
<1>2. ASSUME NEW j \in Jobs, QueueStep(j), UNCHANGED workerVars PROVE JobInv'
  BY <1>t, <1>2, JobQueueStep
<1>3. ASSUME NEW w \in Workers, Lifetime(w) PROVE JobInv'
  <2>1. runs' \subseteq runs /\ UNCHANGED <<queueVars, claims>>
    BY <1>3 DEF Lifetime, Start, Crash, Exit, Die, StopRequested, StopDrained, StopReturns
  <2> QED BY <2>1, JobFewerRuns
<1>4. ASSUME NEW w \in Workers, NEW t \in Types, LoopStep(w, t) PROVE JobInv'
  <2>1. CASE Poll(w, t) \/ LoopEnds(w, t) \/ ClaimNothing(w, t)
    BY <2>1, JobFewerRuns DEF Poll, LoopEnds, ClaimNothing
  <2>2. ASSUME NEW j \in Jobs, Claim(w, t, j) PROVE JobInv'
    <3> DEFINE s == [job |-> j, nth |-> claims[j] + 1, worker |-> w,
                     pc |-> "handling", seen |-> 0]
    <3>1. s.job = j /\ s.pc = "handling" /\ runs' = runs \union {s}
      BY <2>2 DEF Claim
    <3> HIDE DEF s
    <3> QED BY <1>t, <2>2, <3>1, JobClaim DEF Claim
  <2>3. ASSUME NEW j \in Jobs, ClaimReplyLost(w, t, j) PROVE JobInv'
    BY <1>t, <2>3, JobClaim DEF ClaimReplyLost
  <2> QED BY <1>4, <2>1, <2>2, <2>3 DEF LoopStep
<1> QED BY <1>t, <1>1, <1>2, <1>3, <1>4, JobRunStep DEF Next

LEMMA JobAlways ==
  ASSUME "sweep" \notin Faults
  PROVE  Spec => [](CountInv /\ JobInv)
<1>1. Init => CountInv /\ JobInv
  BY CountInit, JobInit
<1>2. CountInv /\ JobInv /\ [Next]_vars => (CountInv /\ JobInv)'
  BY CountNext, JobNext
<1> QED BY <1>1, <1>2, PTL DEF Spec

\* As long as nothing calls resetStalledJobs, no job is executed twice at the
\* same time, for any number of processes, crashes, errors and expiries.
THEOREM OneRunnerPerJob ==
  ASSUME "sweep" \notin Faults
  PROVE  Spec => []SingleRunner
<1>1. JobInv => SingleRunner
  BY DEF JobInv
<1> QED BY <1>1, JobAlways, PTL

\* ... and no job is executed more than maxAttempts times, although fail()
\* increments the attempts in two commands.
THEOREM AttemptsBounded ==
  ASSUME "sweep" \notin Faults
  PROVE  Spec => []RunsWithinBudget
<1>1. JobInv => RunsWithinBudget
  BY DEF JobInv, Budget, RunsWithinBudget
<1> QED BY <1>1, JobAlways, PTL

\* A job is given up only when its attempts are used up, and all of them were
\* executions.
THEOREM GivenUpWhenExhausted ==
  ASSUME "sweep" \notin Faults
  PROVE  Spec => []FailedMeansExhausted
<1>1. JobInv => FailedMeansExhausted
  BY DEF JobInv, Budget, FailedMeansExhausted
<1> QED BY <1>1, JobAlways, PTL

-----------------------------------------------------------------------------
(* Final outcomes and the contract: here no command fails, because a       *)
(* complete() that was applied but reported an error is followed by fail().*)

\* Which status a job can take in a step, and from which.
StatusMoves ==
  \A j \in Jobs : status'[j] # status[j] =>
    \/ status[j] = "absent" /\ status'[j] = "pending"
    \/ status[j] = "pending" /\ status'[j] \in {"processing", "deleted"}
    \/ status[j] = "processing" /\ status'[j] \in {"completed", "pending", "failed"}
    \/ status'[j] = "deleted"

LEMMA MovesNext ==
  ASSUME "sweep" \notin Faults, "dbError" \notin Faults, TypeOK, JobInv, [Next]_vars
  PROVE  StatusMoves
<1> USE DEF StatusMoves
<1>1. CASE UNCHANGED status
  BY <1>1
<1>2. ASSUME NEW j \in Jobs, QueueStep(j) PROVE StatusMoves
  BY <1>2 DEF QueueStep, Add, Cancel, Cleanup, ResetStalled, TtlExpire,
     BecomeDue, BecomeStale, TypeOK, QueueTypeOK
<1>3. ASSUME NEW w \in Workers, Lifetime(w) PROVE UNCHANGED status
  BY <1>3 DEF Lifetime, Start, Crash, Exit, Die, StopRequested, StopDrained,
     StopReturns, queueVars
<1>4. ASSUME NEW w \in Workers, NEW t \in Types, LoopStep(w, t) PROVE StatusMoves
  <2>1. CASE Poll(w, t) \/ LoopEnds(w, t) \/ ClaimNothing(w, t)
    BY <2>1 DEF Poll, LoopEnds, ClaimNothing, queueVars
  <2>2. ASSUME NEW j \in Jobs, Claim(w, t, j) \/ ClaimReplyLost(w, t, j)
        PROVE  StatusMoves
    BY <2>2 DEF Claim, ClaimReplyLost, NextJobs, Claimable, LockJob, TypeOK, QueueTypeOK
  <2> QED BY <1>4, <2>1, <2>2 DEF LoopStep
<1>5. ASSUME NEW r \in runs, RunStep(r) PROVE StatusMoves
  <2>1. r.job \in Jobs /\ status[r.job] \in {"processing", "deleted"}
    BY DEF JobInv, RunHoldsJob, TypeOK, Run
  <2>2. CASE Complete(r) \/ CompleteThrows(r)
    BY <2>1, <2>2 DEF Complete, CompleteThrows, SetCompleted, Stored, TypeOK, QueueTypeOK
  <2>3. CASE FailWrites(r)
    BY <2>1, <2>3 DEF FailWrites, SetFailed, Stored, queueVars, TypeOK, QueueTypeOK
  <2>4. CASE ~(Complete(r) \/ CompleteThrows(r) \/ FailWrites(r))
    BY <1>5, <2>4 DEF RunStep, HandlerReturns, HandlerThrows, FailReads,
       FailFindsNothing, FailThrows, queueVars
  <2> QED BY <2>2, <2>3, <2>4
<1> QED BY <1>1, <1>2, <1>3, <1>4, <1>5 DEF Next, vars, queueVars

\* A recorded outcome is never taken back.
THEOREM OutcomesFinal ==
  ASSUME "sweep" \notin Faults, "dbError" \notin Faults
  PROVE  Spec => OutcomeIsFinal
<1>1. CountInv /\ JobInv /\ [Next]_vars =>
        [\A j \in Jobs : status[j] \in {"completed", "failed"} =>
           status'[j] \in {status[j], "deleted"}]_vars
  <2> SUFFICES ASSUME CountInv, JobInv, [Next]_vars, NEW j \in Jobs,
                      status[j] \in {"completed", "failed"}
               PROVE  status'[j] \in {status[j], "deleted"}
    OBVIOUS
  <2>1. StatusMoves
    BY MovesNext DEF CountInv
  <2> QED BY <2>1 DEF StatusMoves
<1> QED BY <1>1, JobAlways, PTL DEF Spec, OutcomeIsFinal

-----------------------------------------------------------------------------
(* Refinement of JobContract. *)

\* A job's state in the contract depends on its status and on whether anybody
\* runs it.
Held(j) == \E r \in runs : r.job = j

LEMMA JobStateCases ==
  ASSUME NEW j \in Jobs, QueueTypeOK
  PROVE  /\ status[j] = "absent" <=> JobState(j) = "unknown"
         /\ status[j] = "pending" <=> JobState(j) = "waiting"
         /\ status[j] = "processing" /\ Held(j) <=> JobState(j) = "running"
         /\ status[j] = "processing" /\ ~Held(j) <=> JobState(j) = "stranded"
         /\ status[j] = "completed" <=> JobState(j) = "completed"
         /\ status[j] = "failed" <=> JobState(j) = "failed"
         /\ status[j] = "deleted" <=> JobState(j) = "gone"
BY DEF JobState, Stranded, Held, QueueTypeOK, Statuses

LEMMA JobStateSame ==
  ASSUME NEW j \in Jobs, QueueTypeOK, QueueTypeOK', status'[j] = status[j],
         status[j] = "processing" => (Held(j)' <=> Held(j))
  PROVE  JobState(j)' = JobState(j)
BY DEF JobState, Stranded, Held, QueueTypeOK, Statuses

LEMMA ContractStutter ==
  ASSUME \A j \in Jobs : JobState(j)' = JobState(j), attempts' = attempts
  PROVE  UNCHANGED <<ContractState, attempts>>
BY DEF ContractState

LEMMA ContractMoves ==
  ASSUME NEW j \in Jobs, \A k \in Jobs : k # j => JobState(k)' = JobState(k)
  PROVE  /\ ContractState' = [ContractState EXCEPT ![j] = JobState(j)']
         /\ ContractState[j] = JobState(j)
BY DEF ContractState

LEMMA ContractInit == Init => Contract!Init
<1> SUFFICES ASSUME Init PROVE Contract!Init
  OBVIOUS
<1>1. \A j \in Jobs : JobState(j) = "unknown"
  BY DEF Init, QueueInit, JobState
<1> QED BY <1>1 DEF Init, QueueInit, Contract!Init, ContractState

LEMMA ContractQueueStep ==
  ASSUME TypeOK, TypeOK', "sweep" \notin Faults,
         NEW j \in Jobs, QueueStep(j), UNCHANGED workerVars
  PROVE  [Contract!Next]_<<ContractState, attempts>>
<1> USE DEF TypeOK
<1>1. /\ attempts' = attempts
      /\ \A k \in Jobs : k # j => status'[k] = status[k]
      /\ \A k \in Jobs : Held(k)' <=> Held(k)
  BY DEF QueueStep, Add, Cancel, Cleanup, ResetStalled, TtlExpire, BecomeDue,
     BecomeStale, QueueTypeOK, workerVars, Held
<1>2. \A k \in Jobs : k # j => JobState(k)' = JobState(k)
  BY <1>1, JobStateSame
<1>3. /\ ContractState' = [ContractState EXCEPT ![j] = JobState(j)']
      /\ ContractState[j] = JobState(j)
  BY <1>2, ContractMoves
<1>4. CASE Add(j)
  <2>1. JobState(j) = "unknown" /\ JobState(j)' = "waiting"
    BY <1>4, JobStateCases DEF Add, QueueTypeOK, JobState
  <2> QED BY <1>1, <1>3, <2>1 DEF Contract!Next, Contract!Submit, Contract!Becomes
<1>5. CASE Cancel(j)
  <2>1. JobState(j) = "waiting" /\ JobState(j)' = "gone"
    BY <1>5, JobStateCases DEF Cancel, QueueTypeOK, JobState
  <2> QED BY <1>1, <1>3, <2>1 DEF Contract!Next, Contract!Withdraw, Contract!Becomes
<1>6. CASE Cleanup(j) \/ TtlExpire(j)
  <2>1. JobState(j) \notin {"unknown", "gone"}
    BY <1>6, JobStateCases DEF Cleanup, TtlExpire, Stored
  <2>2. JobState(j)' = "gone"
    BY <1>6 DEF Cleanup, TtlExpire, QueueTypeOK, JobState
  <2> QED BY <1>1, <1>3, <2>1, <2>2 DEF Contract!Next, Contract!Forget, Contract!Becomes
<1>7. CASE BecomeDue(j) \/ BecomeStale(j)
  <2>1. \A k \in Jobs : JobState(k)' = JobState(k)
    BY <1>1, <1>7, JobStateSame DEF BecomeDue, BecomeStale
  <2> QED BY <1>1, <2>1, ContractStutter
<1> QED BY <1>4, <1>5, <1>6, <1>7 DEF QueueStep, ResetStalled

LEMMA ContractLifetime ==
  ASSUME TypeOK, TypeOK', NEW w \in Workers, Lifetime(w)
  PROVE  [Contract!Next]_<<ContractState, attempts>>
<1> USE DEF TypeOK
<1>1. status' = status /\ attempts' = attempts /\ runs' \subseteq runs
  BY DEF Lifetime, Start, Crash, Exit, Die, StopRequested, StopDrained,
     StopReturns, queueVars
<1> DEFINE S == {j \in Jobs : JobState(j) = "running" /\ ~Held(j)'}
<1>2. \A j \in Jobs : JobState(j)' = IF j \in S THEN "stranded" ELSE JobState(j)
  <2> TAKE j \in Jobs
  <2>1. Held(j)' => Held(j)
    BY <1>1 DEF Held
  <2>2. status'[j] = "processing" /\ ~Held(j)' => JobState(j)' = "stranded"
    BY DEF JobState, Stranded, Held
  <2>3. CASE j \in S
    BY <1>1, <2>2, <2>3, JobStateCases
  <2>4. CASE j \notin S
    BY <1>1, <2>1, <2>4, JobStateCases, JobStateSame
  <2> QED BY <2>3, <2>4
<1>3. ContractState' = [j \in Jobs |-> IF j \in S THEN "stranded" ELSE ContractState[j]]
  BY <1>2 DEF ContractState
<1>4. S \in SUBSET {j \in Jobs : ContractState[j] = "running"}
  BY DEF ContractState
<1> HIDE DEF S
<1>5. Contract!Strand
  BY <1>1, <1>3, <1>4 DEF Contract!Strand
<1> QED BY <1>5 DEF Contract!Next

LEMMA ContractLoopStep ==
  ASSUME TypeOK, TypeOK', "dbError" \notin Faults,
         NEW w \in Workers, NEW t \in Types, LoopStep(w, t)
  PROVE  [Contract!Next]_<<ContractState, attempts>>
<1> USE DEF TypeOK
<1>1. CASE Poll(w, t) \/ LoopEnds(w, t) \/ ClaimNothing(w, t)
  <2>1. UNCHANGED <<queueVars, runs>>
    BY <1>1 DEF Poll, LoopEnds, ClaimNothing
  <2>2. \A k \in Jobs : JobState(k)' = JobState(k)
    BY <2>1, JobStateSame DEF queueVars, Held
  <2> QED BY <2>1, <2>2, ContractStutter DEF queueVars
<1>2. ASSUME NEW j \in Jobs, Claim(w, t, j)
      PROVE  [Contract!Next]_<<ContractState, attempts>>
  <2>1. /\ status[j] = "pending"
        /\ status' = [status EXCEPT ![j] = "processing"]
        /\ attempts' = attempts
    BY <1>2 DEF Claim, NextJobs, Claimable, LockJob
  <2>2. PICK s : s.job = j /\ runs' = runs \union {s}
    BY <1>2 DEF Claim
  <2>3. \A k \in Jobs : k # j => JobState(k)' = JobState(k)
    BY <2>1, <2>2, JobStateSame DEF Held, QueueTypeOK
  <2>4. JobState(j) = "waiting"
    BY <2>1, JobStateCases
  <2>5. status'[j] = "processing" /\ ~Stranded(j)'
    BY <2>1, <2>2 DEF Stranded, QueueTypeOK
  <2>6. JobState(j)' = "running"
    BY <2>5 DEF JobState
  <2> QED BY <2>1, <2>3, <2>4, <2>6, ContractMoves
    DEF Contract!Next, Contract!Execute, Contract!Becomes
<1> QED BY <1>1, <1>2 DEF LoopStep, ClaimReplyLost

LEMMA ContractRunStep ==
  ASSUME TypeOK, TypeOK', JobInv, "dbError" \notin Faults, NEW r \in runs, RunStep(r)
  PROVE  [Contract!Next]_<<ContractState, attempts>>
<1> USE DEF TypeOK
<1>1. /\ r.job \in Jobs
      /\ status[r.job] \in {"processing", "deleted"}
      /\ r.pc = "recording" => r.seen = attempts[r.job]
      /\ Held(r.job)
  BY DEF JobInv, RunHoldsJob, Held, Run
<1>2. \A s \in runs : s # r => s.job # r.job
  BY DEF JobInv, SingleRunner
<1>3. \/ runs' = runs \ {r}
      \/ \E s : s.job = r.job /\ runs' = (runs \ {r}) \union {s}
  <2>1. \A p : [r EXCEPT !.pc = p].job = r.job
    BY DEF Run
  <2>2. [r EXCEPT !.pc = "recording", !.seen = attempts[r.job]].job = r.job
    BY DEF Run
  <2> QED BY <2>1, <2>2 DEF RunStep, HandlerReturns, HandlerThrows, Complete,
     CompleteThrows, FailReads, FailFindsNothing, FailWrites, FailThrows,
     Settles, Advance
<1>4. \A k \in Jobs : k # r.job => (Held(k)' <=> Held(k))
  BY <1>3 DEF Held
<1>5. \A k \in Jobs : k # r.job => status'[k] = status[k]
  <2>1. \/ status' = status
        \/ \E v : status' = [status EXCEPT ![r.job] = v]
    BY DEF RunStep, HandlerReturns, HandlerThrows, Complete, CompleteThrows,
       FailReads, FailFindsNothing, FailWrites, FailThrows, SetCompleted, SetFailed,
       queueVars
  <2>2. \E T : status \in [Jobs -> T]
    BY DEF QueueTypeOK
  <2> QED BY <2>1, <2>2
<1>6. \A k \in Jobs : k # r.job => JobState(k)' = JobState(k)
  BY <1>4, <1>5, JobStateSame
<1>7. /\ ContractState' = [ContractState EXCEPT ![r.job] = JobState(r.job)']
      /\ ContractState[r.job] = JobState(r.job)
  BY <1>1, <1>6, ContractMoves
<1>8. CASE status[r.job] = "deleted"
  <2>1. status' = status /\ attempts' = attempts
    BY <1>8 DEF RunStep, HandlerReturns, HandlerThrows, Complete, CompleteThrows,
       FailReads, FailFindsNothing, FailWrites, FailThrows, SetCompleted,
       SetFailed, Stored, queueVars
  <2>2. JobState(r.job)' = JobState(r.job)
    BY <1>1, <1>8, <2>1, JobStateSame
  <2> QED BY <1>6, <2>1, <2>2, ContractStutter
<1>9. CASE status[r.job] = "processing"
  <2>1. JobState(r.job) = "running"
    BY <1>1, <1>9, JobStateCases
  <2>2. CASE HandlerReturns(r) \/ HandlerThrows(r) \/ FailReads(r)
    <3>1. UNCHANGED queueVars
      BY <2>2 DEF HandlerReturns, HandlerThrows, FailReads
    <3>2. \E s \in runs' : s.job = r.job
      <4>1. \A p : [r EXCEPT !.pc = p].job = r.job
        BY DEF Run
      <4>2. [r EXCEPT !.pc = "recording", !.seen = attempts[r.job]].job = r.job
        BY DEF Run
      <4> QED BY <2>2, <4>1, <4>2 DEF HandlerReturns, HandlerThrows, FailReads, Advance
    <3>3. JobState(r.job)' = JobState(r.job)
      BY <1>1, <3>1, <3>2, JobStateSame DEF Held, queueVars
    <3> QED BY <1>6, <3>1, <3>3, ContractStutter DEF queueVars
  <2>3. CASE Complete(r)
    <3>1. status'[r.job] = "completed" /\ attempts' = attempts
      BY <1>1, <1>9, <2>3 DEF Complete, SetCompleted, Stored, QueueTypeOK
    <3>2. JobState(r.job)' = "completed"
      BY <3>1 DEF JobState
    <3> QED BY <1>1, <1>7, <2>1, <3>1, <3>2
      DEF Contract!Next, Contract!Succeed, Contract!Becomes
  <2>4. CASE FailWrites(r)
    <3> DEFINE n == attempts[r.job] + 1
    <3>1. /\ attempts' = [attempts EXCEPT ![r.job] = n]
          /\ status'[r.job] = IF n < MaxAttempts[r.job] THEN "pending" ELSE "failed"
      BY <1>1, <1>9, <2>4, QueueConstants
      DEF FailWrites, SetFailed, Exhausted, Stored, QueueTypeOK
    <3>2. JobState(r.job)' = IF n < MaxAttempts[r.job] THEN "waiting" ELSE "failed"
      BY <3>1 DEF JobState
    <3> QED BY <1>1, <1>7, <2>1, <3>1, <3>2 DEF Contract!Next, Contract!FailOnce
  <2> QED BY <1>9, <2>2, <2>3, <2>4
    DEF RunStep, CompleteThrows, FailFindsNothing, FailThrows, Stored
<1> QED BY <1>1, <1>8, <1>9

\* Crashes, exits, cancellations and expiry included, callers see each job go
\* through the atomic steps of JobContract and no others.
THEOREM ContractKept ==
  ASSUME "sweep" \notin Faults, "dbError" \notin Faults
  PROVE  Spec => ImplementsContract
<1>1. CountInv /\ CountInv' /\ JobInv /\ [Next]_vars =>
        [Contract!Next]_<<ContractState, attempts>>
  <2> SUFFICES ASSUME CountInv, CountInv', JobInv, [Next]_vars
               PROVE  [Contract!Next]_<<ContractState, attempts>>
    OBVIOUS
  <2>t. TypeOK /\ TypeOK'
    BY DEF CountInv
  <2>1. CASE UNCHANGED vars
    <3>1. \A j \in Jobs : JobState(j)' = JobState(j)
      BY <2>t, <2>1, JobStateSame DEF TypeOK, vars, queueVars, workerVars, Held
    <3> QED BY <2>1, <3>1, ContractStutter DEF vars, queueVars
  <2> QED BY <2>t, <2>1, ContractQueueStep, ContractLifetime, ContractLoopStep,
             ContractRunStep DEF Next
<1> QED BY <1>1, ContractInit, JobAlways, PTL
  DEF Spec, ImplementsContract, Contract!Spec
=============================================================================
