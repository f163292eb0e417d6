------------------------- MODULE GuidanceLadderProofs -------------------------
(***************************************************************************)
(* Theorems about GuidanceLadder.  First the refinement: an evaluation is  *)
(* an execution of NotificationWorker, so all that is proved there holds   *)
(* here.  On top of its CountInv and JobInv the invariant of the ladder    *)
(* says, of each job, how far its latest evaluation is and what it has     *)
(* ruled out by then (LadderInv), and how the tally of a day relates to    *)
(* the count that is found for it and to the reminders in flight (CapInv). *)
(***************************************************************************)
EXTENDS GuidanceLadder, NotificationWorkerProofs

\* The evaluations' steps, seen from the worker.
LEMMA EvaluationIsWorkerStep ==
  ASSUME NEW r \in runs, EvaluationStep(r)
  PROVE  [Next]_vars
<1>1. CASE EvaluationReturns(r) \/ EvaluationThrows(r) \/ SendThrows(r)
  BY <1>1 DEF EvaluationReturns, EvaluationThrows, SendThrows, Next, RunStep
<1>2. CASE UNCHANGED vars
  BY <1>2
<1> QED BY <1>1, <1>2 DEF EvaluationStep, ReadStatus, ResolveStep, CheckHour, ReadCap,
       Send, RecordSend, MarkSent

LEMMA LadderIsWorkerStep == [LadderNext]_allVars => [Next]_vars
<1> SUFFICES ASSUME [LadderNext]_allVars PROVE [Next]_vars
  OBVIOUS
<1>1. CASE WorkerStep
  BY <1>1 DEF WorkerStep, QueueSteps, LoopSteps, Next, QueueStep, LoopStep
<1>2. CASE Tick \/ UNCHANGED allVars
  BY <1>2 DEF Tick, allVars
<1>5. ASSUME NEW a \in Assignments, Submit(a) PROVE [Next]_vars
  BY <1>5 DEF Submit
<1>6. ASSUME NEW S \in SUBSET runs, RecordsRace(S) PROVE [Next]_vars
  BY <1>6 DEF RecordsRace
<1>3. ASSUME NEW j \in Jobs, Schedule(j) PROVE [Next]_vars
  BY <1>3 DEF Schedule, Next, QueueStep
<1>4. ASSUME NEW w \in Workers, NEW t \in Types, NEW j \in Jobs, ClaimGuidance(w, t, j)
      PROVE  [Next]_vars
  BY <1>4 DEF ClaimGuidance, Next, LoopStep
<1> QED BY <1>1, <1>2, <1>3, <1>4, <1>5, <1>6, EvaluationIsWorkerStep DEF LadderNext

\* Evaluations are executions of NotificationWorker.
THEOREM LadderImplementsWorker == LadderSpec => ImplementsWorker
<1>1. LadderInit => Init
  BY DEF LadderInit
<1> QED BY <1>1, LadderIsWorkerStep, PTL DEF LadderSpec, Spec, ImplementsWorker

LEMMA WorkerInvariants == LadderSpec => [](CountInv /\ JobInv)
BY LadderImplementsWorker, JobAlways, LadderConstants, PTL DEF ImplementsWorker

-----------------------------------------------------------------------------
(* The invariant of the ladder.                                            *)

\* What the record x of an evaluation of j has ruled out, given the log lg.
EvalFits(j, x, lg) ==
  /\ x.late => AssignmentOf(j) \in submitted
  /\ \A s \in x.known : <<AssignmentOf(j), s>> \in lg
  /\ x.pc \notin {"status", "done"} => ~x.late
  /\ x.pc \in {"hour", "cap", "send", "record", "mark"} =>
       x.step \in Steps /\ x.step \notin x.known
  /\ x.pc \in {"status", "step", "hour", "cap"} => x.reminded = {}
  /\ x.reminded # {} => ~x.late /\ x.step \notin x.known
  /\ x.reminded # {} /\ x.pc = "done" => <<AssignmentOf(j), x.step>> \in lg

EvalOK(j) ==
  /\ EvalFits(j, evals[j], logged)
  /\ status[j] = "completed" => evals[j].nth = claims[j] /\ evals[j].pc = "done"
  /\ \A r \in runs : r.job = j => evals[j].nth = r.nth
  /\ \A r \in runs : r.job = j /\ r.pc = "completing" => evals[j].pc = "done"

LatestRuns == \A r \in runs : r.nth = claims[r.job]

LadderInv ==
  /\ LadderTypeOK
  /\ LatestRuns
  /\ \A j \in Jobs : EvalOK(j)

LEMMA FreshFits ==
  ASSUME NEW j \in Jobs, NEW n \in Nat, NEW q \in QuietWindows
  PROVE  /\ Fresh(j, n, q) \in Eval
         /\ Fresh(j, n, q).nth = n
         /\ EvalFits(j, Fresh(j, n, q), logged)
<1> DEFINE late == AssignmentOf(j) \in submitted
           known == {s \in Steps : <<AssignmentOf(j), s>> \in logged}
<1>1. late \in BOOLEAN /\ known \subseteq Steps
  OBVIOUS
<1>2. Fresh(j, n, q) =
        [nth |-> n, pc |-> "status", step |-> "none", aud |-> "student",
         quiet |-> q, sentAny |-> FALSE, reminded |-> {}, late |-> late, known |-> known]
  BY DEF Fresh
<1>3. Fresh(j, n, q) \in Eval
  <2> HIDE DEF late, known
  <2> QED BY <1>1, <1>2 DEF Eval
<1>4. Fresh(j, n, q).late = late /\ Fresh(j, n, q).known = known
  BY <1>2
<1>5. /\ Fresh(j, n, q).nth = n /\ Fresh(j, n, q).pc = "status"
      /\ Fresh(j, n, q).reminded = {}
  BY <1>2
<1> QED BY <1>3, <1>4, <1>5 DEF EvalFits

LEMMA LadderInvInit == LadderInit => LadderInv
<1> SUFFICES ASSUME LadderInit PROVE LadderInv
  OBVIOUS
<1>1. CountInv /\ runs = {} /\ status = [j \in Jobs |-> "absent"]
  BY CountInit DEF LadderInit, Init, QueueInit
<1>2. PICK q \in QuietWindows : evals = [j \in Jobs |-> Fresh(j, 0, q)]
  BY DEF LadderInit
<1>3. \A j \in Jobs : evals[j] \in Eval /\ EvalFits(j, evals[j], logged)
  BY <1>2, FreshFits
<1>4. evals \in [Jobs -> Eval]
  BY <1>2, <1>3
<1>5. LadderTypeOK
  BY <1>1, <1>4 DEF LadderInit, LadderTypeOK, CountInv
<1> QED BY <1>1, <1>3, <1>5 DEF LadderInv, LatestRuns, EvalOK

-----------------------------------------------------------------------------
(* Steps that leave every evaluation as it is: the clock, the API, and the *)
(* worker's own.  A job is completed by an execution whose handler has     *)
(* returned, and no execution comes to the handler.                        *)
Quietly ==
  /\ \A j \in Jobs : status'[j] = "completed" =>
       /\ claims'[j] = claims[j]
       /\ \/ status[j] = "completed"
          \/ \E r \in runs : r.job = j /\ r.pc = "completing"
  /\ \A s \in runs' :
       /\ claims'[s.job] = claims[s.job]
       /\ \E r \in runs : /\ r.job = s.job
                          /\ r.nth = s.nth
                          /\ s.pc \in {"handling", "completing"} => r.pc = s.pc

LEMMA WorkerIsQuiet ==
  ASSUME CountInv, JobInv, WorkerStep
  PROVE  Quietly
<1>0. /\ TypeOK
      /\ status \in [Jobs -> Statuses]
      /\ claims \in [Jobs -> Nat]
      /\ runs \subseteq Run
  BY DEF CountInv, TypeOK, QueueTypeOK
<1>1. ASSUME NEW j \in Jobs, UNCHANGED workerVars, QueueSteps(j) PROVE Quietly
  <2>1. \A k \in Jobs : status'[k] = "completed" => status[k] = "completed"
    BY <1>0, <1>1 DEF QueueSteps, Cleanup, TtlExpire, BecomeDue, Stored
  <2> QED BY <1>0, <1>1, <2>1 DEF Quietly, workerVars
<1>2. ASSUME NEW w \in Workers, Lifetime(w) PROVE Quietly
  <2>1. /\ UNCHANGED <<status, claims>>
        /\ runs' \subseteq runs
    BY <1>2 DEF Lifetime, Start, Crash, Exit, Die, StopRequested, StopDrained,
       StopReturns, queueVars
  <2> QED BY <1>0, <2>1 DEF Quietly, Run
<1>3. ASSUME NEW w \in Workers, NEW t \in Types, LoopSteps(w, t) PROVE Quietly
  <2>1. CASE Poll(w, t) \/ LoopEnds(w, t) \/ ClaimNothing(w, t)
    <3>1. UNCHANGED <<status, claims, runs>>
      BY <2>1 DEF Poll, LoopEnds, ClaimNothing, queueVars
    <3> QED BY <1>0, <3>1 DEF Quietly, Run
  <2>2. ASSUME NEW j \in Jobs, ClaimReplyLost(w, t, j) PROVE Quietly
    <3>1. /\ status[j] = "pending"
          /\ status' = [status EXCEPT ![j] = "processing"]
          /\ claims' = [claims EXCEPT ![j] = @ + 1]
          /\ runs' = runs
      BY <2>2 DEF ClaimReplyLost, LockJob, NextJobs, Claimable
    <3>2. \A r \in runs : r.job \in Jobs /\ r.job # j
      BY <1>0, <3>1 DEF JobInv, RunHoldsJob, Run
    <3> QED BY <1>0, <3>1, <3>2 DEF Quietly
  <2> QED BY <1>3, <2>1, <2>2 DEF LoopSteps
<1>4. ASSUME NEW r \in runs, r.pc # "handling", RunStep(r) PROVE Quietly
  <2>1. /\ r.job \in Jobs
        /\ claims' = claims
        /\ status' = status \/ \E v \in Statuses : status' = [status EXCEPT ![r.job] = v]
        /\ status'[r.job] = "completed" => status[r.job] = "completed" \/ r.pc = "completing"
    BY <1>0, <1>4 DEF RunStep, HandlerReturns, HandlerThrows, Complete, CompleteThrows,
       FailReads, FailFindsNothing, FailWrites, FailThrows, SetCompleted, SetFailed,
       Exhausted, Stored, queueVars, Run, Statuses
  <2>2. \A s \in runs' : s \in runs \/ (/\ s.job = r.job
                                        /\ s.nth = r.nth
                                        /\ s.pc \in {"failing", "recording"})
    BY <1>0, <1>4 DEF RunStep, HandlerReturns, HandlerThrows, Complete, CompleteThrows,
       FailReads, FailFindsNothing, FailWrites, FailThrows, Settles, Advance, Run
  <2> QED BY <1>0, <2>1, <2>2 DEF Quietly
<1> QED BY <1>1, <1>2, <1>3, <1>4 DEF WorkerStep

LEMMA LadderQuietly ==
  ASSUME LadderInv, CountInv', Quietly, UNCHANGED evals, LadderTypeOK',
         submitted \subseteq submitted', logged' = logged
  PROVE  LadderInv'
<1>1. /\ \A j \in Jobs : status'[j] = "completed" =>
           /\ claims'[j] = claims[j]
           /\ \/ status[j] = "completed"
              \/ \E r \in runs : r.job = j /\ r.pc = "completing"
      /\ \A s \in runs' :
           /\ claims'[s.job] = claims[s.job]
           /\ \E r \in runs : /\ r.job = s.job
                              /\ r.nth = s.nth
                              /\ s.pc \in {"handling", "completing"} => r.pc = s.pc
  BY DEF Quietly
<1>2. LatestRuns'
  BY <1>1 DEF LadderInv, LatestRuns
<1>3. ASSUME NEW j \in Jobs PROVE EvalOK(j)'
  <2>1. EvalOK(j) /\ LatestRuns
    BY DEF LadderInv
  <2>2. EvalFits(j, evals[j], logged)'
    BY <2>1 DEF EvalOK, EvalFits
  <2>3. ASSUME status'[j] = "completed" PROVE evals'[j].nth = claims'[j] /\ evals'[j].pc = "done"
    <3>1. CASE status[j] = "completed"
      BY <1>1, <2>1, <2>3, <3>1 DEF EvalOK
    <3>2. ASSUME NEW r \in runs, r.job = j, r.pc = "completing"
          PROVE  evals'[j].nth = claims'[j] /\ evals'[j].pc = "done"
      BY <1>1, <2>1, <2>3, <3>2 DEF EvalOK, LatestRuns
    <3> QED BY <1>1, <2>3, <3>1, <3>2
  <2>4. ASSUME NEW s, s \in runs', s.job = j
        PROVE  /\ evals'[j].nth = s.nth
               /\ s.pc = "completing" => evals'[j].pc = "done"
    BY <1>1, <2>1, <2>4 DEF EvalOK
  <2> QED BY <2>2, <2>3, <2>4 DEF EvalOK
<1> QED BY <1>2, <1>3 DEF LadderInv

-----------------------------------------------------------------------------
(* Steps of evaluations.                                                   *)

\* The job of an execution in its handler is not completed, and nobody else
\* runs it.
LEMMA HandledJob ==
  ASSUME CountInv, JobInv, NEW r \in runs, r.pc = "handling"
  PROVE  /\ r \in Run /\ r.job \in Jobs
         /\ status[r.job] # "completed"
         /\ \A q \in runs : q.job = r.job => q = r
BY DEF CountInv, TypeOK, Run, JobInv, RunHoldsJob, SingleRunner

\* Evaluations move on, the worker does not notice.
LEMMA EvaluationsMove ==
  ASSUME LadderInv, CountInv, JobInv, UNCHANGED <<vars, submitted>>,
         logged \subseteq logged', LadderTypeOK',
         \A j \in Jobs :
           \/ evals'[j] = evals[j]
           \/ /\ \E r \in runs : r.job = j /\ r.pc = "handling"
              /\ evals'[j].nth = evals[j].nth
              /\ EvalFits(j, evals'[j], logged')
  PROVE  LadderInv'
<1>1. UNCHANGED <<status, claims, runs>>
  BY DEF vars, queueVars, workerVars
<1>2. LatestRuns'
  BY <1>1 DEF LadderInv, LatestRuns
<1>3. ASSUME NEW j \in Jobs PROVE EvalOK(j)'
  <2>1. EvalOK(j)
    BY DEF LadderInv
  <2>2. CASE evals'[j] = evals[j]
    BY <1>1, <2>1, <2>2 DEF EvalOK, EvalFits
  <2>3. ASSUME NEW r \in runs, r.job = j, r.pc = "handling",
               evals'[j].nth = evals[j].nth, EvalFits(j, evals'[j], logged')
        PROVE  EvalOK(j)'
    <3>1. status[j] # "completed" /\ \A q \in runs : q.job = j => q = r
      BY <2>3, HandledJob
    <3>2. EvalFits(j, evals[j], logged)'
      BY <2>3 DEF EvalFits
    <3> QED BY <1>1, <2>1, <2>3, <3>1, <3>2 DEF EvalOK
  <2> QED BY <2>2, <2>3
<1> QED BY <1>2, <1>3 DEF LadderInv

\* The record left by the loop behind the student.
LEMMA AfterStudentFits ==
  ASSUME NEW j \in Jobs, NEW x \in Eval, NEW b \in BOOLEAN, NEW lg,
         EvalFits(j, x, lg), x.pc \in {"cap", "record"}, b \/ x.pc = "cap"
  PROVE  /\ AfterStudent(x, b) \in Eval
         /\ AfterStudent(x, b).nth = x.nth
         /\ EvalFits(j, AfterStudent(x, b), lg)
BY DEF AfterStudent, Eval, EvalFits

LEMMA TodayIsADay == LadderTypeOK => Today \in Days
BY DEF LadderTypeOK, Today, Days

\* Commands that read, or write nothing but the record of the evaluation.
LEMMA LadderReads ==
  ASSUME LadderInv, CountInv, JobInv, NEW r \in runs,
         ReadStatus(r) \/ ResolveStep(r) \/ CheckHour(r) \/ ReadCap(r) \/ Send(r)
  PROVE  LadderInv'
<1> DEFINE j == r.job
           e == evals[j]
<1>1. /\ r.pc = "handling" /\ UNCHANGED <<vars, now, submitted, logged, dayCount, daySent>>
      /\ r.job \in Jobs
  BY HandledJob DEF ReadStatus, ResolveStep, CheckHour, ReadCap, Send, At
<1>2. /\ e \in Eval /\ EvalFits(j, e, logged) /\ LadderTypeOK /\ evals \in [Jobs -> Eval]
  <2>1. LadderTypeOK /\ evals \in [Jobs -> Eval] /\ EvalOK(j)
    BY <1>1 DEF LadderInv, LadderTypeOK
  <2> QED BY <1>1, <2>1 DEF EvalOK
<1> DEFINE Moved == \E x \in Eval : /\ evals' = [evals EXCEPT ![j] = x]
                                    /\ x.nth = e.nth
                                    /\ EvalFits(j, x, logged)
<1>3. Moved
  <2>0. ASSUME NEW x \in Eval, evals' = [evals EXCEPT ![j] = x], x.nth = e.nth,
               EvalFits(j, x, logged)
        PROVE  Moved
    BY <2>0
  <2>1. CASE ReadStatus(r)
    <3> DEFINE x == [e EXCEPT !.pc = IF AssignmentOf(j) \in submitted THEN "done" ELSE "step"]
    <3>1. evals' = [evals EXCEPT ![j] = x] /\ e.pc = "status"
      BY <1>1, <1>2, <2>1 DEF ReadStatus, At, Goto
    <3>2. x \in Eval /\ x.nth = e.nth
      BY <1>2 DEF Eval
    <3>3. EvalFits(j, x, logged)
      BY <1>2, <3>1 DEF Eval, EvalFits
    <3> QED BY <2>0, <3>1, <3>2, <3>3
  <2>2. CASE ResolveStep(r)
    <3>0. e.pc = "step"
      BY <2>2 DEF ResolveStep, At
    <3>1. CASE Goto(r, "done")
      <4> DEFINE x == [e EXCEPT !.pc = "done"]
      <4>1. evals' = [evals EXCEPT ![j] = x]
        BY <1>1, <1>2, <3>1 DEF Goto
      <4>2. x \in Eval /\ x.nth = e.nth /\ EvalFits(j, x, logged)
        BY <1>2, <3>0 DEF Eval, EvalFits
      <4> QED BY <2>0, <4>1, <4>2
    <3>2. ASSUME NEW s \in Steps,
                 evals' = [evals EXCEPT
                  ![r.job].step = s,
                  ![r.job].pc = IF <<AssignmentOf(j), s>> \in logged THEN "done" ELSE "hour"]
          PROVE  Moved
      <4> DEFINE x == [e EXCEPT !.step = s,
                         !.pc = IF <<AssignmentOf(j), s>> \in logged THEN "done" ELSE "hour"]
      <4>1. evals' = [evals EXCEPT ![j] = x]
        BY <1>1, <1>2, <3>2
      <4>2. x \in Eval /\ x.nth = e.nth
        BY <1>2 DEF Eval
      <4>3. EvalFits(j, x, logged)
        BY <1>2, <3>0 DEF Eval, EvalFits
      <4> QED BY <2>0, <4>1, <4>2, <4>3
    <3> QED BY <2>2, <3>1, <3>2 DEF ResolveStep
  <2>3. CASE CheckHour(r)
    <3>1. e.pc = "hour" /\ \E pc \in {"done", "send", "cap"}, aud \in {"student", "parent"} :
            evals' = [evals EXCEPT ![r.job].pc = pc, ![r.job].aud = aud]
      BY <2>3 DEF CheckHour, At
    <3>2. ASSUME NEW pc \in {"done", "send", "cap"}, NEW aud \in {"student", "parent"},
                 evals' = [evals EXCEPT ![r.job].pc = pc, ![r.job].aud = aud]
          PROVE  Moved
      <4> DEFINE x == [e EXCEPT !.pc = pc, !.aud = aud]
      <4>1. evals' = [evals EXCEPT ![j] = x]
        BY <1>1, <1>2, <3>2
      <4>2. x \in Eval /\ x.nth = e.nth /\ EvalFits(j, x, logged)
        BY <1>2, <3>1 DEF Eval, EvalFits
      <4> QED BY <2>0, <4>1, <4>2
    <3> QED BY <3>1, <3>2
  <2>4. CASE ReadCap(r)
    <3>0. e.pc = "cap"
      BY <2>4 DEF ReadCap, At
    <3>1. CASE Goto(r, "send")
      <4> DEFINE x == [e EXCEPT !.pc = "send"]
      <4>1. evals' = [evals EXCEPT ![j] = x]
        BY <1>1, <1>2, <3>1 DEF Goto
      <4>2. x \in Eval /\ x.nth = e.nth /\ EvalFits(j, x, logged)
        BY <1>2, <3>0 DEF Eval, EvalFits
      <4> QED BY <2>0, <4>1, <4>2
    <3>2. CASE evals' = [evals EXCEPT ![j] = AfterStudent(e, e.sentAny)]
      <4>1. e.sentAny \in BOOLEAN
        BY <1>2 DEF Eval
      <4> QED BY <1>1, <1>2, <2>0, <3>0, <3>2, <4>1, AfterStudentFits
    <3> QED BY <1>1, <1>2, <2>4, <3>1, <3>2 DEF ReadCap
  <2>5. CASE Send(r)
    <3>0. e.pc = "send"
      BY <2>5 DEF Send, At
    <3>1. PICK told \in {{}, {e.aud}} :
            evals' = [evals EXCEPT
              ![r.job].reminded = @ \union told,
              ![r.job].sentAny = (e.aud = "parent") \/ @,
              ![r.job].pc = IF e.aud = "student" THEN "record" ELSE "mark"]
      BY <2>5 DEF Send
    <3> DEFINE x == [e EXCEPT !.reminded = @ \union told,
                              !.sentAny = (e.aud = "parent") \/ @,
                              !.pc = IF e.aud = "student" THEN "record" ELSE "mark"]
    <3>2. evals' = [evals EXCEPT ![j] = x]
      BY <1>1, <1>2, <3>1
    <3>3. x \in Eval /\ x.nth = e.nth
      BY <1>2 DEF Eval
    <3>4. EvalFits(j, x, logged)
      BY <1>2, <3>0 DEF Eval, EvalFits
    <3> QED BY <2>0, <3>2, <3>3, <3>4
  <2> QED BY <2>1, <2>2, <2>3, <2>4, <2>5
<1>4. LadderTypeOK'
  BY <1>1, <1>2, <1>3 DEF LadderTypeOK, TypeOK, QueueTypeOK, vars, queueVars, workerVars
<1>5. \A k \in Jobs : \/ evals'[k] = evals[k]
                      \/ /\ \E q \in runs : q.job = k /\ q.pc = "handling"
                         /\ evals'[k].nth = evals[k].nth
                         /\ EvalFits(k, evals'[k], logged')
  BY <1>1, <1>2, <1>3
<1> QED BY <1>1, <1>4, <1>5, EvaluationsMove

LEMMA LadderRecords ==
  ASSUME LadderInv, CountInv, JobInv, NEW S \in SUBSET runs,
         RecordsRace(S) \/ \E r \in runs : S = {r} /\ RecordSend(r)
  PROVE  LadderInv'
<1>1. /\ UNCHANGED <<vars, now, submitted, logged>>
      /\ \A r \in S : At(r, "record")
      /\ LadderTypeOK /\ Today \in Days
  BY TodayIsADay DEF RecordsRace, RecordSend, LadderInv
<1>2. \A r \in S : r.job \in Jobs /\ r.pc = "handling"
  BY <1>1, HandledJob DEF At
<1>3. ASSUME NEW j \in Jobs PROVE evals[j] \in Eval /\ EvalFits(j, evals[j], logged)
  BY <1>1 DEF LadderInv, LadderTypeOK, EvalOK
<1>4. evals' = [j \in Jobs |-> IF \E r \in S : r.job = j
                               THEN AfterStudent(evals[j], TRUE) ELSE evals[j]]
  <2>1. CASE RecordsRace(S)
    BY <2>1 DEF RecordsRace
  <2>2. ASSUME NEW r \in runs, S = {r}, RecordSend(r) PROVE <1>4!1 = <1>4!2
    BY <1>1, <2>2 DEF RecordSend, LadderTypeOK
  <2> QED BY <2>1, <2>2
<1>5. ASSUME NEW j \in Jobs
      PROVE  /\ evals'[j] \in Eval
             /\ \/ evals'[j] = evals[j]
                \/ /\ \E q \in runs : q.job = j /\ q.pc = "handling"
                   /\ evals'[j].nth = evals[j].nth
                   /\ EvalFits(j, evals'[j], logged')
  <2>1. CASE \A r \in S : r.job # j
    BY <1>3, <1>4, <2>1
  <2>2. ASSUME NEW r \in S, r.job = j PROVE <1>5!2
    <3>1. evals[j].pc = "record" /\ r.pc = "handling"
      BY <1>1, <2>2 DEF At
    <3>2. evals'[j] = AfterStudent(evals[j], TRUE)
      BY <1>4, <2>2
    <3> QED BY <1>1, <1>3, <2>2, <3>1, <3>2, AfterStudentFits
  <2> QED BY <2>1, <2>2
<1>6. dayCount' \in [Days -> Nat] /\ daySent' \in [Days -> Nat]
  <2>1. dayCount \in [Days -> Nat] /\ daySent \in [Days -> Nat] /\ 1 \in Nat
    BY <1>1 DEF LadderTypeOK
  <2>2. CASE RecordsRace(S)
    <3>1. Cardinality(S) \in Nat
      BY FS_Subset, FS_CardinalityType DEF CountInv
    <3> QED BY <1>1, <2>1, <2>2, <3>1 DEF RecordsRace
  <2>3. ASSUME NEW r \in runs, RecordSend(r) PROVE <1>6!1 /\ <1>6!2
    BY <1>1, <2>1, <2>3 DEF RecordSend, CountStudent
  <2> QED BY <2>2, <2>3
<1>7. LadderTypeOK'
  BY <1>1, <1>4, <1>5, <1>6
     DEF LadderTypeOK, TypeOK, QueueTypeOK, vars, queueVars, workerVars
<1> QED BY <1>1, <1>5, <1>7, EvaluationsMove

LEMMA LadderMarks ==
  ASSUME LadderInv, CountInv, JobInv, NEW r \in runs, MarkSent(r)
  PROVE  LadderInv'
<1> DEFINE j == r.job
           e == evals[j]
           a == AssignmentOf(j)
           lg == logged \union {<<a, e.step>>}
           x == [e EXCEPT !.pc = "done"]
<1>1. /\ r.pc = "handling" /\ UNCHANGED <<vars, now, submitted, dayCount, daySent>>
      /\ j \in Jobs /\ e.pc = "mark" /\ logged' = lg
      /\ evals' = [evals EXCEPT ![r.job].pc = "done"]
  BY HandledJob DEF MarkSent, At, MarkStep, Goto
<1>2. /\ e \in Eval /\ EvalFits(j, e, logged) /\ LadderTypeOK /\ evals \in [Jobs -> Eval]
  BY <1>1 DEF LadderInv, LadderTypeOK, EvalOK
<1>3. evals' = [evals EXCEPT ![j] = x] /\ x \in Eval /\ x.nth = e.nth
  BY <1>1, <1>2 DEF Eval
<1>4. EvalFits(j, x, lg)
  BY <1>1, <1>2 DEF EvalFits, Eval
<1>5. a \in Assignments /\ e.step \in Steps
  BY <1>1, <1>2, LadderConstants DEF EvalFits, AssignmentOf
<1>6. LadderTypeOK'
  BY <1>1, <1>2, <1>3, <1>5
     DEF LadderTypeOK, TypeOK, QueueTypeOK, vars, queueVars, workerVars
<1>7. \A k \in Jobs : \/ evals'[k] = evals[k]
                      \/ /\ \E q \in runs : q.job = k /\ q.pc = "handling"
                         /\ evals'[k].nth = evals[k].nth
                         /\ EvalFits(k, evals'[k], logged')
  BY <1>1, <1>2, <1>3, <1>4
<1> QED BY <1>1, <1>6, <1>7, EvaluationsMove

\* The handler returns or throws; a failing command may have had its effect.
LEMMA LadderHandlerOver ==
  ASSUME LadderInv, CountInv, JobInv, CountInv', NEW r \in runs,
         EvaluationReturns(r) \/ EvaluationThrows(r) \/ SendThrows(r)
  PROVE  LadderInv'
<1> DEFINE j == r.job
           e == evals[j]
<1>1. /\ r.pc = "handling" /\ UNCHANGED <<status, claims, now, submitted>>
      /\ \E pc \in {"completing", "failing"} :
           /\ runs' = (runs \ {r}) \union {[r EXCEPT !.pc = pc]}
           /\ pc = "completing" => e.pc = "done"
  BY DEF EvaluationReturns, EvaluationThrows, SendThrows, At, HandlerReturns,
     HandlerThrows, Advance, queueVars, ladderVars
<1>2. /\ r \in Run /\ j \in Jobs /\ status[j] # "completed"
      /\ \A q \in runs : q.job = j => q = r
  BY <1>1, HandledJob
<1>3. /\ e \in Eval /\ EvalFits(j, e, logged) /\ LadderTypeOK /\ evals \in [Jobs -> Eval]
      /\ Today \in Days
  BY <1>1, <1>2, TodayIsADay DEF LadderInv, LadderTypeOK, EvalOK
<1>4. /\ logged \subseteq logged'
      /\ logged' \in SUBSET (Assignments \X Steps)
      /\ dayCount' \in [Days -> Nat] /\ daySent' \in [Days -> Nat]
  <2>1. AssignmentOf(j) \in Assignments
    BY <1>2, LadderConstants DEF AssignmentOf
  <2>2. e.pc = "mark" => e.step \in Steps
    BY <1>3 DEF EvalFits
  <2>3. /\ logged \in SUBSET (Assignments \X Steps)
        /\ dayCount \in [Days -> Nat] /\ daySent \in [Days -> Nat]
    BY <1>3 DEF LadderTypeOK
  <2>4. CASE EvaluationReturns(r) \/ SendThrows(r)
    BY <2>3, <2>4 DEF EvaluationReturns, SendThrows, ladderVars
  <2>5. CASE EvaluationThrows(r)
    BY <1>3, <2>1, <2>2, <2>3, <2>5 DEF EvaluationThrows, CountStudent, MarkStep
  <2> QED BY <2>4, <2>5
<1>5. \E x \in Eval : /\ evals' = [evals EXCEPT ![j] = x]
                      /\ x.nth = e.nth
                      /\ x.pc = e.pc
                      /\ EvalFits(j, x, logged')
  <2>1. CASE EvaluationReturns(r) \/ EvaluationThrows(r)
    <3>1. evals' = evals
      BY <2>1 DEF EvaluationReturns, EvaluationThrows, ladderVars
    <3>2. EvalFits(j, e, logged')
      BY <1>3, <1>4 DEF EvalFits
    <3> QED BY <1>2, <1>3, <3>1, <3>2
  <2>2. CASE SendThrows(r)
    <3>0. e.pc = "send"
      BY <2>2 DEF SendThrows, At
    <3>1. PICK told \in {{}, {e.aud}} :
            evals' = [evals EXCEPT ![r.job].reminded = @ \union told]
      BY <2>2 DEF SendThrows
    <3>2. logged' = logged
      BY <2>2 DEF SendThrows
    <3> DEFINE x == [e EXCEPT !.reminded = @ \union told]
    <3>3. evals' = [evals EXCEPT ![j] = x]
      BY <1>2, <1>3, <3>1
    <3>4. x \in Eval /\ x.nth = e.nth /\ x.pc = e.pc
      BY <1>3 DEF Eval
    <3>5. EvalFits(j, x, logged')
      BY <1>3, <3>0, <3>2 DEF Eval, EvalFits
    <3> QED BY <3>3, <3>4, <3>5
  <2> QED BY <2>1, <2>2
<1>6. LadderTypeOK'
  BY <1>1, <1>3, <1>4, <1>5 DEF LadderTypeOK, CountInv
<1>7. \A s \in runs' : \/ s \in runs /\ s # r
                       \/ /\ s.job = j /\ s.nth = r.nth
                          /\ s.pc = "completing" => e.pc = "done"
  BY <1>1, <1>2 DEF Run
<1>8. LatestRuns'
  BY <1>1, <1>7 DEF LadderInv, LatestRuns
<1>9. ASSUME NEW k \in Jobs PROVE EvalOK(k)'
  <2>1. EvalOK(k)
    BY DEF LadderInv
  <2>2. CASE k # j
    <3>1. evals'[k] = evals[k]
      BY <1>3, <1>5, <2>2
    <3>2. EvalFits(k, evals[k], logged)'
      BY <1>1, <1>4, <2>1, <3>1 DEF EvalOK, EvalFits
    <3> QED BY <1>1, <1>7, <2>1, <2>2, <3>1, <3>2 DEF EvalOK
  <2>3. CASE k = j
    <3>1. /\ evals'[j].nth = e.nth
          /\ evals'[j].pc = e.pc
          /\ EvalFits(j, evals'[j], logged')
      BY <1>2, <1>3, <1>5
    <3>2. EvalFits(j, evals[j], logged)'
      BY <1>1, <3>1 DEF EvalFits
    <3> QED BY <1>1, <1>2, <1>7, <2>1, <2>3, <3>1, <3>2 DEF EvalOK
  <2> QED BY <2>2, <2>3
<1> QED BY <1>6, <1>8, <1>9 DEF LadderInv

LEMMA LadderClaims ==
  ASSUME LadderInv, CountInv, JobInv, CountInv', NEW w \in Workers, NEW t \in Types,
         NEW j \in Jobs, ClaimGuidance(w, t, j)
  PROVE  LadderInv'
<1>1. /\ status[j] = "pending"
      /\ status' = [status EXCEPT ![j] = "processing"]
      /\ claims' = [claims EXCEPT ![j] = @ + 1]
      /\ runs' = runs \union {[job |-> j, nth |-> claims[j] + 1, worker |-> w,
                               pc |-> "handling", seen |-> 0]}
      /\ UNCHANGED <<now, submitted, logged, dayCount, daySent>>
  BY DEF ClaimGuidance, Claim, LockJob, NextJobs, Claimable
<1>2. PICK q \in QuietWindows : evals' = [evals EXCEPT ![j] = Fresh(j, claims[j] + 1, q)]
  BY DEF ClaimGuidance
<1>3. /\ LadderTypeOK /\ evals \in [Jobs -> Eval]
      /\ status \in [Jobs -> Statuses] /\ claims \in [Jobs -> Nat] /\ runs \subseteq Run
  BY DEF LadderInv, LadderTypeOK, CountInv, TypeOK, QueueTypeOK
<1>4. /\ Fresh(j, claims[j] + 1, q) \in Eval
      /\ EvalFits(j, Fresh(j, claims[j] + 1, q), logged)
      /\ Fresh(j, claims[j] + 1, q).nth = claims[j] + 1
  BY <1>3, FreshFits
<1>5. \A r \in runs : r.job \in Jobs /\ r.job # j
  BY <1>1, <1>3 DEF JobInv, RunHoldsJob, Run
<1>6. LadderTypeOK'
  BY <1>1, <1>2, <1>3, <1>4 DEF LadderTypeOK, CountInv
<1>7. LatestRuns'
  BY <1>1, <1>3, <1>5 DEF LadderInv, LatestRuns
<1>8. ASSUME NEW k \in Jobs PROVE EvalOK(k)'
  <2>1. EvalOK(k)
    BY DEF LadderInv
  <2>2. CASE k # j
    <3>1. evals'[k] = evals[k] /\ status'[k] = status[k] /\ claims'[k] = claims[k]
      BY <1>1, <1>2, <1>3, <2>2
    <3>2. EvalFits(k, evals[k], logged)'
      BY <1>1, <2>1, <3>1 DEF EvalOK, EvalFits
    <3>3. \A s \in runs' : s.job = k => s \in runs
      BY <1>1, <2>2
    <3> QED BY <2>1, <3>1, <3>2, <3>3 DEF EvalOK
  <2>3. CASE k = j
    <3>1. evals'[j] = Fresh(j, claims[j] + 1, q) /\ status'[j] = "processing"
      BY <1>1, <1>2, <1>3
    <3>2. EvalFits(j, evals[j], logged)'
      BY <1>1, <1>4, <3>1 DEF EvalFits
    <3>3. \A s \in runs' : s.job = j => s.nth = claims[j] + 1 /\ s.pc = "handling"
      BY <1>1, <1>5
    <3> QED BY <1>4, <2>3, <3>1, <3>2, <3>3 DEF EvalOK
  <2> QED BY <2>2, <2>3
<1> QED BY <1>6, <1>7, <1>8 DEF LadderInv

LEMMA LadderInvNext ==
  LadderInv /\ CountInv /\ JobInv /\ CountInv' /\ [LadderNext]_allVars => LadderInv'
<1> SUFFICES ASSUME LadderInv, CountInv, JobInv, CountInv', [LadderNext]_allVars
             PROVE  LadderInv'
  OBVIOUS
<1>0. LadderTypeOK /\ status \in [Jobs -> Statuses] /\ runs \subseteq Run
  BY DEF LadderInv, CountInv, TypeOK, QueueTypeOK
<1>1. CASE WorkerStep
  <2>1. Quietly /\ UNCHANGED ladderVars
    BY <1>1, WorkerIsQuiet DEF WorkerStep
  <2>2. LadderTypeOK'
    BY <1>0, <2>1 DEF LadderTypeOK, ladderVars, CountInv
  <2> QED BY <2>1, <2>2, LadderQuietly DEF ladderVars
<1>2. ASSUME UNCHANGED <<claims, runs, evals, logged, dayCount, daySent>>,
             now' \in Instants, submitted' \in SUBSET Assignments,
             submitted \subseteq submitted',
             \A j \in Jobs : status'[j] = "completed" => status[j] = "completed"
      PROVE  LadderInv'
  <2>1. LadderTypeOK'
    BY <1>0, <1>2 DEF LadderTypeOK, CountInv
  <2>2. Quietly
    BY <1>0, <1>2 DEF Quietly, Run
  <2> QED BY <1>2, <2>1, <2>2, LadderQuietly
<1>3. CASE Tick \/ UNCHANGED allVars
  BY <1>0, <1>2, <1>3 DEF Tick, allVars, vars, queueVars, workerVars, ladderVars, LadderTypeOK
<1>4. ASSUME NEW j \in Jobs, Schedule(j) PROVE LadderInv'
  BY <1>0, <1>2, <1>4 DEF Schedule, Add, workerVars, ladderVars, LadderTypeOK
<1>5. ASSUME NEW a \in Assignments, Submit(a) PROVE LadderInv'
  BY <1>0, <1>2, <1>5 DEF Submit, vars, queueVars, workerVars, LadderTypeOK
<1>6. ASSUME NEW r \in runs, EvaluationStep(r) PROVE LadderInv'
  <2>1. CASE RecordSend(r)
    <3>1. {r} \in SUBSET runs
      OBVIOUS
    <3> QED BY <2>1, <3>1, LadderRecords
  <2> QED BY <1>6, <2>1, LadderReads, LadderMarks, LadderHandlerOver DEF EvaluationStep
<1>7. ASSUME NEW S \in SUBSET runs, RecordsRace(S) PROVE LadderInv'
  BY <1>7, LadderRecords
<1>8. ASSUME NEW w \in Workers, NEW t \in Types, NEW j \in Jobs, ClaimGuidance(w, t, j)
      PROVE  LadderInv'
  BY <1>8, LadderClaims
<1> QED BY <1>1, <1>3, <1>4, <1>5, <1>6, <1>7, <1>8 DEF LadderNext

LEMMA LadderInvAlways == LadderSpec => []LadderInv
<1>1. LadderSpec => [](CountInv /\ JobInv)
  BY WorkerInvariants
<1> QED BY <1>1, LadderInvInit, LadderInvNext, PTL DEF LadderSpec

\* The state of the ladder is always well typed.
THEOREM LadderTypeCorrect == LadderSpec => []LadderTypeOK
<1>1. LadderInv => LadderTypeOK
  BY DEF LadderInv
<1> QED BY <1>1, LadderInvAlways, PTL

\* A completed job that reminded somebody has its step in the log.
THEOREM RemindersAreLogged == LadderSpec => []ReminderIsLogged
<1>1. LadderInv => ReminderIsLogged
  BY DEF LadderInv, EvalOK, EvalFits, ReminderIsLogged
<1> QED BY <1>1, LadderInvAlways, PTL

\* Whoever is claimed after the work was handed in or the step was logged is
\* silent, for any number of copies, workers and retries.
THEOREM SettledStepsStaySilent == LadderSpec => []SettledStepIsSilent
<1>1. LadderInv => SettledStepIsSilent
  BY DEF LadderInv, EvalOK, EvalFits, SettledStepIsSilent
<1> QED BY <1>1, LadderInvAlways, PTL

-----------------------------------------------------------------------------
(* The daily cap.  All processes together hold at most MostInFlight        *)
(* executions, so as many reminders can be past the count and not recorded *)
(* yet.  A count that has reached the cap lets no other evaluation through, *)
(* so from then on what is recorded was in flight.                         *)

MostPerProcess == Concurrency + Cardinality(Types) - 1

\* The executions of one process can be numbered up to its bound.
LEMMA RunsNumbered ==
  ASSUME CountInv, BoundedOvershoot, NEW w \in Workers
  PROVE  Injection(RunsOf(w), 1..MostPerProcess) # {}
<1>1. IsFiniteSet(RunsOf(w))
  BY FS_Subset DEF CountInv, RunsOf
<1>2. PICK n : n = Cardinality(RunsOf(w))
  OBVIOUS
<1>3. /\ n \in Nat /\ Cardinality(Types) \in Nat /\ Concurrency \in Nat
      /\ n <= MostPerProcess
  <2>1. n < Concurrency + Cardinality(Types)
    BY <1>2 DEF CountInv, ActiveJobsExact, BoundedOvershoot
  <2>2. n \in Nat /\ Cardinality(Types) \in Nat /\ Concurrency \in Nat
    BY <1>1, <1>2, FS_CardinalityType, WorkerConstants
  <2> QED BY <2>1, <2>2 DEF MostPerProcess
<1>4. PICK f \in Bijection(1..n, RunsOf(w)) : TRUE
  BY <1>1, <1>2, FS_CardinalityType DEF ExistsBijection
<1>5. \A r \in RunsOf(w) : \E i \in 1..n : f[i] = r
  BY <1>4 DEF Bijection, Surjection
<1> DEFINE g == [r \in RunsOf(w) |-> CHOOSE i \in 1..n : f[i] = r]
<1>6. \A r \in RunsOf(w) : g[r] \in 1..n /\ f[g[r]] = r
  BY <1>5
<1>7. 1..n \subseteq 1..MostPerProcess
  BY <1>3 DEF MostPerProcess
<1>8. g \in [RunsOf(w) -> 1..MostPerProcess]
  BY <1>6, <1>7
<1>9. g \in Injection(RunsOf(w), 1..MostPerProcess)
  BY <1>6, <1>8 DEF Injection, IsInjective
<1> QED BY <1>9

LEMMA RunsBounded ==
  ASSUME CountInv, BoundedOvershoot
  PROVE  /\ MostInFlight \in Nat \ {0}
         /\ IsFiniteSet(runs) /\ Cardinality(runs) \in Nat
         /\ Cardinality(runs) <= MostInFlight
<1>1. /\ IsFiniteSet(Workers) /\ Cardinality(Workers) \in Nat \ {0}
      /\ Concurrency \in Nat \ {0} /\ Cardinality(Types) \in Nat \ {0}
  BY LadderConstants, WorkerConstants, FS_CardinalityType, FS_EmptySet
<1>2. MostPerProcess \in Nat \ {0}
  BY <1>1 DEF MostPerProcess
<1>3. PICK K : K = MostPerProcess
  OBVIOUS
<1>4. IsFiniteSet(1..K) /\ Cardinality(1..K) = K
  BY <1>2, <1>3, FS_Interval
<1> DEFINE T == Workers \X (1..K)
           G == [w \in Workers |-> CHOOSE g : g \in Injection(RunsOf(w), 1..K)]
           h == [r \in runs |-> <<r.worker, G[r.worker][r]>>]
<1>5. IsFiniteSet(T) /\ Cardinality(T) = MostInFlight
  BY <1>1, <1>3, <1>4, FS_Product DEF MostInFlight, MostPerProcess
<1>6. \A w \in Workers : G[w] \in Injection(RunsOf(w), 1..K)
  BY <1>3, RunsNumbered
<1>7. \A r \in runs : r.worker \in Workers /\ r \in RunsOf(r.worker)
  BY DEF CountInv, TypeOK, Run, RunsOf
<1>8. h \in Injection(runs, T)
  <2>1. \A w \in Workers : \A r \in RunsOf(w) : G[w][r] \in 1..K
    BY <1>6 DEF Injection
  <2>2. \A w \in Workers : \A q, r \in RunsOf(w) : G[w][q] = G[w][r] => q = r
    BY <1>6 DEF Injection, IsInjective
  <2> HIDE DEF G
  <2>3. h \in [runs -> T]
    BY <1>7, <2>1
  <2>4. ASSUME NEW q \in runs, NEW r \in runs, h[q] = h[r] PROVE q = r
    <3>1. q.worker = r.worker /\ G[q.worker][q] = G[r.worker][r]
      BY <2>4
    <3> QED BY <1>7, <2>2, <3>1
  <2> QED BY <2>3, <2>4 DEF Injection, IsInjective
<1>9. MostInFlight \in Nat \ {0}
  <2>1. \A a, b \in Nat \ {0} : a * b \in Nat \ {0}
    OBVIOUS
  <2> QED BY <1>1, <1>2, <2>1 DEF MostInFlight, MostPerProcess
<1> QED BY <1>5, <1>8, <1>9, FS_Injection, FS_CardinalityType

\* The jobs with a reminder past the count that is not recorded.
Unrecorded(x) == x.pc = "record" \/ (x.pc = "send" /\ x.aud = "student")
Handled(j) == \E r \in runs : r.job = j /\ r.pc = "handling"
Flying == {j \in Jobs : Handled(j) /\ Unrecorded(evals[j])}

Cap == MaxStudent + (IF MaxStudent > 1 THEN 2 ELSE 1) * (MostInFlight - 1)

\* Recorded on a day, and found in the count of the day.
Tallied(d, n, s, f) ==
  /\ n = 0 => s = 0
  /\ d > Today => n = 0
  /\ n > 0 => s <= n + (MostInFlight - 1)
  /\ d = Today /\ n >= MaxStudent => s + f <= Cap
  /\ d < Today => s <= Cap

CapInv ==
  /\ MaxStudent = 0 => Flying = {}
  /\ \A d \in Days : Tallied(d, dayCount[d], daySent[d], Cardinality(Flying))

LEMMA CapIs ==
  ASSUME MostInFlight \in Nat \ {0}
  PROVE  /\ MaxStudent \in Nat /\ Cap \in Nat
         /\ MaxStudent > 1 => Cap = MaxStudent + 2 * (MostInFlight - 1)
         /\ MaxStudent <= 1 => Cap = MaxStudent + (MostInFlight - 1)
BY LadderConstants DEF Cap

\* They are at most as many as there are executions.
LEMMA FlyingBounded ==
  ASSUME CountInv, BoundedOvershoot
  PROVE  /\ IsFiniteSet(Flying) /\ Cardinality(Flying) \in Nat
         /\ Cardinality(Flying) <= MostInFlight
<1>1. /\ MostInFlight \in Nat /\ IsFiniteSet(runs) /\ Cardinality(runs) \in Nat
      /\ Cardinality(runs) <= MostInFlight
  BY RunsBounded
<1> DEFINE f == [j \in Flying |-> CHOOSE r \in runs : r.job = j]
<1>2. \A j \in Flying : f[j] \in runs /\ f[j].job = j
  BY DEF Flying, Handled
<1>3. f \in Injection(Flying, runs)
  BY <1>2 DEF Injection, IsInjective
<1> HIDE DEF f
<1>4. IsFiniteSet(Flying) /\ Cardinality(Flying) <= Cardinality(runs)
  BY <1>1, <1>3, FS_Injection
<1> QED BY <1>1, <1>4, FS_CardinalityType

\* Where nothing is recorded, a day's tally holds on as reminders drop out.
LEMMA TallyDrops ==
  ASSUME NEW d, NEW n \in Nat, NEW s \in Nat, NEW f \in Nat, NEW g \in Nat, g <= f,
         MostInFlight \in Nat \ {0}, Today \in Int, now' = now, Tallied(d, n, s, f)
  PROVE  Tallied(d, n, s, g)'
<1>1. Today' = Today
  BY DEF Today
<1> QED BY <1>1, CapIs DEF Tallied, Cap

LEMMA CapQuiet ==
  ASSUME LadderTypeOK, CountInv, BoundedOvershoot, CapInv,
         CountInv', BoundedOvershoot', UNCHANGED <<now, dayCount, daySent>>,
         Flying' \subseteq Flying
  PROVE  CapInv'
<1>1. PICK f, g : f = Cardinality(Flying) /\ g = Cardinality(Flying)'
  OBVIOUS
<1>2. IsFiniteSet(Flying) /\ f \in Nat /\ g \in Nat /\ g <= f
  <2>1. IsFiniteSet(Flying) /\ f \in Nat
    BY <1>1, FlyingBounded
  <2>2. IsFiniteSet(Flying') /\ Cardinality(Flying') <= Cardinality(Flying)
    BY <2>1, FS_Subset
  <2> QED BY <1>1, <2>1, <2>2, FS_CardinalityType
<1>3. MostInFlight \in Nat \ {0} /\ Today \in Int
      /\ dayCount \in [Days -> Nat] /\ daySent \in [Days -> Nat]
  BY RunsBounded, LadderConstants DEF LadderTypeOK, Today, Day
<1>4. ASSUME NEW d \in Days PROVE Tallied(d, dayCount[d], daySent[d], g)'
  <2>1. PICK n, s : n = dayCount[d] /\ s = daySent[d]
    OBVIOUS
  <2>2. n \in Nat /\ s \in Nat /\ Tallied(d, n, s, f)
    BY <1>1, <1>3, <2>1 DEF CapInv
  <2>3. Tallied(d, n, s, g)'
    BY <1>2, <1>3, <2>2, TallyDrops
  <2> QED BY <2>1, <2>3
<1>5. (MaxStudent = 0 => Flying = {})'
  BY DEF CapInv
<1> QED BY <1>1, <1>4, <1>5 DEF CapInv

\* The executions are those of before, or fewer.
LEMMA FlyingElsewhere ==
  ASSUME NEW j \in Jobs, NEW x, \A k \in Jobs : k # j => evals'[k] = evals[k],
         evals'[j] = x, UNCHANGED runs
  PROVE  /\ Flying' \subseteq Flying \union {j}
         /\ (Unrecorded(x) => j \in Flying) => Flying' \subseteq Flying
         /\ ~Unrecorded(x) => Flying' \subseteq Flying \ {j}
<1>1. \A k \in Jobs : Handled(k)' <=> Handled(k)
  BY DEF Handled
<1>2. \A k \in Jobs : k \in Flying' <=> Handled(k) /\ Unrecorded(evals'[k])
  BY <1>1 DEF Flying, Unrecorded
<1> QED BY <1>2 DEF Flying

LEMMA AfterStudentDone ==
  ASSUME NEW x \in Eval, NEW b \in BOOLEAN
  PROVE  ~Unrecorded(AfterStudent(x, b))
BY DEF AfterStudent, Unrecorded, Eval

\* A day that begins has no tally yet, and one that ends keeps its own.
LEMMA CapTick ==
  ASSUME LadderTypeOK, CountInv, BoundedOvershoot, CapInv, Tick
  PROVE  CapInv'
<1>0. /\ MostInFlight \in Nat \ {0} /\ Today \in Int /\ Today' \in Int /\ Today <= Today'
      /\ dayCount \in [Days -> Nat] /\ daySent \in [Days -> Nat]
      /\ UNCHANGED <<runs, evals, dayCount, daySent>>
  <2>1. now \in Nat /\ now' \in Nat /\ now <= now'
    BY LadderConstants DEF LadderTypeOK, Tick
  <2> QED BY <2>1, RunsBounded, LadderConstants
          DEF LadderTypeOK, Today, Day, Tick, vars, workerVars
<1>1. Flying' = Flying
  BY <1>0 DEF Flying, Handled, Unrecorded
<1>2. PICK f : f = Cardinality(Flying)
  OBVIOUS
<1>3. f \in Nat /\ f <= MostInFlight /\ (MaxStudent = 0 => f = 0)
  BY <1>2, FlyingBounded, FS_EmptySet DEF CapInv
<1>4. Cardinality(Flying)' = f
  BY <1>1, <1>2
<1>5. ASSUME NEW d \in Days PROVE Tallied(d, dayCount[d], daySent[d], f)'
  <2>1. PICK n, s : n = dayCount[d] /\ s = daySent[d]
    OBVIOUS
  <2>2. n \in Nat /\ s \in Nat /\ Tallied(d, n, s, f) /\ d \in Int
    <3>1. d \in Int
      BY LadderConstants DEF Days, Day
    <3> QED BY <1>0, <1>2, <2>1, <3>1 DEF CapInv
  <2>3. Tallied(d, n, s, f)'
    <3>1. Cap' = Cap /\ MostInFlight' = MostInFlight
      BY DEF Cap, MostInFlight
    <3>2. PICK t, u : t = Today /\ u = Today'
      OBVIOUS
    <3>3. /\ n = 0 => s = 0
          /\ d > t => n = 0
          /\ n > 0 => s <= n + (MostInFlight - 1)
          /\ d = t /\ n >= MaxStudent => s + f <= Cap
          /\ d < t => s <= Cap
      BY <2>2, <3>2 DEF Tallied
    <3>4. /\ d = u /\ n >= MaxStudent => s + f <= Cap
          /\ d < u => s <= Cap
      BY <1>0, <1>3, <2>2, <3>2, <3>3, CapIs
    <3>5. d > u => n = 0
      BY <1>0, <2>2, <3>2, <3>3
    <3> QED BY <1>0, <2>1, <3>1, <3>2, <3>3, <3>4, <3>5 DEF Tallied
  <2> QED BY <1>0, <2>1, <2>3
<1> QED BY <1>1, <1>4, <1>5 DEF CapInv

\* A reminder passes the count only while the count is below the cap.
LEMMA CapAdmits ==
  ASSUME LadderTypeOK, CapInv, UNCHANGED <<now, dayCount, daySent>>,
         dayCount[Today] < MaxStudent
  PROVE  CapInv'
<1>1. MaxStudent \in Nat /\ dayCount \in [Days -> Nat] /\ Today \in Days
  BY TodayIsADay, LadderConstants DEF LadderTypeOK
<1>2. MaxStudent # 0
  BY <1>1
<1>3. PICK g : g = Cardinality(Flying)'
  OBVIOUS
<1>4. ASSUME NEW d \in Days PROVE Tallied(d, dayCount[d], daySent[d], g)'
  <2>1. Tallied(d, dayCount[d], daySent[d], Cardinality(Flying))
    BY DEF CapInv
  <2>2. Today' = Today /\ Cap' = Cap
    BY DEF Today, Cap, MostInFlight
  <2>3. d = Today => ~(dayCount[d] >= MaxStudent)
    BY <1>1
  <2> QED BY <2>1, <2>2, <2>3 DEF Tallied
<1> QED BY <1>2, <1>3, <1>4 DEF CapInv

\* c reminders are recorded, and found as one if the day had no document.
LEMMA CapRecords ==
  ASSUME LadderTypeOK, CountInv, BoundedOvershoot, CapInv, UNCHANGED now, NEW c \in Nat \ {0},
         Flying' \subseteq Flying, Cardinality(Flying') + c <= Cardinality(Flying),
         dayCount' = [dayCount EXCEPT ![Today] = @ + 1],
         daySent' = [daySent EXCEPT ![Today] = @ + c],
         c = 1 \/ dayCount[Today] = 0
  PROVE  CapInv'
<1>1. PICK f, g : f = Cardinality(Flying) /\ g = Cardinality(Flying)'
  OBVIOUS
<1>2. /\ f \in Nat /\ g \in Nat /\ g + c <= f /\ f <= MostInFlight
      /\ MaxStudent = 0 => f = 0
  <2>1. IsFiniteSet(Flying) /\ f \in Nat /\ f <= MostInFlight
    BY <1>1, FlyingBounded
  <2>2. IsFiniteSet(Flying') /\ Cardinality(Flying') \in Nat
    BY <2>1, FS_Subset, FS_CardinalityType
  <2> QED BY <1>1, <2>1, <2>2, FS_EmptySet DEF CapInv
<1>3. /\ MostInFlight \in Nat \ {0} /\ Today \in Int /\ Today \in Days
      /\ dayCount \in [Days -> Nat] /\ daySent \in [Days -> Nat]
      /\ Today' = Today /\ Cap' = Cap
  BY RunsBounded, TodayIsADay, LadderConstants DEF LadderTypeOK, Today, Day, Cap, MostInFlight
<1>4. MaxStudent \in Nat \ {0}
  BY <1>2, LadderConstants
<1>5. ASSUME NEW d \in Days PROVE Tallied(d, dayCount[d], daySent[d], g)'
  <2>1. PICK n, s : n = dayCount[d] /\ s = daySent[d]
    OBVIOUS
  <2>2. n \in Nat /\ s \in Nat /\ Tallied(d, n, s, f) /\ d \in Int
    <3>1. d \in Int
      BY LadderConstants DEF Days, Day
    <3> QED BY <1>1, <1>3, <2>1, <3>1 DEF CapInv
  <2>3. CASE d = Today
    <3>1. dayCount'[d] = n + 1 /\ daySent'[d] = s + c /\ (c = 1 \/ n = 0)
      BY <1>3, <2>1, <2>3
    <3>2. /\ n = 0 => s = 0
          /\ n > 0 => s <= n + (MostInFlight - 1)
          /\ n >= MaxStudent => s + f <= Cap
      BY <2>2, <2>3 DEF Tallied
    <3>3. s + c <= (n + 1) + (MostInFlight - 1)
      BY <1>2, <1>3, <2>2, <3>1, <3>2
    <3>4. ASSUME n + 1 >= MaxStudent PROVE (s + c) + g <= Cap
      <4>1. CASE n >= MaxStudent
        BY <1>2, <1>3, <2>2, <3>2, <4>1, CapIs
      <4>2. CASE n < MaxStudent /\ n = 0
        <5>1. MaxStudent = 1
          BY <1>4, <3>4, <4>2
        <5> QED BY <1>2, <1>3, <2>2, <3>2, <4>2, <5>1, CapIs
      <4>3. CASE n < MaxStudent /\ n > 0
        <5>1. MaxStudent = n + 1 /\ MaxStudent > 1 /\ c = 1
          BY <1>4, <2>2, <3>1, <3>4, <4>3
        <5> QED BY <1>2, <1>3, <2>2, <3>2, <4>3, <5>1, CapIs
      <4> QED BY <1>4, <2>2, <4>1, <4>2, <4>3
    <3>5. PICK n2, s2 : n2 = n + 1 /\ s2 = s + c
      OBVIOUS
    <3>6. Tallied(d, n2, s2, g)'
      BY <1>3, <2>2, <2>3, <3>3, <3>4, <3>5 DEF Tallied, MostInFlight
    <3> QED BY <3>1, <3>5, <3>6
  <2>4. CASE d # Today
    <3>1. dayCount'[d] = n /\ daySent'[d] = s
      BY <1>3, <2>1, <2>4
    <3>2. Tallied(d, n, s, g)'
      BY <1>3, <2>2, <2>4 DEF Tallied, MostInFlight
    <3> QED BY <3>1, <3>2
  <2> QED BY <2>3, <2>4
<1> QED BY <1>1, <1>4, <1>5 DEF CapInv

\* Commands of an evaluation that record no send, and leave its execution be.
LEMMA CapReads ==
  ASSUME LadderInv, CountInv, JobInv, BoundedOvershoot, CapInv,
         CountInv', BoundedOvershoot', NEW r \in runs,
         ReadStatus(r) \/ ResolveStep(r) \/ CheckHour(r) \/ ReadCap(r) \/ Send(r) \/ MarkSent(r)
  PROVE  CapInv'
<1>0. PICK j, e : j = r.job /\ e = evals[j]
  OBVIOUS
<1>1. /\ r.pc = "handling" /\ UNCHANGED <<runs, now, dayCount, daySent>> /\ j \in Jobs
  BY <1>0, HandledJob DEF ReadStatus, ResolveStep, CheckHour, ReadCap, Send, MarkSent, At,
     vars, workerVars
<1>2. LadderTypeOK /\ evals \in [Jobs -> Eval] /\ e \in Eval
  BY <1>0, <1>1 DEF LadderInv, LadderTypeOK
<1>3. ASSUME NEW x, evals' = [evals EXCEPT ![j] = x], Unrecorded(x) => j \in Flying
      PROVE  CapInv'
  <2>1. Flying' \subseteq Flying
    BY <1>1, <1>2, <1>3, FlyingElsewhere
  <2> QED BY <1>1, <1>2, <2>1, CapQuiet
<1>4. CASE ReadStatus(r)
  <2>1. PICK p \in {"done", "step"} : evals' = [evals EXCEPT ![j] = [e EXCEPT !.pc = p]]
    BY <1>0, <1>2, <1>4 DEF ReadStatus, Goto
  <2> QED BY <1>2, <1>3, <2>1 DEF Eval, Unrecorded
<1>5. CASE ResolveStep(r)
  <2>1. \E p \in {"done", "hour"}, s \in Steps \union {e.step} :
          evals' = [evals EXCEPT ![j] = [e EXCEPT !.step = s, !.pc = p]]
    <3>1. CASE Goto(r, "done")
      <4>1. evals' = [evals EXCEPT ![j] = [e EXCEPT !.step = e.step, !.pc = "done"]]
        BY <1>0, <1>2, <3>1 DEF Goto, Eval
      <4> QED BY <4>1
    <3>2. ASSUME NEW s \in Steps,
                 evals' = [evals EXCEPT ![r.job].step = s,
                   ![r.job].pc = IF <<AssignmentOf(r.job), s>> \in logged
                                 THEN "done" ELSE "hour"]
          PROVE  \E p \in {"done", "hour"} :
                   evals' = [evals EXCEPT ![j] = [e EXCEPT !.step = s, !.pc = p]]
      <4>1. PICK p : p = IF <<AssignmentOf(r.job), s>> \in logged THEN "done" ELSE "hour"
        OBVIOUS
      <4>2. evals' = [evals EXCEPT ![j] = [e EXCEPT !.step = s, !.pc = p]]
        BY <1>0, <1>2, <3>2, <4>1
      <4> QED BY <4>1, <4>2
    <3> QED BY <1>5, <3>1, <3>2 DEF ResolveStep
  <2>2. PICK p \in {"done", "hour"}, s \in Steps \union {e.step} :
          evals' = [evals EXCEPT ![j] = [e EXCEPT !.step = s, !.pc = p]]
    BY <2>1
  <2> QED BY <1>2, <1>3, <2>2 DEF Eval, Unrecorded
<1>6. CASE CheckHour(r)
  <2>1. PICK p \in {"done", "send", "cap"}, a \in {"parent", "student"} :
          /\ evals' = [evals EXCEPT ![j] = [e EXCEPT !.pc = p, !.aud = a]]
          /\ p = "send" => a = "parent"
    <3>1. evals' = [evals EXCEPT
            ![r.job].pc = IF ~(/\ e.step \in {"t48h", "t18h"} => LocalHour = SendHour
                               /\ ~IsQuiet(LocalHour, e.quiet)) THEN "done"
                          ELSE IF e.step = "t72h" THEN "send" ELSE "cap",
            ![r.job].aud = IF e.step = "t72h" THEN "parent" ELSE "student"]
      BY <1>0, <1>6 DEF CheckHour
    <3> QED BY <1>0, <1>2, <3>1
  <2> QED BY <1>2, <1>3, <2>1 DEF Eval, Unrecorded
<1>7. CASE ReadCap(r)
  <2>1. CASE CapReached(dayCount[Today])
    <3>1. evals' = [evals EXCEPT ![j] = AfterStudent(e, e.sentAny)]
      BY <1>0, <1>2, <1>7, <2>1 DEF ReadCap
    <3>2. e.sentAny \in BOOLEAN
      BY <1>2 DEF Eval
    <3> QED BY <1>2, <1>3, <3>1, <3>2, AfterStudentDone
  <2>2. CASE ~CapReached(dayCount[Today])
    <3>1. dayCount[Today] < MaxStudent
      BY <1>2, <2>2, TodayIsADay, LadderConstants DEF CapReached, LadderTypeOK
    <3> QED BY <1>1, <1>2, <3>1, CapAdmits
  <2> QED BY <2>1, <2>2
<1>8. CASE Send(r)
  <2>1. PICK told \in {{}, {e.aud}} :
          evals' = [evals EXCEPT
            ![r.job].reminded = @ \union told,
            ![r.job].sentAny = (e.aud = "parent") \/ @,
            ![r.job].pc = IF e.aud = "student" THEN "record" ELSE "mark"]
    BY <1>0, <1>8 DEF Send
  <2>2. PICK x : x = [e EXCEPT !.reminded = @ \union told,
                               !.sentAny = (e.aud = "parent") \/ @,
                               !.pc = IF e.aud = "student" THEN "record" ELSE "mark"]
    OBVIOUS
  <2>3. evals' = [evals EXCEPT ![j] = x]
    BY <1>0, <1>2, <2>1, <2>2
  <2>4. Unrecorded(x) => e.aud = "student"
    BY <1>2, <2>2 DEF Eval, Unrecorded
  <2>5. e.pc = "send" /\ Handled(j)
    BY <1>0, <1>1, <1>8 DEF Send, At, Handled
  <2>6. Unrecorded(x) => j \in Flying
    BY <1>0, <1>1, <2>4, <2>5 DEF Flying, Unrecorded
  <2> QED BY <1>3, <2>3, <2>6
<1>9. CASE MarkSent(r)
  <2>1. evals' = [evals EXCEPT ![j] = [e EXCEPT !.pc = "done"]]
    BY <1>0, <1>2, <1>9 DEF MarkSent, Goto
  <2> QED BY <1>2, <1>3, <2>1 DEF Eval, Unrecorded
<1> QED BY <1>4, <1>5, <1>6, <1>7, <1>8, <1>9

\* The last command of an execution: its reminder is not in flight any more.
LEMMA FlyingLoses ==
  ASSUME CountInv, JobInv, NEW r \in runs, r.pc = "handling", NEW p, p # "handling",
         runs' = (runs \ {r}) \union {[r EXCEPT !.pc = p]},
         \A k \in Jobs : k # r.job => evals'[k] = evals[k]
  PROVE  Flying' \subseteq Flying \ {r.job}
<1>1. r \in Run /\ \A q \in runs : q.job = r.job => q = r
  BY HandledJob
<1>2. \A s \in runs' : s.pc = "handling" => s \in runs /\ s # r
  BY <1>1 DEF Run
<1>3. \A k \in Jobs : Handled(k)' => Handled(k) /\ k # r.job
  BY <1>1, <1>2 DEF Handled
<1> QED BY <1>3 DEF Flying, Unrecorded

LEMMA CapOver ==
  ASSUME LadderInv, CountInv, JobInv, BoundedOvershoot, CapInv,
         CountInv', BoundedOvershoot', NEW r \in runs,
         EvaluationReturns(r) \/ EvaluationThrows(r) \/ SendThrows(r)
  PROVE  CapInv'
<1>1. /\ r.pc = "handling" /\ UNCHANGED now
      /\ \E p \in {"completing", "failing"} :
           runs' = (runs \ {r}) \union {[r EXCEPT !.pc = p]}
  BY DEF EvaluationReturns, EvaluationThrows, SendThrows, At, HandlerReturns,
     HandlerThrows, Advance, ladderVars
<1>2. r.job \in Jobs /\ LadderTypeOK /\ evals \in [Jobs -> Eval]
  BY <1>1, HandledJob DEF LadderInv, LadderTypeOK
<1>3. \A k \in Jobs : k # r.job => evals'[k] = evals[k]
  <2>1. CASE EvaluationReturns(r) \/ EvaluationThrows(r)
    BY <2>1 DEF EvaluationReturns, EvaluationThrows, ladderVars
  <2>2. CASE SendThrows(r)
    BY <1>2, <2>2 DEF SendThrows
  <2> QED BY <2>1, <2>2
<1>4. Flying' \subseteq Flying \ {r.job}
  BY <1>1, <1>3, FlyingLoses
<1>5. CASE UNCHANGED <<dayCount, daySent>>
  BY <1>1, <1>2, <1>4, <1>5, CapQuiet
<1>6. CASE evals[r.job].pc = "record" /\ CountStudent
  <2>1. r.job \in Flying
    BY <1>1, <1>2, <1>6 DEF Flying, Handled, Unrecorded
  <2>2. Flying' \subseteq Flying /\ Cardinality(Flying') + 1 <= Cardinality(Flying)
    <3>1. PICK F, G : F = Flying /\ G = Flying'
      OBVIOUS
    <3>2. IsFiniteSet(F) /\ Cardinality(F) \in Nat
      BY <3>1, FlyingBounded
    <3>3. IsFiniteSet(F \ {r.job}) /\ Cardinality(F \ {r.job}) = Cardinality(F) - 1
      BY <2>1, <3>1, <3>2, FS_RemoveElement
    <3>4. IsFiniteSet(G) /\ Cardinality(G) <= Cardinality(F \ {r.job})
      BY <1>4, <3>1, <3>3, FS_Subset
    <3> QED BY <1>4, <3>1, <3>2, <3>3, <3>4, FS_CardinalityType
  <2>3. PICK c \in Nat \ {0} : c = 1
    OBVIOUS
  <2>4. /\ dayCount' = [dayCount EXCEPT ![Today] = @ + 1]
        /\ daySent' = [daySent EXCEPT ![Today] = @ + c]
    BY <1>6, <2>3 DEF CountStudent
  <2> QED BY <1>1, <1>2, <2>2, <2>3, <2>4, CapRecords
<1>7. UNCHANGED <<dayCount, daySent>> \/ (evals[r.job].pc = "record" /\ CountStudent)
  BY DEF EvaluationReturns, EvaluationThrows, SendThrows, ladderVars
<1> QED BY <1>5, <1>6, <1>7

\* Sends are recorded, one or several at once.
LEMMA CapSends ==
  ASSUME LadderInv, CountInv, JobInv, BoundedOvershoot, CapInv, NEW S \in SUBSET runs,
         RecordsRace(S) \/ \E r \in runs : S = {r} /\ RecordSend(r)
  PROVE  CapInv'
<1>1. /\ UNCHANGED <<runs, now>> /\ LadderTypeOK /\ Today \in Days
      /\ \A r \in S : At(r, "record")
  BY TodayIsADay DEF RecordsRace, RecordSend, LadderInv, vars, workerVars
<1>2. PICK c : c = Cardinality(S)
  OBVIOUS
<1>3. /\ c \in Nat \ {0} /\ IsFiniteSet(S)
      /\ dayCount' = [dayCount EXCEPT ![Today] = @ + 1]
      /\ daySent' = [daySent EXCEPT ![Today] = @ + c]
      /\ c = 1 \/ dayCount[Today] = 0
  <2>1. IsFiniteSet(S) /\ c \in Nat
    BY <1>2, FS_Subset, FS_CardinalityType DEF CountInv
  <2>2. CASE RecordsRace(S)
    <3>1. dayCount[Today] = 0 /\ c > 1
      BY <1>2, <2>2 DEF RecordsRace
    <3>2. dayCount' = [dayCount EXCEPT ![Today] = @ + 1]
      BY <2>2, <3>1 DEF RecordsRace
    <3>3. daySent' = [daySent EXCEPT ![Today] = @ + c]
      BY <1>2, <2>2 DEF RecordsRace
    <3> QED BY <2>1, <3>1, <3>2, <3>3
  <2>3. ASSUME NEW r \in runs, S = {r}, RecordSend(r) PROVE <1>3
    <3>1. c = 1
      BY <1>2, <2>3, FS_Singleton
    <3> QED BY <2>1, <2>3, <3>1 DEF RecordSend, CountStudent
  <2> QED BY <2>2, <2>3
<1>4. evals \in [Jobs -> Eval] /\ \A r \in S : r.job \in Jobs /\ r.pc = "handling"
  BY <1>1, HandledJob DEF LadderTypeOK, At
<1>5. evals' = [j \in Jobs |-> IF \E r \in S : r.job = j
                               THEN AfterStudent(evals[j], TRUE) ELSE evals[j]]
  <2>1. CASE RecordsRace(S)
    BY <2>1 DEF RecordsRace
  <2>2. ASSUME NEW r \in runs, S = {r}, RecordSend(r) PROVE <1>5!1 = <1>5!2
    BY <1>4, <2>2 DEF RecordSend
  <2> QED BY <2>1, <2>2
<1>6. PICK J : J = {j \in Jobs : \E r \in S : r.job = j}
  OBVIOUS
<1>7. J \subseteq Flying
  BY <1>1, <1>4, <1>6 DEF Flying, Handled, Unrecorded, At
<1>8. Flying' \subseteq Flying \ J
  <2>1. \A k \in Jobs : Handled(k)' <=> Handled(k)
    BY <1>1 DEF Handled
  <2>2. \A k \in J : ~Unrecorded(evals'[k])
    BY <1>4, <1>5, <1>6, AfterStudentDone
  <2>3. \A k \in Jobs \ J : evals'[k] = evals[k]
    BY <1>5, <1>6
  <2>4. \A k \in Jobs : k \in Flying' <=> Handled(k) /\ Unrecorded(evals'[k])
    BY <2>1 DEF Flying, Unrecorded
  <2> QED BY <2>2, <2>3, <2>4 DEF Flying
<1>9. Cardinality(J) = c /\ IsFiniteSet(J)
  <2> DEFINE h == [r \in S |-> r.job]
  <2>1. h \in Surjection(S, J)
    BY <1>4, <1>6 DEF Surjection
  <2>2. h \in Injection(S, J)
    <3>1. \A q, r \in S : q.job = r.job => q = r
      BY <1>4, HandledJob
    <3> QED BY <1>4, <1>6, <3>1 DEF Injection, IsInjective
  <2> HIDE DEF h
  <2> QED BY <1>2, <1>3, <2>1, <2>2, FS_Surjection
<1>10. Flying' \subseteq Flying /\ Cardinality(Flying') + c <= Cardinality(Flying)
  <2>1. PICK F, G : F = Flying /\ G = Flying'
    OBVIOUS
  <2>2. IsFiniteSet(F) /\ Cardinality(F) \in Nat
    BY <2>1, FlyingBounded
  <2>3. F \intersect J = J
    BY <1>7, <2>1
  <2>4. IsFiniteSet(F \ J) /\ Cardinality(F \ J) = Cardinality(F) - c
    <3>1. IsFiniteSet(F \ J) /\ Cardinality(F \ J) = Cardinality(F) - Cardinality(F \intersect J)
      BY <2>2, FS_Difference
    <3> QED BY <1>9, <2>3, <3>1
  <2>5. IsFiniteSet(G) /\ Cardinality(G) <= Cardinality(F \ J)
    BY <1>8, <2>1, <2>4, FS_Subset
  <2> QED BY <1>3, <1>8, <2>1, <2>2, <2>4, <2>5, FS_CardinalityType
<1> QED BY <1>1, <1>3, <1>10, CapRecords

LEMMA CapNext ==
  ASSUME LadderInv, CountInv, JobInv, BoundedOvershoot, CapInv,
         CountInv', BoundedOvershoot', [LadderNext]_allVars
  PROVE  CapInv'
<1>0. LadderTypeOK
  BY DEF LadderInv
<1>1. ASSUME Quietly, UNCHANGED <<evals, now, dayCount, daySent>> PROVE CapInv'
  <2>1. \A k \in Jobs : Handled(k)' => Handled(k)
    BY <1>1 DEF Quietly, Handled
  <2>2. Flying' \subseteq Flying
    BY <1>1, <2>1 DEF Flying, Unrecorded
  <2> QED BY <1>0, <1>1, <2>2, CapQuiet
<1>2. ASSUME UNCHANGED <<runs, evals, now, dayCount, daySent>> PROVE CapInv'
  <2>1. Flying' = Flying
    BY <1>2 DEF Flying, Handled, Unrecorded
  <2> QED BY <1>0, <1>2, <2>1, CapQuiet
<1>3. CASE WorkerStep
  <2>1. Quietly /\ UNCHANGED ladderVars
    BY <1>3, WorkerIsQuiet DEF WorkerStep
  <2> QED BY <1>1, <2>1 DEF ladderVars
<1>4. CASE UNCHANGED allVars
  BY <1>2, <1>4 DEF allVars, vars, workerVars, ladderVars
<1>5. ASSUME NEW j \in Jobs, Schedule(j) PROVE CapInv'
  BY <1>2, <1>5 DEF Schedule, workerVars, ladderVars
<1>6. ASSUME NEW a \in Assignments, Submit(a) PROVE CapInv'
  BY <1>2, <1>6 DEF Submit, vars, workerVars
<1>7. CASE Tick
  BY <1>0, <1>7, CapTick
<1>8. ASSUME NEW S \in SUBSET runs, RecordsRace(S) PROVE CapInv'
  BY <1>8, CapSends
<1>9. ASSUME NEW r \in runs, EvaluationStep(r) PROVE CapInv'
  <2>1. CASE RecordSend(r)
    <3>1. {r} \in SUBSET runs
      OBVIOUS
    <3> QED BY <2>1, <3>1, CapSends
  <2> QED BY <1>9, <2>1, CapReads, CapOver DEF EvaluationStep
<1>10. ASSUME NEW w \in Workers, NEW t \in Types, NEW j \in Jobs, ClaimGuidance(w, t, j)
       PROVE  CapInv'
  <2>1. /\ runs' = runs \union {[job |-> j, nth |-> claims[j] + 1, worker |-> w,
                                 pc |-> "handling", seen |-> 0]}
        /\ UNCHANGED <<now, dayCount, daySent>>
    BY <1>10 DEF ClaimGuidance, Claim
  <2>2. PICK q \in QuietWindows : evals' = [evals EXCEPT ![j] = Fresh(j, claims[j] + 1, q)]
    BY <1>10 DEF ClaimGuidance
  <2>3. evals \in [Jobs -> Eval] /\ Fresh(j, claims[j] + 1, q).pc = "status"
    BY <1>0 DEF LadderTypeOK, Fresh
  <2>4. \A k \in Jobs : k # j => (Handled(k)' <=> Handled(k)) /\ evals'[k] = evals[k]
    BY <2>1, <2>2, <2>3 DEF Handled
  <2>5. ~Unrecorded(evals'[j])
    BY <2>2, <2>3 DEF Unrecorded
  <2>6. \A k \in Jobs : k \in Flying' <=> Handled(k)' /\ Unrecorded(evals'[k])
    BY DEF Flying, Unrecorded
  <2>7. Flying' \subseteq Flying
    BY <2>4, <2>5, <2>6 DEF Flying
  <2> QED BY <1>0, <2>1, <2>7, CapQuiet
<1> QED BY <1>3, <1>4, <1>5, <1>6, <1>7, <1>8, <1>9, <1>10 DEF LadderNext

LEMMA CapInit ==
  ASSUME LadderInit, CountInv, BoundedOvershoot
  PROVE  CapInv
<1>1. Flying = {}
  BY DEF LadderInit, Init, Flying, Handled
<1>2. PICK f : f = Cardinality(Flying)
  OBVIOUS
<1>3. f = 0
  BY <1>1, <1>2, FS_EmptySet
<1>4. MostInFlight \in Nat \ {0}
  BY RunsBounded
<1>5. ASSUME NEW d \in Days PROVE Tallied(d, dayCount[d], daySent[d], f)
  <2>1. dayCount[d] = 0 /\ daySent[d] = 0
    BY DEF LadderInit
  <2> QED BY <1>3, <1>4, <2>1, CapIs DEF Tallied
<1> QED BY <1>1, <1>2, <1>5 DEF CapInv

LEMMA CapInvAlways == LadderSpec => [](LadderInv /\ CountInv /\ BoundedOvershoot /\ CapInv)
<1>1. LadderSpec => []BoundedOvershoot
  BY LadderImplementsWorker, OvershootBounded, PTL DEF ImplementsWorker
<1>2. LadderInit /\ CountInv /\ BoundedOvershoot => CapInv
  BY CapInit
<1>3. LadderInv /\ CountInv /\ JobInv /\ BoundedOvershoot /\ CapInv
      /\ CountInv' /\ BoundedOvershoot' /\ [LadderNext]_allVars
        => CapInv'
  BY CapNext
<1> QED BY <1>1, <1>2, <1>3, WorkerInvariants, LadderInvAlways, PTL DEF LadderSpec

(***************************************************************************)
(* The reminders recorded for a student on a day exceed                    *)
(* maxStudentPushesPerDay by less than the evaluations that can be in      *)
(* flight, or twice that number, for any number of processes, jobs,        *)
(* crashes and retries.                                                    *)
(***************************************************************************)
THEOREM DailyCapHolds == LadderSpec => []DailyCapOvershoot
<1>1. LadderInv /\ CountInv /\ BoundedOvershoot /\ CapInv => DailyCapOvershoot
  <2> SUFFICES ASSUME LadderInv, CountInv, BoundedOvershoot, CapInv, NEW d \in Days
               PROVE  daySent[d] <= Cap
    BY DEF DailyCapOvershoot, Cap
  <2>1. PICK n, s, f : n = dayCount[d] /\ s = daySent[d] /\ f = Cardinality(Flying)
    OBVIOUS
  <2>2. /\ n \in Nat /\ s \in Nat /\ f \in Nat /\ Tallied(d, n, s, f)
        /\ MostInFlight \in Nat \ {0} /\ Today \in Int /\ d \in Int
    <3>1. Today \in Int /\ d \in Int
      BY LadderConstants DEF LadderInv, LadderTypeOK, Today, Days, Day
    <3> QED BY <2>1, <3>1, RunsBounded, FlyingBounded DEF CapInv, LadderInv, LadderTypeOK
  <2>3. CASE d < Today
    BY <2>1, <2>3, <2>2 DEF Tallied
  <2>4. CASE n = 0
    BY <2>1, <2>2, <2>4, CapIs DEF Tallied
  <2>5. CASE d = Today /\ n >= MaxStudent
    BY <2>1, <2>2, <2>5, CapIs DEF Tallied
  <2>6. CASE d = Today /\ n > 0 /\ n < MaxStudent
    <3>1. s <= n + (MostInFlight - 1)
      BY <2>2, <2>6 DEF Tallied
    <3> QED BY <2>1, <2>2, <2>6, <3>1, CapIs
  <2>7. d > Today => n = 0
    BY <2>2 DEF Tallied
  <2>8. MaxStudent \in Nat
    BY LadderConstants
  <2> QED BY <2>2, <2>3, <2>4, <2>5, <2>6, <2>7, <2>8
<1> QED BY <1>1, CapInvAlways, PTL
=============================================================================
