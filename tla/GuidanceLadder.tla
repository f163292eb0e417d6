---------------------------- MODULE GuidanceLadder ----------------------------
(***************************************************************************)
(* The reminder ladder: an ingest schedules a guidance job for every step  *)
(* of an assignment's ladder that lies ahead (enqueueGuidanceJobs), and a  *)
(* worker evaluates each job when it is due (GuidanceLadder.evaluate): the *)
(* evaluation finds out again which step it is, whether the work is handed *)
(* in, whether the step was sent, and how many reminders the student got   *)
(* today, each in a command of its own.                                    *)
(*                                                                         *)
(* The module extends NotificationWorker: an evaluation is what one        *)
(* execution of a guidance job does while its pc is "handling", and can be *)
(* cut short and repeated like any other.  The assignments are those of    *)
(* one student; nothing here is shared between students.  Time is counted  *)
(* in half hours of the assignment's time zone, from a midnight.           *)
(***************************************************************************)
EXTENDS NotificationWorker, Integers

CONSTANTS
  Assignments,
  DueAt,        \* [Assignments -> Nat], the dueAt in the job's data
  Copies,       \* ingests: each one enqueues the steps ahead once more
  Instants,     \* bound: the values the clock may take
  DayShift,     \* the half hours by which New York, whose calendar the count
                \* of a day goes by, is ahead of the assignment's zone
  MaxStudent,   \* maxStudentPushesPerDay
  QuietWindows  \* the <<start, end>> hours the parent may have set

Steps == {"t48h", "t18h", "t12h", "t72h"}
AssignmentOf(j) == j[1]
StepOf(j) == j[2]

Day == 48
Days == {(t + DayShift) \div Day : t \in Instants}

\* Nothing in production calls resetStalledJobs, so there is no sweep.
ASSUME LadderConstants ==
  /\ Jobs \subseteq Assignments \X Steps \X Copies
  /\ DueAt \in [Assignments -> Nat]
  /\ Instants \subseteq Nat
  /\ DayShift \in Nat
  /\ MaxStudent \in Nat
  /\ QuietWindows \subseteq (0 .. 23) \X (0 .. 23)
  /\ "sweep" \notin Faults
  /\ IsFiniteSet(Workers) /\ Workers # {} /\ Types # {}

VARIABLES
  now,       \* the clock
  submitted, \* assignments whose record says submitted or graded
  logged,    \* guidance_sends: the <<assignment, step>> marked sent
  dayCount,  \* guidance_student_days: the count that is found for a day
  daySent,   \* history: how many sends of a day were recorded
  evals      \* of each job, its latest evaluation

ladderVars == <<now, submitted, logged, dayCount, daySent, evals>>
allVars == <<vars, ladderVars>>

(***************************************************************************)
(* nth is the execution the evaluation belongs to, pc the command it is    *)
(* about to issue, step what the clock said, aud the audience the loop is  *)
(* at, sentAny as in the code.  History: whom it reminded, and, from when  *)
(* its job was claimed, whether the work was handed in and what was logged.*)
(***************************************************************************)
Eval == [nth : Nat,
         pc : {"status", "step", "hour", "cap", "send", "record", "mark", "done"},
         step : Steps \union {"none"}, aud : {"student", "parent"},
         quiet : QuietWindows, sentAny : BOOLEAN,
         reminded : SUBSET {"student", "parent"},
         late : BOOLEAN, known : SUBSET Steps]

LadderTypeOK ==
  /\ TypeOK
  /\ now \in Instants
  /\ submitted \in SUBSET Assignments
  /\ logged \in SUBSET (Assignments \X Steps)
  /\ dayCount \in [Days -> Nat]
  /\ daySent \in [Days -> Nat]
  /\ evals \in [Jobs -> Eval]

\* The evaluation the n-th execution of j starts with; the parent's quiet
\* hours are loaded first.
Fresh(j, n, q) ==
  [nth |-> n, pc |-> "status", step |-> "none", aud |-> "student",
   quiet |-> q, sentAny |-> FALSE, reminded |-> {},
   late |-> AssignmentOf(j) \in submitted,
   known |-> {s \in Steps : <<AssignmentOf(j), s>> \in logged}]

LadderInit ==
  /\ Init
  /\ now \in Instants
  /\ \A t \in Instants : now <= t
  /\ submitted = {}
  /\ logged = {}
  /\ dayCount = [d \in Days |-> 0]
  /\ daySent = [d \in Days |-> 0]
  /\ \E q \in QuietWindows : evals = [j \in Jobs |-> Fresh(j, 0, q)]

-----------------------------------------------------------------------------
(* Time. *)

LocalHour == (now \div 2) % 24
Today == (now + DayShift) \div Day

\* How long before the due date a step lies.
Ahead(s) ==
  CASE s = "t48h" -> 96
    [] s = "t18h" -> 36
    [] s = "t12h" -> -24
    [] s = "t72h" -> -144

\* resolveLadderStep: within 0.51 h of the step.
AtStep(a, s) == DueAt[a] - now - Ahead(s) \in {-1, 0, 1}

SendHour == 16

\* scheduleGuidanceSteps: the first two steps move to 16:00 of their day.
FireTime(j) ==
  LET raw == DueAt[AssignmentOf(j)] - Ahead(StepOf(j))
  IN IF StepOf(j) \in {"t48h", "t18h"}
     THEN (raw \div Day) * Day + 2 * SendHour
     ELSE raw

\* isQuietHour: no window, or one that may span midnight.
IsQuiet(h, q) ==
  \/ q[1] < q[2] /\ q[1] <= h /\ h < q[2]
  \/ q[1] > q[2] /\ (q[1] <= h \/ h < q[2])

Tick ==
  /\ \E t \in Instants :
       /\ now < t
       /\ \A u \in Instants : now < u => t <= u
       /\ now' = t
  /\ UNCHANGED <<vars, submitted, logged, dayCount, daySent, evals>>

-----------------------------------------------------------------------------
(* The API: an ingest schedules the steps ahead; a later one brings the    *)
(* news that the work is handed in.                                        *)

Schedule(j) ==
  /\ now < FireTime(j)
  /\ Add(j)
  /\ ~due'[j]
  /\ UNCHANGED <<workerVars, ladderVars>>

Submit(a) ==
  /\ a \notin submitted
  /\ submitted' = submitted \union {a}
  /\ UNCHANGED <<vars, now, logged, dayCount, daySent, evals>>

-----------------------------------------------------------------------------
(* An evaluation. *)

ClaimGuidance(w, t, j) ==
  /\ Claim(w, t, j)
  /\ \E q \in QuietWindows :
       evals' = [evals EXCEPT ![j] = Fresh(j, claims[j] + 1, q)]
  /\ UNCHANGED <<now, submitted, logged, dayCount, daySent>>

At(r, pc) == r.pc = "handling" /\ evals[r.job].pc = pc

Goto(r, pc) == evals' = [evals EXCEPT ![r.job].pc = pc]

\* Variant: an evaluation trusts what held when the job was scheduled.
ReadStatusUnused(r) ==
  /\ At(r, "status")
  /\ Goto(r, "step")
  /\ UNCHANGED <<vars, now, submitted, logged, dayCount, daySent>>

\* state.status: nothing to do once submitted or graded.
ReadStatus(r) ==
  /\ At(r, "status")
  /\ Goto(r, IF AssignmentOf(r.job) \in submitted THEN "done" ELSE "step")
  /\ UNCHANGED <<vars, now, submitted, logged, dayCount, daySent>>

\* The clock says which step it is, not the job; log.alreadySent.
ResolveStep(r) ==
  LET a == AssignmentOf(r.job)
  IN /\ At(r, "step")
     /\ \/ /\ \A s \in Steps : ~AtStep(a, s)
           /\ Goto(r, "done")
        \/ \E s \in Steps :
             /\ AtStep(a, s)
             /\ evals' = [evals EXCEPT
                  ![r.job].step = s,
                  ![r.job].pc = IF <<a, s>> \in logged THEN "done" ELSE "hour"]
     /\ UNCHANGED <<vars, now, submitted, logged, dayCount, daySent>>

\* 16:00 only for the first two steps, never in quiet hours; then the first
\* audience, whose count of the day is the next command.
CheckHour(r) ==
  LET e == evals[r.job]
      goes == /\ e.step \in {"t48h", "t18h"} => LocalHour = SendHour
              /\ ~IsQuiet(LocalHour, e.quiet)
  IN /\ At(r, "hour")
     /\ evals' = [evals EXCEPT
          ![r.job].pc = IF ~goes THEN "done"
                        ELSE IF e.step = "t72h" THEN "send" ELSE "cap",
          ![r.job].aud = IF e.step = "t72h" THEN "parent" ELSE "student"]
     /\ UNCHANGED <<vars, now, submitted, logged, dayCount, daySent>>

\* The loop goes on behind the student: on to the parent, to the mark, or out.
AfterStudent(e, sentAny) ==
  IF e.step = "t12h"
  THEN [e EXCEPT !.aud = "parent", !.pc = "send", !.sentAny = sentAny]
  ELSE [e EXCEPT !.pc = IF sentAny THEN "mark" ELSE "done", !.sentAny = sentAny]

\* Variant: > instead of >= .
CapReachedLate(n) == n > MaxStudent

CapReached(n) == n >= MaxStudent

\* log.studentLadderSendsToday
ReadCap(r) ==
  /\ At(r, "cap")
  /\ IF CapReached(dayCount[Today])
     THEN evals' = [evals EXCEPT ![r.job] = AfterStudent(@, @.sentAny)]
     ELSE Goto(r, "send")
  /\ UNCHANGED <<vars, now, submitted, logged, dayCount, daySent>>

\* sink.send: without an address it returns as if it had sent.
Send(r) ==
  LET e == evals[r.job]
  IN /\ At(r, "send")
     /\ \E told \in {{}, {e.aud}} :
          evals' = [evals EXCEPT
            ![r.job].reminded = @ \union told,
            ![r.job].sentAny = (e.aud = "parent") \/ @,
            ![r.job].pc = IF e.aud = "student" THEN "record" ELSE "mark"]
     /\ UNCHANGED <<vars, now, submitted, logged, dayCount, daySent>>

CountStudent ==
  /\ dayCount' = [dayCount EXCEPT ![Today] = @ + 1]
  /\ daySent' = [daySent EXCEPT ![Today] = @ + 1]

\* log.recordStudentLadderSend, on whatever day it is by now.
RecordSend(r) ==
  /\ At(r, "record")
  /\ CountStudent
  /\ evals' = [evals EXCEPT ![r.job] = AfterStudent(@, TRUE)]
  /\ UNCHANGED <<vars, now, submitted, logged>>

\* No index makes <<student, day>> unique: the upserts of several evaluations
\* that race before the day has a document each insert one, and from then on
\* only one of them is found.
RecordsRace(S) ==
  /\ Cardinality(S) > 1
  /\ \A r \in S : At(r, "record")
  /\ dayCount[Today] = 0
  /\ dayCount' = [dayCount EXCEPT ![Today] = 1]
  /\ daySent' = [daySent EXCEPT ![Today] = @ + Cardinality(S)]
  /\ evals' = [j \in Jobs |-> IF \E r \in S : r.job = j
                              THEN AfterStudent(evals[j], TRUE)
                              ELSE evals[j]]
  /\ UNCHANGED <<vars, now, submitted, logged>>

MarkStep(j) == logged' = logged \union {<<AssignmentOf(j), evals[j].step>>}

\* Variant: the loop is left without the mark.
MarkSentForgotten(r) ==
  /\ At(r, "mark")
  /\ Goto(r, "done")
  /\ UNCHANGED <<vars, now, submitted, logged, dayCount, daySent>>

\* log.markSent
MarkSent(r) ==
  /\ At(r, "mark")
  /\ MarkStep(r.job)
  /\ Goto(r, "done")
  /\ UNCHANGED <<vars, now, submitted, dayCount, daySent>>

EvaluationReturns(r) ==
  /\ At(r, "done")
  /\ HandlerReturns(r)
  /\ UNCHANGED ladderVars

\* A command fails before or after it had its effect, or the sink throws: the
\* job is failed, and retried from the status on.
EvaluationThrows(r) ==
  LET e == evals[r.job]
  IN /\ \E pc \in {"status", "step", "cap", "record", "mark"} :
          At(r, pc) /\ "dbError" \in Faults
     /\ HandlerThrows(r)
     /\ \/ UNCHANGED <<logged, dayCount, daySent>>
        \/ e.pc = "record" /\ CountStudent /\ UNCHANGED logged
        \/ e.pc = "mark" /\ MarkStep(r.job) /\ UNCHANGED <<dayCount, daySent>>
     /\ UNCHANGED <<now, submitted, evals>>

SendThrows(r) ==
  /\ At(r, "send")
  /\ HandlerThrows(r)
  /\ \E told \in {{}, {evals[r.job].aud}} :
       evals' = [evals EXCEPT ![r.job].reminded = @ \union told]
  /\ UNCHANGED <<now, submitted, logged, dayCount, daySent>>

EvaluationStep(r) ==
  \/ ReadStatus(r)
  \/ ResolveStep(r)
  \/ CheckHour(r)
  \/ ReadCap(r)
  \/ Send(r)
  \/ RecordSend(r)
  \/ MarkSent(r)
  \/ EvaluationReturns(r)
  \/ EvaluationThrows(r)
  \/ SendThrows(r)

-----------------------------------------------------------------------------
(* Everything else is the worker's and the queue's; nobody cancels a       *)
(* guidance job.                                                           *)
QueueSteps(j) ==
  \/ Cleanup(j)
  \/ TtlExpire(j)
  \/ FireTime(j) <= now /\ BecomeDue(j)

LoopSteps(w, t) ==
  \/ Poll(w, t)
  \/ LoopEnds(w, t)
  \/ ClaimNothing(w, t)
  \/ \E j \in Jobs : ClaimReplyLost(w, t, j)

WorkerStep ==
  /\ \/ \E j \in Jobs : QueueSteps(j) /\ UNCHANGED workerVars
     \/ \E w \in Workers : Lifetime(w)
     \/ \E w \in Workers, t \in Types : LoopSteps(w, t)
     \/ \E r \in runs : r.pc # "handling" /\ RunStep(r)
  /\ UNCHANGED ladderVars

LadderNext ==
  \/ Tick
  \/ \E j \in Jobs : Schedule(j)
  \/ \E a \in Assignments : Submit(a)
  \/ \E w \in Workers, t \in Types, j \in Jobs : ClaimGuidance(w, t, j)
  \/ \E r \in runs : EvaluationStep(r)
  \/ \E S \in SUBSET runs : RecordsRace(S)
  \/ WorkerStep

LadderSpec == LadderInit /\ [][LadderNext]_allVars

-----------------------------------------------------------------------------
(* Properties. *)

\* The count is read in one command and raised in another, after the mail, and
\* the first sends of a day may be counted as one: the cap can be exceeded, by
\* less than the number of evaluations the workers can have in flight, and, if
\* it lets more than one reminder through, by less than twice that number;
\* crashes, retries and midnight do not add to it.
MostInFlight == Cardinality(Workers) * (Concurrency + Cardinality(Types) - 1)
DailyCapOvershoot ==
  \A d \in Days :
    daySent[d] <= MaxStudent + (IF MaxStudent > 1 THEN 2 ELSE 1) * (MostInFlight - 1)

\* A job that ends as completed after reminding somebody has its step in the
\* log: whatever failed on the way, no later job repeats it.
ReminderIsLogged ==
  \A j \in Jobs : status[j] = "completed" =>
    /\ evals[j].nth = claims[j]
    /\ evals[j].reminded # {} => <<AssignmentOf(j), evals[j].step>> \in logged

\* "Re-checks LMS status at send time": an execution claimed after the work was
\* handed in, or after its step was logged by this job's earlier execution or
\* by another copy of the job, reminds nobody.
SettledStepIsSilent ==
  \A j \in Jobs : evals[j].reminded # {} =>
    /\ ~evals[j].late
    /\ evals[j].step \notin evals[j].known

\* scheduleGuidanceSteps, "Future ladder fire times": a job that is evaluated
\* at the very time it was scheduled for is found to be at its step.
FiresAtItsStep ==
  [][\A j \in Jobs :
       /\ evals[j].pc = "step"
       /\ evals'[j].pc # "step"
       /\ evals'[j].nth = evals[j].nth
       /\ now = FireTime(j)
       => evals'[j].step = StepOf(j)]_allVars

\* Evaluations are ordinary executions of the worker.
ImplementsWorker == Spec
=============================================================================
