--------------------------- MODULE AlertFanoutProofs ---------------------------
(***************************************************************************)
(* Theorems about AlertFanout.  First the refinement: a step of a pass or  *)
(* of a delivery is a step of NotificationWorker, so all that is proved    *)
(* there holds here.  On top of its CountInv and JobInv the invariant of   *)
(* the fan-out says, of each alert, where its latest pass has got to, and, *)
(* of each deliver job, that a mail belongs to an execution.               *)
(***************************************************************************)
EXTENDS AlertFanout, NotificationWorkerProofs

\* The handlers' steps, seen from the worker.
LEMMA PassIsWorkerStep ==
  ASSUME NEW r \in runs, PassStep(r)
  PROVE  [Next]_vars
<1>1. CASE Resolve(r) \/ ResolveFails(r) \/ ReadPreference(r) \/ QueueForDigest(r)
           \/ QueueForDigestThrows(r)
  BY <1>1 DEF Resolve, ResolveFails, BeginPass, ReadPreference, QueueForDigest,
     QueueForDigestThrows
<1>2. ASSUME NEW p \in Entries, AddDeliverJob(r, p) PROVE [Next]_vars
  BY <1>2, FanoutConstants DEF AddDeliverJob, Next, QueueStep
<1>3. CASE PassThrows(r) \/ PassEnds(r)
  BY <1>3 DEF PassThrows, PassEnds, Next, RunStep
<1> QED BY <1>1, <1>2, <1>3 DEF PassStep, QueueDeliver, QueueDeliverThrows

LEMMA FanIsWorkerStep == [FanNext]_allVars => [Next]_vars
<1> SUFFICES ASSUME [FanNext]_allVars PROVE [Next]_vars
  OBVIOUS
<1>1. CASE WorkerStep
  BY <1>1, FanoutConstants DEF WorkerStep, Next, QueueStep
<1>2. ASSUME NEW r \in runs, DeliverStep(r) PROVE [Next]_vars
  BY <1>2 DEF DeliverStep, DeliverMails, DeliverSkips, DeliverThrows, Next, RunStep
<1>3. CASE UNCHANGED allVars
  BY <1>3 DEF allVars
<1> QED BY <1>1, <1>2, <1>3, PassIsWorkerStep DEF FanNext

\* Fan-out and delivery are executions of NotificationWorker.
THEOREM FanoutImplementsWorker == FanSpec => ImplementsWorker
<1>1. FanInit => Init
  BY DEF FanInit
<1> QED BY <1>1, FanIsWorkerStep, PTL DEF FanSpec, Spec, ImplementsWorker

LEMMA WorkerInvariants ==
  ASSUME "sweep" \notin Faults
  PROVE  FanSpec => [](CountInv /\ JobInv)
BY FanoutImplementsWorker, JobAlways, PTL DEF ImplementsWorker

-----------------------------------------------------------------------------
(* What the worker's own steps leave true for the fan-out: no document     *)
(* goes back to being absent, deliver jobs appear in no other way than     *)
(* through a handler, a job is completed by an execution whose handler has *)
(* returned, and an execution reaches the handler only by a claim.         *)
WorkerFacts ==
  /\ \A d \in DeliverJobs : status'[d] = "absent" <=> status[d] = "absent"
  /\ \A j \in Jobs : status'[j] = "completed" =>
       /\ claims'[j] = claims[j]
       /\ \/ status[j] = "completed"
          \/ \E r \in runs : r.job = j /\ r.pc = "completing"
  /\ \A j \in Jobs : claims'[j] >= claims[j]
  /\ \A s \in runs' :
       \/ /\ claims'[s.job] = claims[s.job]
          /\ \E r \in runs : /\ r.job = s.job
                             /\ r.nth = s.nth
                             /\ s.pc \in {"handling", "completing"} => r.pc = s.pc
       \/ /\ s.pc = "handling"
          /\ s.nth = claims[s.job] + 1
          /\ claims'[s.job] = claims[s.job] + 1

LEMMA WorkerStepFacts ==
  ASSUME CountInv, JobInv, WorkerStep
  PROVE  WorkerFacts
<1>0. /\ TypeOK
      /\ status \in [Jobs -> Statuses]
      /\ claims \in [Jobs -> Nat]
      /\ runs \subseteq Run
      /\ \A d \in DeliverJobs : d \in Jobs /\ d \notin Alerts
  BY FanoutConstants DEF CountInv, TypeOK, QueueTypeOK
<1>1. ASSUME NEW j \in Jobs, UNCHANGED workerVars,
             \/ j \in Alerts /\ QueueStep(j)
             \/ Cleanup(j) \/ ResetStalled(j) \/ TtlExpire(j) \/ BecomeDue(j) \/ BecomeStale(j)
      PROVE  WorkerFacts
  <2>1. \A s \in runs : s.job \in Jobs
    BY <1>0 DEF Run
  <2>2. /\ \A d \in DeliverJobs : status'[d] = "absent" <=> status[d] = "absent"
        /\ \A k \in Jobs : status'[k] = "completed" => status[k] = "completed"
    BY <1>0, <1>1 DEF QueueStep, Add, Cancel, Cleanup, ResetStalled, TtlExpire,
       BecomeDue, BecomeStale, Stored
  <2> QED BY <1>0, <1>1, <2>1, <2>2 DEF WorkerFacts, workerVars
<1>2. ASSUME NEW w \in Workers, Lifetime(w) PROVE WorkerFacts
  <2>1. /\ UNCHANGED <<status, claims>>
        /\ runs' \subseteq runs
    BY <1>2 DEF Lifetime, Start, Crash, Exit, Die, StopRequested, StopDrained,
       StopReturns, queueVars
  <2> QED BY <1>0, <2>1 DEF WorkerFacts, Run
<1>3. ASSUME NEW w \in Workers, NEW t \in Types, LoopStep(w, t) PROVE WorkerFacts
  <2>1. CASE Poll(w, t) \/ LoopEnds(w, t) \/ ClaimNothing(w, t)
    <3>1. UNCHANGED <<status, claims, runs>>
      BY <2>1 DEF Poll, LoopEnds, ClaimNothing, queueVars
    <3> QED BY <1>0, <3>1 DEF WorkerFacts, Run
  <2>2. ASSUME NEW j \in Jobs, Claim(w, t, j) \/ ClaimReplyLost(w, t, j)
        PROVE  WorkerFacts
    <3>1. /\ status[j] = "pending"
          /\ status' = [status EXCEPT ![j] = "processing"]
          /\ claims' = [claims EXCEPT ![j] = @ + 1]
      BY <2>2 DEF Claim, ClaimReplyLost, LockJob, NextJobs, Claimable
    <3>2. \A r \in runs : r.job \in Jobs /\ r.job # j
      BY <1>0, <3>1 DEF JobInv, RunHoldsJob, Run
    <3>3. \/ runs' = runs
          \/ runs' = runs \union {[job |-> j, nth |-> claims[j] + 1, worker |-> w,
                                    pc |-> "handling", seen |-> 0]}
      BY <2>2 DEF Claim, ClaimReplyLost
    <3> QED BY <1>0, <3>1, <3>2, <3>3 DEF WorkerFacts
  <2> QED BY <1>3, <2>1, <2>2 DEF LoopStep
<1>4. ASSUME NEW r \in runs, r.pc # "handling", RunStep(r) PROVE WorkerFacts
  <2>1. /\ r.job \in Jobs
        /\ claims' = claims
        /\ status' = status \/ \E v \in Statuses : status' = [status EXCEPT ![r.job] = v]
        /\ status[r.job] = "absent" <=> status'[r.job] = "absent"
        /\ status'[r.job] = "completed" => status[r.job] = "completed" \/ r.pc = "completing"
    BY <1>0, <1>4 DEF RunStep, HandlerReturns, HandlerThrows, Complete, CompleteThrows,
       FailReads, FailFindsNothing, FailWrites, FailThrows, SetCompleted, SetFailed,
       Exhausted, Stored, queueVars, Run, Statuses
  <2>2. \A s \in runs' : s \in runs \/ (/\ s.job = r.job
                                        /\ s.nth = r.nth
                                        /\ s.pc \in {"failing", "recording"})
    BY <1>0, <1>4 DEF RunStep, HandlerReturns, HandlerThrows, Complete, CompleteThrows,
       FailReads, FailFindsNothing, FailWrites, FailThrows, Settles, Advance, Run
  <2>3. \A s \in runs' : claims'[s.job] = claims[s.job]
    BY <2>1
  <2> QED BY <1>0, <2>1, <2>2, <2>3 DEF WorkerFacts
<1>5. \A a \in Alerts : a \in Jobs
  BY FanoutConstants
<1> QED BY <1>0, <1>1, <1>2, <1>3, <1>4, <1>5 DEF WorkerStep

-----------------------------------------------------------------------------
(* The invariant of the fan-out.                                           *)

\* An execution in progress is the latest one of its job.
LatestRuns == \A r \in runs : r.nth = claims[r.job]

PassOK(a) ==
  /\ pass[a].nth <= claims[a]
  /\ OnePlaceEach(pass[a].who)
  /\ pass[a].todo \subseteq pass[a].who
  /\ \A p \in pass[a].who \ pass[a].todo : Reached(a, p, pass[a].nth)
  /\ status[a] = "completed" => pass[a].nth = claims[a] /\ pass[a].todo = {}
  /\ \A r \in runs : r.job = a /\ r.pc = "completing" =>
       pass[a].nth = r.nth /\ pass[a].todo = {}

\* What has been added belongs to a pass, one job to a place, and, if to the
\* latest, to an entry of its list that it is done with unless it threw.
AddedOK(a) ==
  /\ \A n \in Nat : <<a, n>> \in digested => n <= pass[a].nth
  /\ \A p \in Entries, n \in Passes :
       status[DeliverJob(a, p, n)] # "absent" =>
         /\ n <= pass[a].nth
         /\ n = pass[a].nth => p \in pass[a].who
  /\ \A p, q \in Entries, n \in Passes :
       /\ status[DeliverJob(a, p, n)] # "absent"
       /\ status[DeliverJob(a, q, n)] # "absent"
       /\ p.place = q.place
       => p = q
  /\ pass[a].choice # "threw" =>
       /\ <<a, pass[a].nth>> \in digested => OwnEntry \notin pass[a].todo
       /\ \A p \in pass[a].todo : pass[a].nth \in Passes =>
            status[DeliverJob(a, p, pass[a].nth)] = "absent"
  /\ \A n \in Passes :
       ~(<<a, n>> \in digested /\ status[DeliverJob(a, OwnEntry, n)] # "absent")

MailOK(d) ==
  /\ mails[d] <= claims[d]
  /\ \A r \in runs : r.job = d /\ r.pc = "handling" => mails[d] < claims[d]

FanInv ==
  /\ FanTypeOK
  /\ LatestRuns
  /\ \A a \in Alerts : PassOK(a) /\ AddedOK(a)
  /\ \A d \in DeliverJobs : MailOK(d)

LEMMA FanInvInit == FanInit => FanInv
<1> SUFFICES ASSUME FanInit PROVE FanInv
  OBVIOUS
<1>1. CountInv /\ runs = {} /\ status = [j \in Jobs |-> "absent"] /\ claims = [j \in Jobs |-> 0]
  BY CountInit DEF FanInit, Init, QueueInit
<1>2. FanTypeOK
  BY <1>1 DEF FanInit, FanTypeOK, CountInv, Pass
<1>3. \A a \in Alerts : PassOK(a)
  BY <1>1, FanoutConstants DEF FanInit, PassOK, OnePlaceEach
<1>4. \A a \in Alerts : AddedOK(a)
  <2>1. \A a \in Alerts, p \in Entries, n \in Passes : DeliverJob(a, p, n) \in Jobs
    BY FanoutConstants DEF DeliverJobs, DeliverJob
  <2>2. OwnEntry \in Entries
    BY DEF Entries
  <2> QED BY <1>1, <2>1, <2>2 DEF FanInit, AddedOK
<1>5. \A d \in DeliverJobs : MailOK(d)
  BY <1>1, FanoutConstants DEF FanInit, MailOK
<1> QED BY <1>1, <1>2, <1>3, <1>4, <1>5 DEF FanInv, LatestRuns

\* The worker's own steps.
LEMMA FanWorkerStep ==
  ASSUME FanInv, CountInv, JobInv, CountInv', WorkerStep
  PROVE  FanInv'
<1>0. /\ WorkerFacts
      /\ UNCHANGED fanVars
      /\ claims \in [Jobs -> Nat] /\ claims' \in [Jobs -> Nat]
      /\ runs \subseteq Run /\ runs' \subseteq Run
      /\ \A a \in Alerts : a \in Jobs
      /\ \A d \in DeliverJobs : d \in Jobs
      /\ pass \in [Alerts -> Pass] /\ mails \in [DeliverJobs -> Nat]
  BY WorkerStepFacts, FanoutConstants DEF WorkerStep, CountInv, TypeOK, FanInv, FanTypeOK
<1>1. FanTypeOK'
  BY <1>0 DEF FanInv, FanTypeOK, fanVars, CountInv
<1>w. /\ \A d \in DeliverJobs : status'[d] = "absent" <=> status[d] = "absent"
      /\ \A j \in Jobs : status'[j] = "completed" =>
           /\ claims'[j] = claims[j]
           /\ \/ status[j] = "completed"
              \/ \E r \in runs : r.job = j /\ r.pc = "completing"
      /\ \A j \in Jobs : claims'[j] >= claims[j]
  BY <1>0 DEF WorkerFacts
<1>e. \A s \in runs' :
        \/ /\ claims'[s.job] = claims[s.job]
           /\ \E r \in runs : /\ r.job = s.job
                              /\ r.nth = s.nth
                              /\ s.pc \in {"handling", "completing"} => r.pc = s.pc
        \/ /\ s.pc = "handling"
           /\ s.nth = claims[s.job] + 1
           /\ claims'[s.job] = claims[s.job] + 1
  BY <1>0 DEF WorkerFacts
<1>l. LatestRuns
  BY DEF FanInv
<1>2. LatestRuns'
  <2> SUFFICES ASSUME NEW s, s \in runs' PROVE s.nth = claims'[s.job]
    BY DEF LatestRuns
  <2>1. CASE s.nth = claims[s.job] + 1 /\ claims'[s.job] = claims[s.job] + 1
    BY <2>1
  <2>2. ASSUME NEW r \in runs, r.job = s.job, r.nth = s.nth,
               claims'[s.job] = claims[s.job]
        PROVE  s.nth = claims'[s.job]
    BY <1>l, <2>2 DEF LatestRuns
  <2>3. \/ /\ claims'[s.job] = claims[s.job]
           /\ \E r \in runs : r.job = s.job /\ r.nth = s.nth
        \/ s.nth = claims[s.job] + 1 /\ claims'[s.job] = claims[s.job] + 1
    BY <1>e
  <2> QED BY <2>1, <2>2, <2>3
<1>3. \A a \in Alerts, p \in Entries, n \in Passes : DeliverJob(a, p, n) \in DeliverJobs
  BY DEF DeliverJob, DeliverJobs
<1>4. OwnEntry \in Entries
  BY DEF Entries
<1>5. ASSUME NEW a \in Alerts PROVE PassOK(a)'
  <2>1. PassOK(a) /\ pass' = pass /\ digested' = digested /\ pass[a] \in Pass
    BY <1>0 DEF FanInv, fanVars
  <2>2. pass'[a].nth <= claims'[a]
    BY <1>0, <1>w, <2>1 DEF PassOK, Pass
  <2>3. \A p \in pass'[a].who \ pass'[a].todo : Reached(a, p, pass[a].nth)'
    <3>1. \A p \in pass[a].who, n \in Passes : DeliverJob(a, p, n) \in DeliverJobs
      BY <1>3, <2>1 DEF Pass
    <3>2. ASSUME NEW p \in pass[a].who \ pass[a].todo PROVE Reached(a, p, pass[a].nth)'
      <4>1. Reached(a, p, pass[a].nth)
        BY <2>1 DEF PassOK
      <4> QED BY <1>w, <2>1, <3>1, <4>1 DEF Reached, Added
    <3> QED BY <2>1, <3>2
  <2>4. ASSUME status'[a] = "completed" PROVE pass'[a].nth = claims'[a] /\ pass'[a].todo = {}
    BY <1>0, <1>w, <1>l, <2>1, <2>4 DEF PassOK, LatestRuns
  <2>5. ASSUME NEW r \in runs', r.job = a, r.pc = "completing"
        PROVE  pass'[a].nth = r.nth /\ pass'[a].todo = {}
    <3>1. PICK q \in runs : q.job = r.job /\ q.nth = r.nth /\ q.pc = "completing"
      BY <1>e, <2>5
    <3> QED BY <2>1, <2>5, <3>1 DEF PassOK
  <2> QED BY <2>1, <2>2, <2>3, <2>4, <2>5 DEF PassOK
<1>6. ASSUME NEW a \in Alerts PROVE AddedOK(a)'
  <2>1. AddedOK(a) /\ pass' = pass /\ digested' = digested /\ pass[a] \in Pass
    BY <1>0 DEF FanInv, fanVars
  <2>2. \A p \in Entries, n \in Passes :
          status'[DeliverJob(a, p, n)] = "absent" <=> status[DeliverJob(a, p, n)] = "absent"
    BY <1>w, <1>3
  <2> QED BY <1>4, <2>1, <2>2 DEF AddedOK, Pass
<1>7. ASSUME NEW d \in DeliverJobs PROVE MailOK(d)'
  <2>1. MailOK(d) /\ mails'[d] = mails[d] /\ mails[d] \in Nat /\ d \in Jobs
    BY <1>0, <1>7 DEF FanInv, fanVars
  <2>2. /\ claims[d] \in Nat /\ claims'[d] \in Nat /\ claims'[d] >= claims[d]
        /\ \A s \in runs' : s.job = d /\ s.pc = "handling" =>
             \/ claims'[d] = claims[d] + 1
             \/ claims'[d] = claims[d] /\ \E r \in runs : r.job = d /\ r.pc = "handling"
    <3>1. claims[d] \in Nat /\ claims'[d] \in Nat /\ claims'[d] >= claims[d]
      BY <1>0, <1>w, <2>1
    <3>2. ASSUME NEW s, s \in runs', s.job = d, s.pc = "handling"
          PROVE  \/ claims'[d] = claims[d] + 1
                 \/ claims'[d] = claims[d] /\ \E r \in runs : r.job = d /\ r.pc = "handling"
      BY <1>e, <3>2
    <3> QED BY <3>1, <3>2
  <2> QED BY <2>1, <2>2 DEF MailOK
<1> QED BY <1>1, <1>2, <1>5, <1>6, <1>7 DEF FanInv

\* A handler that returns or throws: only the pc of r changes.
HandlerOver(r, pc) ==
  /\ UNCHANGED <<queueVars, claims>>
  /\ runs' = (runs \ {r}) \union {[r EXCEPT !.pc = pc]}

LEMMA FanDeliverStep ==
  ASSUME FanInv, CountInv, JobInv, CountInv', NEW r \in runs, DeliverStep(r)
  PROVE  FanInv'
<1>0. /\ r \in Run /\ r.pc = "handling" /\ r.job \in DeliverJobs
      /\ \E pc \in {"completing", "failing"} : HandlerOver(r, pc)
      /\ mails' \in {mails, [mails EXCEPT ![r.job] = @ + 1]}
      /\ UNCHANGED <<pass, digested>>
  BY DEF DeliverStep, DeliverMails, DeliverSkips, DeliverThrows, Delivering, Mail,
     HandlerReturns, HandlerThrows, Advance, HandlerOver, fanVars, CountInv, TypeOK
<1>1. /\ status' = status /\ claims' = claims /\ claims \in [Jobs -> Nat]
      /\ mails \in [DeliverJobs -> Nat] /\ runs \subseteq Run
      /\ r.job \in Jobs /\ r.job \notin Alerts
      /\ DeliverJobs \subseteq Jobs
  BY <1>0, FanoutConstants DEF HandlerOver, queueVars, CountInv, TypeOK, FanInv, FanTypeOK
<1>2. \A s \in runs' : \/ s \in runs /\ s # r
                       \/ s.job = r.job /\ s.nth = r.nth /\ s.pc # "handling"
  BY <1>0 DEF HandlerOver, Run
<1>3. FanTypeOK'
  BY <1>0, <1>1 DEF FanInv, FanTypeOK, CountInv
<1>4. LatestRuns'
  BY <1>1, <1>2 DEF FanInv, LatestRuns
<1>5. ASSUME NEW a \in Alerts PROVE PassOK(a)' /\ AddedOK(a)'
  BY <1>0, <1>1, <1>2 DEF FanInv, PassOK, AddedOK, Reached, Added
<1>6. ASSUME NEW d \in DeliverJobs PROVE MailOK(d)'
  <2>1. mails[d] \in Nat /\ claims[d] \in Nat /\ MailOK(d)
    BY <1>1 DEF FanInv
  <2>2. CASE d # r.job
    BY <1>0, <1>1, <1>2, <2>1, <2>2 DEF MailOK
  <2>3. CASE d = r.job
    <3>1. mails[d] < claims[d] /\ mails'[d] <= mails[d] + 1 /\ mails'[d] \in Nat
      BY <1>0, <1>1, <2>1, <2>3 DEF MailOK
    <3>2. \A s \in runs' : s.job = d => s.pc # "handling"
      BY <1>2, <2>3 DEF JobInv, SingleRunner
    <3> QED BY <1>1, <2>1, <3>1, <3>2 DEF MailOK
  <2> QED BY <2>2, <2>3
<1> QED BY <1>3, <1>4, <1>5, <1>6 DEF FanInv

\* The alert of a pass in progress is not completed, and no other execution
\* of it has returned.
LEMMA PassHolds ==
  ASSUME FanInv, CountInv, JobInv, NEW r \in runs, r.job \in Alerts, r.pc = "handling"
  PROVE  /\ r \in Run /\ r.job \in Jobs
         /\ status[r.job] # "completed"
         /\ r.nth = claims[r.job] /\ r.nth \in Nat
         /\ \A q \in runs : q.job = r.job => q = r
         /\ PassOK(r.job) /\ AddedOK(r.job)
         /\ pass[r.job] \in Pass
BY DEF FanInv, FanTypeOK, CountInv, TypeOK, JobInv, RunHoldsJob, SingleRunner,
   LatestRuns, Run

\* Only the pass of r changes: the rest of the invariant is as before.
LEMMA OtherPasses ==
  ASSUME FanInv, CountInv', NEW a \in Alerts, UNCHANGED <<claims, runs, mails>>,
         \A b \in Alerts \ {a} :
           /\ pass'[b] = pass[b]
           /\ \A n \in Nat : <<b, n>> \in digested' <=> <<b, n>> \in digested
           /\ \A p \in Entries, n \in Passes :
                status'[DeliverJob(b, p, n)] = status[DeliverJob(b, p, n)]
           /\ status'[b] = status[b],
         pass' \in [Alerts -> Pass], digested' \in SUBSET (Alerts \X Nat),
         PassOK(a)', AddedOK(a)'
  PROVE  FanInv'
<1>1. FanTypeOK'
  BY DEF FanInv, FanTypeOK, CountInv
<1>2. LatestRuns' /\ \A d \in DeliverJobs : MailOK(d)'
  BY DEF FanInv, LatestRuns, MailOK
<1>3. OwnEntry \in Entries
  BY DEF Entries
<1>4. ASSUME NEW b \in Alerts \ {a} PROVE PassOK(b)' /\ AddedOK(b)'
  <2>1. /\ PassOK(b) /\ AddedOK(b) /\ pass[b] \in Pass
        /\ \A p \in Entries, n \in Passes :
             status'[DeliverJob(b, p, n)] = status[DeliverJob(b, p, n)]
    BY DEF FanInv, FanTypeOK
  <2>2. PassOK(b)'
    <3>1. ASSUME NEW p \in pass[b].who \ pass[b].todo PROVE Reached(b, p, pass[b].nth)'
      <4>1. Reached(b, p, pass[b].nth) /\ p \in Entries /\ pass[b].nth \in Nat
        BY <2>1 DEF PassOK, Pass
      <4> QED BY <2>1, <4>1 DEF Reached, Added
    <3> QED BY <2>1, <3>1 DEF PassOK
  <2>3. AddedOK(b)'
    BY <1>3, <2>1 DEF AddedOK, Pass
  <2> QED BY <2>2, <2>3
<1> QED BY <1>1, <1>2, <1>4 DEF FanInv

LEMMA FanBeginPass ==
  ASSUME FanInv, CountInv, JobInv, CountInv', NEW r \in runs,
         NEW S \in SUBSET Entries, OnePlaceEach(S), BeginPass(r, S)
  PROVE  FanInv'
<1> DEFINE a == r.job
<1>1. /\ a \in Alerts /\ r.pc = "handling" /\ pass[a].nth # r.nth
      /\ pass' = [pass EXCEPT ![a] =
                    [nth |-> r.nth, who |-> S, todo |-> S, choice |-> "unread"]]
      /\ UNCHANGED <<status, claims, runs, digested, mails>>
      /\ pass \in [Alerts -> Pass] /\ digested \in SUBSET (Alerts \X Nat)
  BY DEF BeginPass, vars, queueVars, workerVars, FanInv, FanTypeOK
<1>2. /\ status[a] # "completed" /\ r.nth = claims[a] /\ r.nth \in Nat
      /\ \A q \in runs : q.job = a => q = r
      /\ PassOK(a) /\ AddedOK(a) /\ pass[a] \in Pass
  BY <1>1, PassHolds
<1>3. pass[a].nth < r.nth /\ pass[a].nth \in Nat
  BY <1>1, <1>2 DEF PassOK, Pass
<1>4. /\ pass' \in [Alerts -> Pass]
      /\ pass'[a] = [nth |-> r.nth, who |-> S, todo |-> S, choice |-> "unread"]
      /\ \A b \in Alerts \ {a} : pass'[b] = pass[b]
  <2>1. [nth |-> r.nth, who |-> S, todo |-> S, choice |-> "unread"] \in Pass
    BY <1>2 DEF Pass
  <2> QED BY <1>1, <2>1
<1>5. PassOK(a)'
  <2>1. \A q \in runs' : q.job = a => q.pc = "handling"
    BY <1>1, <1>2
  <2> QED BY <1>1, <1>2, <1>4, <2>1 DEF PassOK
<1>6. AddedOK(a)'
  BY <1>1, <1>2, <1>3, <1>4, FanoutConstants DEF AddedOK
<1> QED BY <1>1, <1>4, <1>5, <1>6, OtherPasses

\* The owner's preference is read.
LEMMA FanReadPreference ==
  ASSUME FanInv, CountInv, JobInv, CountInv', NEW r \in runs, ReadPreference(r)
  PROVE  FanInv'
<1> DEFINE a == r.job
<1>1. /\ a \in Alerts /\ r.pc = "handling" /\ pass[a].choice # "threw"
      /\ \E c \in {"digest", "direct"} : pass' = [pass EXCEPT ![a].choice = c]
      /\ UNCHANGED <<status, claims, runs, digested, mails>>
      /\ pass \in [Alerts -> Pass] /\ digested \in SUBSET (Alerts \X Nat)
  BY DEF ReadPreference, InPass, vars, queueVars, workerVars, FanInv, FanTypeOK
<1>2. PassOK(a) /\ AddedOK(a) /\ pass[a] \in Pass
  BY <1>1, PassHolds
<1>3. /\ pass' \in [Alerts -> Pass]
      /\ \A b \in Alerts \ {a} : pass'[b] = pass[b]
      /\ pass'[a].nth = pass[a].nth /\ pass'[a].who = pass[a].who
      /\ pass'[a].todo = pass[a].todo
  BY <1>1, <1>2 DEF Pass
<1>4. PassOK(a)'
  BY <1>1, <1>2, <1>3 DEF PassOK, Reached, Added
<1>5. AddedOK(a)'
  BY <1>1, <1>2, <1>3 DEF AddedOK
<1> QED BY <1>1, <1>3, <1>4, <1>5, OtherPasses

\* An item goes to the owner's digest, the command reporting success or not.
LEMMA FanDigest ==
  ASSUME FanInv, CountInv, JobInv, CountInv', NEW r \in runs,
         QueueForDigest(r) \/ QueueForDigestThrows(r)
  PROVE  FanInv'
<1> DEFINE a == r.job
<1>1. /\ a \in Alerts /\ r.pc = "handling" /\ pass[a].nth = r.nth
      /\ pass[a].choice = "digest" /\ OwnEntry \in pass[a].todo
      /\ digested' = digested \union {<<a, r.nth>>}
      /\ UNCHANGED <<status, claims, runs, mails>>
      /\ \/ pass' = [pass EXCEPT ![a].todo = @ \ {OwnEntry}]
         \/ pass' = [pass EXCEPT ![a].choice = "threw"]
      /\ pass \in [Alerts -> Pass] /\ digested \in SUBSET (Alerts \X Nat)
  BY DEF QueueForDigest, QueueForDigestThrows, InPass, vars, queueVars, workerVars,
     FanInv, FanTypeOK
<1>2. /\ status[a] # "completed" /\ r.nth = claims[a] /\ r.nth \in Nat
      /\ \A q \in runs : q.job = a => q = r
      /\ PassOK(a) /\ AddedOK(a) /\ pass[a] \in Pass
  BY <1>1, PassHolds
<1>3. /\ pass' \in [Alerts -> Pass]
      /\ \A b \in Alerts \ {a} : pass'[b] = pass[b]
      /\ pass'[a].nth = r.nth /\ pass'[a].who = pass[a].who
      /\ \/ /\ pass'[a].todo = pass[a].todo \ {OwnEntry}
            /\ pass'[a].choice = "digest"
         \/ /\ pass'[a].todo = pass[a].todo
            /\ pass'[a].choice = "threw"
  BY <1>1, <1>2 DEF Pass
<1>4. /\ digested' \in SUBSET (Alerts \X Nat)
      /\ \A b \in Alerts \ {a}, n \in Nat : <<b, n>> \in digested' <=> <<b, n>> \in digested
      /\ \A n \in Nat : <<a, n>> \in digested' => <<a, n>> \in digested \/ n = r.nth
      /\ <<a, r.nth>> \in digested'
      /\ \A n \in Nat : <<a, n>> \in digested => <<a, n>> \in digested'
  BY <1>1, <1>2
<1>5. PassOK(a)'
  <2>1. \A p \in pass'[a].who \ pass'[a].todo : Reached(a, p, pass[a].nth)'
    BY <1>1, <1>2, <1>3, <1>4 DEF PassOK, Reached, Added, Pass
  <2>2. \A q \in runs' : q.job = a => q.pc = "handling"
    BY <1>1, <1>2
  <2> QED BY <1>1, <1>2, <1>3, <2>1, <2>2 DEF PassOK
<1>6. AddedOK(a)'
  <2>1. \A n \in Nat : <<a, n>> \in digested' => n <= r.nth
    BY <1>1, <1>2, <1>4 DEF AddedOK
  <2>2. pass'[a].choice # "threw" =>
          /\ OwnEntry \notin pass'[a].todo
          /\ \A e \in pass'[a].todo : r.nth \in Passes =>
               status'[DeliverJob(a, e, r.nth)] = "absent"
    BY <1>1, <1>2, <1>3 DEF AddedOK
  <2>3. r.nth \in Passes => status[DeliverJob(a, OwnEntry, r.nth)] = "absent"
    BY <1>1, <1>2 DEF AddedOK
  <2>4. \A n \in Passes :
          ~(<<a, n>> \in digested' /\ status'[DeliverJob(a, OwnEntry, n)] # "absent")
    <3> SUFFICES ASSUME NEW n \in Passes, <<a, n>> \in digested'
                 PROVE  status[DeliverJob(a, OwnEntry, n)] = "absent"
      BY <1>1
    <3>1. n \in Nat
      BY FanoutConstants
    <3>2. CASE n = r.nth
      BY <2>3, <3>2
    <3>3. CASE <<a, n>> \in digested
      BY <1>2, <3>3 DEF AddedOK
    <3> QED BY <1>4, <3>1, <3>2, <3>3
  <2>5. /\ \A e \in Entries, n \in Passes : status'[DeliverJob(a, e, n)] # "absent" =>
             /\ n <= r.nth
             /\ n = r.nth => e \in pass'[a].who
        /\ \A e, f \in Entries, n \in Passes :
             /\ status'[DeliverJob(a, e, n)] # "absent"
             /\ status'[DeliverJob(a, f, n)] # "absent"
             /\ e.place = f.place
             => e = f
    BY <1>1, <1>2, <1>3 DEF AddedOK
  <2> QED BY <1>3, <2>1, <2>2, <2>4, <2>5 DEF AddedOK
<1> QED BY <1>1, <1>3, <1>4, <1>5, <1>6, OtherPasses

\* A deliver job is added, the command reporting success or not.
LEMMA FanDeliver ==
  ASSUME FanInv, CountInv, JobInv, CountInv', NEW r \in runs, NEW p \in Entries,
         QueueDeliver(r, p) \/ QueueDeliverThrows(r, p)
  PROVE  FanInv'
<1> DEFINE a == r.job
           d == DeliverJob(a, p, r.nth)
<1>1. /\ a \in Alerts /\ r.pc = "handling" /\ pass[a].nth = r.nth
      /\ pass[a].choice # "threw" /\ p \in pass[a].todo
      /\ d \in DeliverJobs /\ d \in Jobs /\ status[d] = "absent"
      /\ status' = [status EXCEPT ![d] = "pending"]
      /\ UNCHANGED <<claims, runs, digested, mails>>
      /\ \/ pass' = [pass EXCEPT ![a].todo = @ \ {p}]
         \/ pass' = [pass EXCEPT ![a].choice = "threw"]
      /\ pass \in [Alerts -> Pass] /\ digested \in SUBSET (Alerts \X Nat)
  BY FanoutConstants DEF QueueDeliver, QueueDeliverThrows, Delivered, AddDeliverJob,
     Add, InPass, workerVars, FanInv, FanTypeOK
<1>2. /\ status[a] # "completed" /\ r.nth = claims[a] /\ r.nth \in Nat
      /\ \A q \in runs : q.job = a => q = r
      /\ PassOK(a) /\ AddedOK(a) /\ pass[a] \in Pass
      /\ status \in [Jobs -> Statuses]
  BY <1>1, PassHolds DEF CountInv, TypeOK, QueueTypeOK
<1>3. /\ pass' \in [Alerts -> Pass]
      /\ \A b \in Alerts \ {a} : pass'[b] = pass[b]
      /\ pass'[a].nth = r.nth /\ pass'[a].who = pass[a].who
      /\ \/ /\ pass'[a].todo = pass[a].todo \ {p}
            /\ pass'[a].choice = pass[a].choice
         \/ /\ pass'[a].todo = pass[a].todo
            /\ pass'[a].choice = "threw"
  BY <1>1, <1>2 DEF Pass
<1>4. /\ r.nth \in Passes
      /\ \A b \in Alerts, q \in Entries, n \in Passes :
           /\ DeliverJob(b, q, n) \in Jobs
           /\ DeliverJob(b, q, n) = d => b = a /\ q = p /\ n = r.nth
      /\ \A b \in Alerts : b \in Jobs /\ b # d
  BY <1>1, FanoutConstants DEF DeliverJob, DeliverJobs
<1>5. /\ \A b \in Alerts, q \in Entries, n \in Passes :
           status'[DeliverJob(b, q, n)] =
             IF b = a /\ q = p /\ n = r.nth THEN "pending" ELSE status[DeliverJob(b, q, n)]
      /\ \A b \in Alerts : status'[b] = status[b]
  BY <1>1, <1>2, <1>4
<1>6. PassOK(a)'
  <2>1. ASSUME NEW q \in pass'[a].who \ pass'[a].todo
        PROVE  Reached(a, q, pass[a].nth)'
    <3>1. q \in Entries /\ (q = p \/ Reached(a, q, pass[a].nth))
      BY <1>1, <1>2, <1>3, <2>1 DEF PassOK, Pass
    <3> QED BY <1>1, <1>2, <1>3, <1>4, <1>5, <3>1 DEF Reached, Added
  <2>2. \A q \in runs' : q.job = a => q.pc = "handling"
    BY <1>1, <1>2
  <2> QED BY <1>1, <1>2, <1>3, <1>5, <2>1, <2>2 DEF PassOK
<1>7. AddedOK(a)'
  <2>1. OwnEntry \in Entries /\ pass[a].todo \subseteq Entries
    BY <1>2 DEF Entries, Pass
  <2>2. \A q \in Entries, n \in Passes :
          status'[DeliverJob(a, q, n)] # "absent" =>
            /\ n <= r.nth
            /\ n = r.nth => q \in pass[a].who
    <3>1. p \in pass[a].who
      BY <1>1, <1>2 DEF PassOK
    <3>2. \A q \in Entries, n \in Passes :
            status[DeliverJob(a, q, n)] # "absent" =>
              /\ n <= r.nth
              /\ n = r.nth => q \in pass[a].who
      BY <1>1, <1>2 DEF AddedOK
    <3> QED BY <1>1, <1>2, <1>5, <3>1, <3>2
  <2>3. ASSUME pass'[a].choice # "threw"
        PROVE  /\ <<a, r.nth>> \in digested' => OwnEntry \notin pass'[a].todo
               /\ \A q \in pass'[a].todo : status'[DeliverJob(a, q, r.nth)] = "absent"
    <3>1. pass'[a].todo = pass[a].todo \ {p}
      BY <1>3, <2>3
    <3>2. <<a, r.nth>> \in digested' => OwnEntry \notin pass'[a].todo
      BY <1>1, <1>2, <3>1 DEF AddedOK
    <3>3. ASSUME NEW q \in pass'[a].todo
          PROVE  status'[DeliverJob(a, q, r.nth)] = "absent"
      <4>1. q \in Entries /\ q \in pass[a].todo /\ q # p
        BY <2>1, <3>1, <3>3
      <4>2. status[DeliverJob(a, q, r.nth)] = "absent"
        BY <1>1, <1>2, <1>4, <4>1 DEF AddedOK
      <4> QED BY <1>1, <1>4, <1>5, <4>1, <4>2
    <3> QED BY <3>2, <3>3
  <2>4. ASSUME NEW n \in Passes
        PROVE  ~(<<a, n>> \in digested' /\ status'[DeliverJob(a, OwnEntry, n)] # "absent")
    BY <1>1, <1>2, <1>5, <2>1 DEF AddedOK
  <2>5. \A n \in Nat : <<a, n>> \in digested' => n <= r.nth
    BY <1>1, <1>2 DEF AddedOK
  <2>6. ASSUME NEW e \in Entries, NEW f \in Entries, NEW n \in Passes,
               status'[DeliverJob(a, e, n)] # "absent",
               status'[DeliverJob(a, f, n)] # "absent",
               e.place = f.place
        PROVE  e = f
    <3>1. CASE status[DeliverJob(a, e, n)] # "absent" /\ status[DeliverJob(a, f, n)] # "absent"
      BY <1>2, <2>6, <3>1 DEF AddedOK
    <3>2. CASE n # r.nth
      BY <1>1, <1>5, <2>6, <3>1, <3>2
    <3>3. CASE n = r.nth
      <4>1. e \in pass[a].who /\ f \in pass[a].who
        BY <1>3, <2>2, <2>6, <3>3
      <4> QED BY <1>2, <2>6, <4>1 DEF PassOK, OnePlaceEach
    <3> QED BY <3>2, <3>3
  <2> QED BY <1>3, <2>2, <2>3, <2>4, <2>5, <2>6 DEF AddedOK
<1> QED BY <1>1, <1>3, <1>5, <1>6, <1>7, OtherPasses

\* The pass ends, or throws.
LEMMA FanPassOver ==
  ASSUME FanInv, CountInv, JobInv, CountInv', NEW r \in runs, PassThrows(r) \/ PassEnds(r)
  PROVE  FanInv'
<1> DEFINE a == r.job
<1>1. /\ a \in Alerts /\ r.pc = "handling" /\ pass[a].nth = r.nth
      /\ UNCHANGED <<status, claims, pass, digested, mails>>
      /\ \/ PassThrows(r) /\ HandlerOver(r, "failing")
         \/ HandlerOver(r, "completing") /\ pass[a].todo = {}
  BY DEF PassThrows, PassEnds, InPass, HandlerReturns, HandlerThrows, Advance,
     HandlerOver, queueVars, fanVars
<1>2. /\ r \in Run /\ r.nth = claims[a]
      /\ \A q \in runs : q.job = a => q = r
      /\ status[a] # "completed"
  BY <1>1, PassHolds
<1>3. \A s \in runs' : \/ s \in runs /\ s # r
                       \/ /\ s.job = a /\ s.nth = r.nth /\ s.pc # "handling"
                          /\ s.pc = "completing" => pass[a].todo = {}
  BY <1>1, <1>2 DEF HandlerOver, Run
<1>4. FanTypeOK' /\ LatestRuns'
  BY <1>1, <1>2, <1>3 DEF FanInv, FanTypeOK, CountInv, LatestRuns
<1>5. ASSUME NEW b \in Alerts PROVE PassOK(b)' /\ AddedOK(b)'
  BY <1>1, <1>2, <1>3 DEF FanInv, PassOK, AddedOK, Reached, Added
<1>6. ASSUME NEW e \in DeliverJobs PROVE MailOK(e)'
  BY <1>1, <1>3 DEF FanInv, MailOK
<1> QED BY <1>4, <1>5, <1>6 DEF FanInv

LEMMA FanInvNext ==
  FanInv /\ CountInv /\ JobInv /\ CountInv' /\ [FanNext]_allVars => FanInv'
<1> SUFFICES ASSUME FanInv, CountInv, JobInv, CountInv', [FanNext]_allVars PROVE FanInv'
  OBVIOUS
<1>1. ASSUME NEW r \in runs, Resolve(r) \/ ResolveFails(r) PROVE FanInv'
  <2>1. PICK S \in SUBSET Entries : OnePlaceEach(S) /\ BeginPass(r, S)
    BY <1>1 DEF Resolve, ResolveFails, Entries, OnePlaceEach
  <2> QED BY <2>1, FanBeginPass
<1>2. ASSUME NEW r \in runs, PassStep(r) PROVE FanInv'
  BY <1>1, <1>2, FanReadPreference, FanDigest, FanDeliver, FanPassOver DEF PassStep
<1>3. CASE UNCHANGED allVars
  <2>1. UNCHANGED <<status, claims, runs, pass, digested, mails>>
    BY <1>3 DEF allVars, vars, queueVars, workerVars, fanVars
  <2> QED BY <2>1 DEF FanInv, FanTypeOK, CountInv, LatestRuns, PassOK, AddedOK, Reached, Added, MailOK
<1> QED BY <1>2, <1>3, FanWorkerStep, FanDeliverStep DEF FanNext

LEMMA FanInvAlways ==
  ASSUME "sweep" \notin Faults
  PROVE  FanSpec => [](FanInv /\ CountInv /\ JobInv)
<1>1. FanSpec => [](CountInv /\ JobInv)
  BY WorkerInvariants
<1> QED BY <1>1, FanInvInit, FanInvNext, PTL DEF FanSpec

\* The state of the fan-out is always well typed.
THEOREM FanTypeCorrect ==
  ASSUME "sweep" \notin Faults
  PROVE  FanSpec => []FanTypeOK
<1>1. FanInv => FanTypeOK
  BY DEF FanInv
<1> QED BY <1>1, FanInvAlways, PTL

\* A completed alert has reached every entry of the list that its last pass
\* resolved, whatever failed on the way and however often it was retried.
THEOREM AlertReachesAll ==
  ASSUME "sweep" \notin Faults
  PROVE  FanSpec => []CompletedAlertReachesAll
<1>1. FanInv => CompletedAlertReachesAll
  BY DEF FanInv, PassOK, CompletedAlertReachesAll
<1> QED BY <1>1, FanInvAlways, PTL

\* Under the account a pass tells the owner on one path only: the own entry of
\* the list gets a digest item or a deliver job, and never both, whatever
\* fails between reading the preference and acting on it.
THEOREM OnePathOnly ==
  ASSUME "sweep" \notin Faults
  PROVE  FanSpec => []OnePathPerPass
<1>1. FanInv => OnePathPerPass
  BY DEF FanInv, AddedOK, OnePathPerPass, Added
<1> QED BY <1>1, FanInvAlways, PTL

\* Mails about an alert stay within the places of the list times the attempts
\* of its jobs: a pass adds at most one job per place, for the entry that its
\* list has there, though the same address may stand at several.
THEOREM MailsBoundedByAttempts ==
  ASSUME "sweep" \notin Faults
  PROVE  FanSpec => []MailsWithinBudget
<1>1. FanInv /\ CountInv /\ JobInv => MailsWithinBudget
  <2> SUFFICES ASSUME FanInv, CountInv, JobInv, NEW a \in Alerts, NEW n \in Passes
               PROVE  /\ \A e, f \in Entries :
                           Added(a, e, n) /\ Added(a, f, n) /\ e.place = f.place => e = f
                      /\ \A e \in Entries :
                           LET d == DeliverJob(a, e, n)
                           IN /\ Added(a, e, n) =>
                                   /\ n <= claims[a] /\ claims[a] <= MaxAttempts[a]
                                   /\ n = pass[a].nth => e \in pass[a].who
                              /\ mails[d] <= claims[d] /\ claims[d] <= MaxAttempts[d]
    BY DEF MailsWithinBudget
  <2>1. AddedOK(a) /\ PassOK(a) /\ pass[a].nth \in Nat
    BY DEF FanInv, FanTypeOK, Pass
  <2>2. \A e, f \in Entries :
          Added(a, e, n) /\ Added(a, f, n) /\ e.place = f.place => e = f
    BY <2>1 DEF AddedOK, Added
  <2>3. ASSUME NEW e \in Entries
        PROVE  LET d == DeliverJob(a, e, n)
               IN /\ Added(a, e, n) =>
                       /\ n <= claims[a] /\ claims[a] <= MaxAttempts[a]
                       /\ n = pass[a].nth => e \in pass[a].who
                  /\ mails[d] <= claims[d] /\ claims[d] <= MaxAttempts[d]
    <3> DEFINE d == DeliverJob(a, e, n)
    <3>1. d \in DeliverJobs /\ d \in Jobs /\ a \in Jobs
      BY FanoutConstants DEF DeliverJob, DeliverJobs
    <3>2. claims[a] <= MaxAttempts[a] /\ claims[d] <= MaxAttempts[d]
      BY <3>1 DEF JobInv, Budget
    <3>3. mails[d] <= claims[d]
      BY <3>1 DEF FanInv, MailOK
    <3>4. ASSUME Added(a, e, n) PROVE n <= claims[a] /\ (n = pass[a].nth => e \in pass[a].who)
      <4>1. n <= pass[a].nth /\ (n = pass[a].nth => e \in pass[a].who)
        BY <2>1, <3>4 DEF AddedOK, Added
      <4>2. pass[a].nth <= claims[a]
        BY <2>1 DEF PassOK
      <4> QED BY <2>1, <3>1, <4>1, <4>2, FanoutConstants DEF CountInv, TypeOK
    <3> QED BY <3>2, <3>3, <3>4
  <2> QED BY <2>2, <2>3
<1> QED BY <1>1, FanInvAlways, PTL
=============================================================================
