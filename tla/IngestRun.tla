------------------------------ MODULE IngestRun ------------------------------
(***************************************************************************)
(* The ingest protocol of packages/api (routes/ingest/v1/ingest.ts) over   *)
(* the run documents of packages/database (IngestRunRepository): a client  *)
(* opens a run, uploads one envelope of delta ops and completes the run;   *)
(* the handlers are sequences of commands to MongoDB, and requests of      *)
(* several clients, of one client that gave up waiting, and the worker's   *)
(* reaper interleave between any two of them.                              *)
(*                                                                         *)
(* One student with two or more data sources is enough for what the        *)
(* handlers share: the student's dataSources array is read as a whole and  *)
(* written back as a whole.  An op is the upsert of a due assignment; what *)
(* it writes is abstracted to which run wrote which item for which user.   *)
(* Cursors, coverage, trace steps, activity log, the selector-repair       *)
(* bookkeeping and the post-ingest intelligence of these handlers are left *)
(* out: none of them is read back by the rest.  The guidance jobs that an  *)
(* ingest adds are the Schedule of GuidanceLadder.                         *)
(***************************************************************************)
EXTENDS Naturals, FiniteSets

CONSTANTS
  Runs,          \* run ids
  Sources,       \* ingest sources of the student
  Items,         \* assignments; all of them due or missing, hence alerted
  Users,         \* the student's owner and the co-parents with access
  Owner,         \* the user who owns the student document
  RunSource,     \* [Runs -> Sources]
  RunActor,      \* [Runs -> Users], whose connector token a run uses
  Payload,       \* [Runs -> SUBSET Items], the ops of its envelope
  Bound,         \* SUBSET (Users \X Sources), the portal bindings
  StudentKnown,  \* the student has the external id the ops carry
  OneStudent,    \* SUBSET Users: those who own exactly one student
  Copies,        \* bound: times each request of a run may be sent
  RequestsDie,   \* a handler may stop between two commands
  Absent,        \* the student has no dataSources entry for a source
  NoRun          \* an entry that no run has refreshed yet

ASSUME IngestConstants ==
  /\ IsFiniteSet(Runs)
  /\ Owner \in Users
  /\ RunSource \in [Runs -> Sources]
  /\ RunActor \in [Runs -> Users]
  /\ Payload \in [Runs -> SUBSET Items]
  /\ Bound \subseteq Users \X Sources
  /\ StudentKnown \in BOOLEAN
  /\ OneStudent \subseteq Users
  /\ Copies \in Nat
  /\ RequestsDie \in BOOLEAN
  /\ Absent \notin Runs \union {NoRun}
  /\ NoRun \notin Runs

VARIABLES
  status,       \* of the run document, "unstarted" before POST /runs
  owner,        \* its userId: the partition the run was opened under
  reqs,         \* handlers in progress
  sent,         \* requests sent so far, by run and kind
  applied,      \* which run has written which item of which user's data
  dataSources,  \* the student's: source -> last run, NoRun or Absent
  alerts,       \* alert documents by user and fingerprint (= item)
  adds,         \* unawaited queue.add calls
  jobs,         \* notify jobs added
  overlap       \* history: most alert generations of a user at one time

vars == <<status, owner, reqs, sent, applied, dataSources, alerts, adds, jobs,
          overlap>>
docVars == <<status, owner>>
alertVars == <<alerts, adds, jobs, overlap>>

Statuses ==
  {"unstarted", "started", "uploaded", "committed", "failed", "abandoned"}
Kinds == {"envelope", "complete", "fail"}
Steps == {"applying", "attaching", "marking", "committing", "failing",
          "reading", "writing", "scanning", "alerting", "creating"}
DataSources == [Sources -> Runs \union {Absent, NoRun}]

\* A handler: todo is the ops or items it has still to visit, creating the
\* item it is about to alert, seen the student it has read.
Requests ==
  [run : Runs, kind : Kinds, nth : 1..Copies, pc : Steps, owner : Users,
   todo : SUBSET Items, creating : SUBSET Items, seen : DataSources]

NoSources == [s \in Sources |-> Absent]
NoneYet == [u \in Users |-> [i \in Items |-> 0]]

Init ==
  /\ status = [r \in Runs |-> "unstarted"]
  /\ owner = RunActor
  /\ reqs = {}
  /\ sent = [r \in Runs |-> [k \in Kinds |-> 0]]
  /\ applied = {}
  /\ dataSources \in {ds \in DataSources : \A s \in Sources : ds[s] \in {Absent, NoRun}}
  /\ alerts = NoneYet
  /\ adds = NoneYet
  /\ jobs = NoneYet
  /\ overlap = [u \in Users |-> 0]

-----------------------------------------------------------------------------
(* Helpers. *)

\* resolveDataUserId: by the source, else by the student the ops name.
DataUser(r, byStudent) ==
  IF dataSources[RunSource[r]] # Absent \/ (byStudent /\ StudentKnown)
  THEN Owner ELSE RunActor[r]

\* resolveStudentIdForJob: the student of that id among those the user owns, or
\* '*', the only one with data sources.  The handler that asks has just given
\* every student of its user a source, so that is the only one there is.
FindsStudent(u) == (u = Owner /\ StudentKnown) \/ u \in OneStudent

StoredItems(u) == {i \in Items : \E r \in Runs : <<r, u, i>> \in applied}

Alerting(u) == {q \in reqs : q.owner = u /\ q.pc \in {"alerting", "creating"}}

Larger(m, n) == IF m < n THEN n ELSE m

Becomes(q, p) == reqs' = (reqs \ {q}) \union {p}
Ends(q) == reqs' = reqs \ {q}

Arrives(r, k, pc, u, todo) ==
  /\ sent[r][k] < Copies
  /\ sent' = [sent EXCEPT ![r][k] = @ + 1]
  /\ reqs' = reqs \union
       {[run |-> r, kind |-> k, nth |-> sent[r][k] + 1, pc |-> pc, owner |-> u,
         todo |-> todo, creating |-> {}, seen |-> NoSources]}

-----------------------------------------------------------------------------
(* POST /runs and POST /runs/:runId/envelope. *)

\* The unique index on runId makes the insert fail for a run that exists.
StartRun(r) ==
  /\ status[r] = "unstarted"
  /\ status' = [status EXCEPT ![r] = "started"]
  /\ owner' = [owner EXCEPT ![r] = DataUser(r, FALSE)]
  /\ UNCHANGED <<reqs, sent, applied, dataSources, alertVars>>

\* The status and the data owner are looked up once, before the ops.
EnvelopeArrives(r) ==
  /\ status[r] = "started"
  /\ Arrives(r, "envelope", "applying", DataUser(r, TRUE), Payload[r])
  /\ UNCHANGED <<docVars, applied, dataSources, alertVars>>

ApplyOp(q, i) ==
  /\ q.pc = "applying"
  /\ i \in q.todo
  /\ applied' = applied \union {<<q.run, q.owner, i>>}
  /\ Becomes(q, [q EXCEPT !.todo = @ \ {i}])
  /\ UNCHANGED <<docVars, sent, dataSources, alertVars>>

\* Variant: applyOps is not awaited.
OpsNotAwaited(q) ==
  /\ q.pc = "applying"
  /\ Becomes(q, [q EXCEPT !.pc = "attaching", !.seen = dataSources])
  /\ UNCHANGED <<docVars, sent, applied, dataSources, alertVars>>

\* attachStudentDataSourcesFromBindings reads the students ...
OpsApplied(q) ==
  /\ q.pc = "applying"
  /\ q.todo = {}
  /\ Becomes(q, [q EXCEPT !.pc = "attaching", !.seen = dataSources])
  /\ UNCHANGED <<docVars, sent, applied, dataSources, alertVars>>

\* ... and appends the source to what it read, if bound and not there.
AttachSource(q) ==
  LET s == RunSource[q.run] IN
  /\ q.pc = "attaching"
  /\ dataSources' = IF <<q.owner, s>> \in Bound /\ StudentKnown /\ q.seen[s] = Absent
                    THEN [q.seen EXCEPT ![s] = NoRun]
                    ELSE dataSources
  /\ Becomes(q, [q EXCEPT !.pc = "marking"])
  /\ UNCHANGED <<docVars, sent, applied, alertVars>>

Uploadable(q) == status[q.run] = "started" /\ owner[q.run] = q.owner

\* markUploaded matches userId, runId and status 'started'.
MarkUploaded(q) ==
  /\ q.pc = "marking"
  /\ Uploadable(q)
  /\ status' = [status EXCEPT ![q.run] = "uploaded"]
  /\ Ends(q)
  /\ UNCHANGED <<owner, sent, applied, dataSources, alertVars>>

UploadConflicts(q) ==
  /\ q.pc = "marking"
  /\ ~Uploadable(q)
  /\ Ends(q)
  /\ UNCHANGED <<docVars, sent, applied, dataSources, alertVars>>

-----------------------------------------------------------------------------
(* POST /runs/:runId/complete. *)

CompleteArrives(r) ==
  /\ status[r] = "uploaded"
  /\ Arrives(r, "complete", "committing", owner[r], {})
  /\ UNCHANGED <<docVars, applied, dataSources, alertVars>>

\* Variant: the status looked up by the handler is trusted.
CommitBlindly(q) ==
  /\ q.pc = "committing"
  /\ status' = [status EXCEPT ![q.run] = "committed"]
  /\ Becomes(q, [q EXCEPT !.pc = "reading"])
  /\ UNCHANGED <<owner, sent, applied, dataSources, alertVars>>

\* commitRun matches status 'uploaded'.
Commit(q) ==
  /\ q.pc = "committing"
  /\ status[q.run] = "uploaded"
  /\ status' = [status EXCEPT ![q.run] = "committed"]
  /\ Becomes(q, [q EXCEPT !.pc = "reading"])
  /\ UNCHANGED <<owner, sent, applied, dataSources, alertVars>>

CommitConflicts(q) ==
  /\ q.pc = "committing"
  /\ status[q.run] # "uploaded"
  /\ Ends(q)
  /\ UNCHANGED <<docVars, sent, applied, dataSources, alertVars>>

FailArrives(r) ==
  /\ status[r] \notin {"unstarted", "failed", "committed"}
  /\ Arrives(r, "fail", "failing", owner[r], {})
  /\ UNCHANGED <<docVars, applied, dataSources, alertVars>>

\* Variant: the status looked up by the handler is trusted.
FailRunBlindly(q) ==
  /\ q.pc = "failing"
  /\ status' = [status EXCEPT ![q.run] = "failed"]
  /\ Becomes(q, [q EXCEPT !.pc = "reading"])
  /\ UNCHANGED <<owner, sent, applied, dataSources, alertVars>>

\* failRun matches status 'started' or 'uploaded'.
FailRun(q) ==
  /\ q.pc = "failing"
  /\ status[q.run] \in {"started", "uploaded"}
  /\ status' = [status EXCEPT ![q.run] = "failed"]
  /\ Becomes(q, [q EXCEPT !.pc = "reading"])
  /\ UNCHANGED <<owner, sent, applied, dataSources, alertVars>>

FailConflicts(q) ==
  /\ q.pc = "failing"
  /\ status[q.run] \notin {"started", "uploaded"}
  /\ Ends(q)
  /\ UNCHANGED <<docVars, sent, applied, dataSources, alertVars>>

\* syncStudentDataSourcesAfterIngest{Success,Failure}: find the students
\* owned by the run's user ...
ReadStudents(q) ==
  /\ q.pc = "reading"
  /\ Becomes(q, [q EXCEPT !.pc = "writing", !.seen = dataSources])
  /\ UNCHANGED <<docVars, sent, applied, dataSources, alertVars>>

\* ... and set the whole dataSources array of each.
WriteStudents(q) ==
  /\ q.pc = "writing"
  /\ dataSources' = IF q.owner = Owner
                    THEN [q.seen EXCEPT ![RunSource[q.run]] = q.run]
                    ELSE dataSources
  /\ IF q.kind = "complete"
     THEN Becomes(q, [q EXCEPT !.pc = "scanning"])
     ELSE Ends(q)
  /\ UNCHANGED <<docVars, sent, applied, alertVars>>

-----------------------------------------------------------------------------
(* generateAlertsFromIngestedAssignments, for everything the user has. *)

Scan(q) ==
  /\ q.pc = "scanning"
  /\ Becomes(q, [q EXCEPT !.pc = "alerting", !.todo = StoredItems(q.owner)])
  /\ overlap' = [overlap EXCEPT ![q.owner] =
                   Larger(@, Cardinality(Alerting(q.owner)) + 1)]
  /\ UNCHANGED <<docVars, sent, applied, dataSources, alerts, adds, jobs>>

\* findOne of the fingerprint: already alerted, continue ...
AlertExists(q, i) ==
  /\ q.pc = "alerting"
  /\ i \in q.todo
  /\ alerts[q.owner][i] > 0
  /\ Becomes(q, [q EXCEPT !.todo = @ \ {i}])
  /\ UNCHANGED <<docVars, sent, applied, dataSources, alertVars>>

\* Variant: the fingerprint is not looked up.
AlertUnchecked(q, i) ==
  /\ q.pc = "alerting"
  /\ i \in q.todo
  /\ Becomes(q, [q EXCEPT !.pc = "creating", !.todo = @ \ {i}, !.creating = {i}])
  /\ UNCHANGED <<docVars, sent, applied, dataSources, alertVars>>

\* ... or not found, go on to create it.
AlertMissing(q, i) ==
  /\ q.pc = "alerting"
  /\ i \in q.todo
  /\ alerts[q.owner][i] = 0
  /\ Becomes(q, [q EXCEPT !.pc = "creating", !.todo = @ \ {i}, !.creating = {i}])
  /\ UNCHANGED <<docVars, sent, applied, dataSources, alertVars>>

\* Variant: no default for an id that is not known.
CreateAlertOfKnown(q, i) ==
  /\ q.pc = "creating"
  /\ i \in q.creating
  /\ alerts' = [alerts EXCEPT ![q.owner][i] = @ + 1]
  /\ adds' = IF q.owner = Owner /\ StudentKnown
             THEN [adds EXCEPT ![q.owner][i] = @ + 1] ELSE adds
  /\ Becomes(q, [q EXCEPT !.pc = "alerting", !.creating = {}])
  /\ UNCHANGED <<docVars, sent, applied, dataSources, jobs, overlap>>

\* alertRepo.create, then, if a student is found for it, void queue.add(...):
\* not awaited.
CreateAlert(q, i) ==
  /\ q.pc = "creating"
  /\ i \in q.creating
  /\ alerts' = [alerts EXCEPT ![q.owner][i] = @ + 1]
  /\ adds' = IF FindsStudent(q.owner)
             THEN [adds EXCEPT ![q.owner][i] = @ + 1] ELSE adds
  /\ Becomes(q, [q EXCEPT !.pc = "alerting", !.creating = {}])
  /\ UNCHANGED <<docVars, sent, applied, dataSources, jobs, overlap>>

CompleteReplies(q) ==
  /\ q.pc = "alerting"
  /\ q.todo = {}
  /\ Ends(q)
  /\ UNCHANGED <<docVars, sent, applied, dataSources, alertVars>>

\* The queue has inserted the job.
AddLands(u, i) ==
  /\ adds[u][i] > 0
  /\ jobs' = [jobs EXCEPT ![u][i] = @ + 1]
  /\ adds' = [adds EXCEPT ![u][i] = @ - 1]
  /\ UNCHANGED <<docVars, reqs, sent, applied, dataSources, alerts, overlap>>

\* The add is rejected, which is only logged, or its process dies.
AddLost(u, i) ==
  /\ RequestsDie
  /\ adds[u][i] > 0
  /\ adds' = [adds EXCEPT ![u][i] = @ - 1]
  /\ UNCHANGED <<docVars, reqs, sent, applied, dataSources, alerts, jobs, overlap>>

-----------------------------------------------------------------------------
(* The environment. *)

\* A command throws and the handler replies 500, or the process dies.
RequestDies(q) ==
  /\ RequestsDie
  /\ Ends(q)
  /\ UNCHANGED <<docVars, sent, applied, dataSources, alertVars>>

\* Variant: the reaper looks for uploaded runs.
AbandonUploaded(r) ==
  /\ status[r] = "uploaded"
  /\ status' = [status EXCEPT ![r] = "abandoned"]
  /\ UNCHANGED <<owner, reqs, sent, applied, dataSources, alertVars>>

\* abandonStaleStartedRuns, once the run is an hour old.
Abandon(r) ==
  /\ status[r] = "started"
  /\ status' = [status EXCEPT ![r] = "abandoned"]
  /\ UNCHANGED <<owner, reqs, sent, applied, dataSources, alertVars>>

-----------------------------------------------------------------------------
ClientStep(r) ==
  \/ StartRun(r)
  \/ EnvelopeArrives(r)
  \/ CompleteArrives(r)
  \/ FailArrives(r)

EnvelopeStep(q) ==
  \/ \E i \in Items : ApplyOp(q, i)
  \/ OpsApplied(q)
  \/ AttachSource(q)
  \/ MarkUploaded(q)
  \/ UploadConflicts(q)

CompleteStep(q) ==
  \/ Commit(q)
  \/ CommitConflicts(q)
  \/ FailRun(q)
  \/ FailConflicts(q)
  \/ ReadStudents(q)
  \/ WriteStudents(q)

AlertStep(q) ==
  \/ Scan(q)
  \/ \E i \in Items : AlertExists(q, i)
  \/ \E i \in Items : AlertMissing(q, i)
  \/ \E i \in Items : CreateAlert(q, i)
  \/ CompleteReplies(q)

HandlerStep(q) == EnvelopeStep(q) \/ CompleteStep(q) \/ AlertStep(q)

AddStep(u, i) == AddLands(u, i) \/ AddLost(u, i)

Next ==
  \/ \E r \in Runs : ClientStep(r) \/ Abandon(r)
  \/ \E q \in reqs : HandlerStep(q) \/ RequestDies(q)
  \/ \E u \in Users, i \in Items : AddStep(u, i)

Spec == Init /\ [][Next]_vars

(***************************************************************************)
(* The event loop runs every handler and every unawaited add to its end,   *)
(* and the worker runs the reaper every few minutes.  Clients may go away  *)
(* at any point, and nothing obliges a handler to die.                     *)
(***************************************************************************)
Handles(r, k, n) ==
  \E q \in reqs : q.run = r /\ q.kind = k /\ q.nth = n /\ HandlerStep(q)

Fairness ==
  /\ \A r \in Runs : WF_vars(Abandon(r))
  /\ \A r \in Runs, k \in Kinds, n \in 1..Copies : WF_vars(Handles(r, k, n))
  /\ \A u \in Users, i \in Items : WF_vars(AddLands(u, i))

FairSpec == Spec /\ Fairness

-----------------------------------------------------------------------------
(* Properties. *)

TypeOK ==
  /\ status \in [Runs -> Statuses]
  /\ owner \in [Runs -> Users]
  /\ reqs \subseteq Requests
  /\ sent \in [Runs -> [Kinds -> 0..Copies]]
  /\ applied \subseteq Runs \X Users \X Items
  /\ dataSources \in DataSources
  /\ alerts \in [Users -> [Items -> Nat]]
  /\ adds \in [Users -> [Items -> Nat]]
  /\ jobs \in [Users -> [Items -> Nat]]
  /\ overlap \in [Users -> Nat]

\* Every op of an uploaded or committed run has been written, in the
\* partition the run belongs to, although the handler that checks the status,
\* the one that writes and the one that commits are different and may die.
CommittedRunsAreApplied ==
  \A r \in Runs : status[r] \in {"uploaded", "committed"} =>
    \A i \in Payload[r] : <<r, owner[r], i>> \in applied

Settling(q) == q.pc \in {"reading", "writing", "scanning", "alerting", "creating"}

\* However often complete is sent and whatever it races with, at most one
\* handler of a run gets past the commit (or the failure) and refreshes the
\* student and generates alerts for it.
OneSettler ==
  \A q, p \in reqs : q.run = p.run /\ Settling(q) /\ Settling(p) => q = p

\* The fingerprint lookup and the insert are two commands, so overlapping
\* completions can alert an item twice; they do so at most once per
\* completion that overlaps, and never when completions do not overlap.
AlertsBounded ==
  \A u \in Users, i \in Items : alerts[u][i] <= overlap[u]

\* No notify job without an alert, and never two for one, although the add is
\* not awaited; without failures none is missing once the adds are through, if
\* the user's data resolve to a student.  If they do not, as under a co-parent
\* who owns none or several, the alerts are stored and nobody is ever notified.
JobsFollowAlerts ==
  \A u \in Users, i \in Items :
    /\ jobs[u][i] + adds[u][i] <= alerts[u][i]
    /\ FindsStudent(u) /\ ~RequestsDie => jobs[u][i] + adds[u][i] = alerts[u][i]
    /\ ~FindsStudent(u) => jobs[u][i] + adds[u][i] = 0

\* A run whose client went away before or during the upload is closed.
RunsLeaveStarted ==
  \A r \in Runs : status[r] = "started" ~> status[r] # "started"

\* If handlers are not cut off, every item of a committed run ends up with a
\* notify job, provided a student is found for the user whose data it joined.
CommittedItemsNotified ==
  \A r \in Runs : status[r] = "committed" /\ FindsStudent(owner[r]) ~>
    \A i \in Payload[r] : jobs[owner[r]][i] > 0

-----------------------------------------------------------------------------
(* What a client may rely on. *)

Outcome ==
  [r \in Runs |-> IF status[r] \in {"unstarted", "started", "uploaded"} THEN "open"
                  ELSE IF status[r] = "committed" THEN "published" ELSE "closed"]
Written ==
  [r \in Runs |-> {i \in Payload[r] : \E u \in Users : <<r, u, i>> \in applied}]

Contract == INSTANCE IngestContract WITH outcome <- Outcome, written <- Written

\* The handlers, the repository and the reaper implement IngestContract.
ImplementsContract == Contract!Spec
=============================================================================
