---------------------------- MODULE IngestRunProofs ----------------------------
(***************************************************************************)
(* Theorems about IngestRun, for all sets of runs, sources, items and      *)
(* users, any number of copies of each request, and with or without dying  *)
(* handlers.  Above type correctness:                                      *)
(*   AppliedInv  what a handler has written when it is at a given step     *)
(*   SettleInv   a handler past the commit or failure has its run for good *)
(*   AlertInv    alerts and alerts being created, counted against overlap  *)
(* JobsFollowAlerts is inductive as it stands; the refinement of           *)
(* IngestContract rests on AppliedInv.                                     *)
(***************************************************************************)
EXTENDS IngestRun, FiniteSetTheorems, TLAPS

-----------------------------------------------------------------------------
(* Type correctness. *)

LEMMA TypeInit == Init => TypeOK
<1> SUFFICES ASSUME Init PROVE TypeOK
  OBVIOUS
<1>1. status \in [Runs -> Statuses] /\ owner \in [Runs -> Users]
  BY IngestConstants DEF Init, Statuses
<1>2. sent \in [Runs -> [Kinds -> 0..Copies]]
  BY IngestConstants DEF Init
<1>3. NoneYet \in [Users -> [Items -> Nat]]
  BY DEF NoneYet
<1> QED BY <1>1, <1>2, <1>3 DEF Init, TypeOK

\* A request that arrives is well formed and within the bound.
LEMMA TypeArrives ==
  ASSUME TypeOK, NEW r \in Runs, NEW k \in Kinds, NEW pc \in Steps,
         NEW u \in Users, NEW todo \in SUBSET Items, Arrives(r, k, pc, u, todo)
  PROVE  /\ reqs' \subseteq Requests
         /\ sent' \in [Runs -> [Kinds -> 0..Copies]]
<1> USE DEF TypeOK
<1>1. sent[r][k] \in 0..Copies /\ sent[r][k] < Copies /\ Copies \in Nat
  BY IngestConstants DEF Arrives
<1>2. sent[r][k] + 1 \in 0..Copies /\ sent[r][k] + 1 \in 1..Copies
  BY <1>1
<1>3. sent' \in [Runs -> [Kinds -> 0..Copies]]
  BY <1>2 DEF Arrives
<1>4. NoSources \in DataSources
  BY DEF NoSources, DataSources
<1>5. [run |-> r, kind |-> k, nth |-> sent[r][k] + 1, pc |-> pc, owner |-> u,
       todo |-> todo, creating |-> {}, seen |-> NoSources] \in Requests
  BY <1>2, <1>4 DEF Requests
<1> QED BY <1>3, <1>5 DEF Arrives

LEMMA ArrivalForm ==
  ASSUME NEW r, NEW k, NEW pc, NEW u, NEW todo, Arrives(r, k, pc, u, todo)
  PROVE  \E p : /\ reqs' = reqs \union {p}
                /\ p.run = r /\ p.kind = k /\ p.pc = pc /\ p.owner = u
                /\ p.todo = todo /\ p.creating = {}
<1> DEFINE new == [run |-> r, kind |-> k, nth |-> sent[r][k] + 1, pc |-> pc,
                   owner |-> u, todo |-> todo, creating |-> {}, seen |-> NoSources]
<1>1. reqs' = reqs \union {new}
  BY DEF Arrives
<1>2. /\ new.run = r /\ new.kind = k /\ new.pc = pc /\ new.owner = u
      /\ new.todo = todo /\ new.creating = {}
  OBVIOUS
<1> HIDE DEF new
<1> QED BY <1>1, <1>2

LEMMA TypeClientStep ==
  ASSUME TypeOK, NEW r \in Runs, ClientStep(r) \/ Abandon(r)
  PROVE  TypeOK'
<1> USE DEF TypeOK
<1>1. \A b \in BOOLEAN : DataUser(r, b) \in Users
  BY IngestConstants DEF DataUser
<1>2. CASE StartRun(r)
  BY <1>1, <1>2 DEF StartRun, Statuses, alertVars
<1>3. CASE EnvelopeArrives(r)
  <2>1. Payload[r] \in SUBSET Items
    BY IngestConstants
  <2>2. "envelope" \in Kinds /\ "applying" \in Steps
    BY DEF Kinds, Steps
  <2> QED BY <1>1, <1>3, <2>1, <2>2, TypeArrives
    DEF EnvelopeArrives, docVars, alertVars
<1>4. CASE CompleteArrives(r)
  <2>1. "complete" \in Kinds /\ "committing" \in Steps
    BY DEF Kinds, Steps
  <2> QED BY <1>4, <2>1, TypeArrives DEF CompleteArrives, docVars, alertVars
<1>5. CASE FailArrives(r)
  <2>1. "fail" \in Kinds /\ "failing" \in Steps
    BY DEF Kinds, Steps
  <2> QED BY <1>5, <2>1, TypeArrives DEF FailArrives, docVars, alertVars
<1>6. CASE Abandon(r)
  BY <1>6 DEF Abandon, Statuses, alertVars
<1> QED BY <1>2, <1>3, <1>4, <1>5, <1>6 DEF ClientStep

LEMMA TypeEnvelopeStep ==
  ASSUME TypeOK, NEW q \in reqs, EnvelopeStep(q)
  PROVE  TypeOK'
<1> USE DEF TypeOK
<1>q. q \in Requests
  OBVIOUS
<1>1. ASSUME NEW i \in Items, ApplyOp(q, i) PROVE TypeOK'
  <2>1. [q EXCEPT !.todo = @ \ {i}] \in Requests
    BY <1>q DEF Requests
  <2>2. <<q.run, q.owner, i>> \in Runs \X Users \X Items
    BY <1>q DEF Requests
  <2> QED BY <1>1, <2>1, <2>2 DEF ApplyOp, Becomes, docVars, alertVars
<1>2. CASE OpsApplied(q)
  <2>1. [q EXCEPT !.pc = "attaching", !.seen = dataSources] \in Requests
    BY <1>q DEF Requests, Steps
  <2> QED BY <1>2, <2>1 DEF OpsApplied, Becomes, docVars, alertVars
<1>3. CASE AttachSource(q)
  <2>1. [q EXCEPT !.pc = "marking"] \in Requests
    BY <1>q DEF Requests, Steps
  <2>2. q.seen \in DataSources
    BY <1>q DEF Requests
  <2>3. [q.seen EXCEPT ![RunSource[q.run]] = NoRun] \in DataSources
    BY <2>2 DEF DataSources
  <2> QED BY <1>3, <2>1, <2>3 DEF AttachSource, Becomes, docVars, alertVars
<1>4. CASE MarkUploaded(q)
  BY <1>4 DEF MarkUploaded, Ends, Statuses, alertVars
<1>5. CASE UploadConflicts(q)
  BY <1>5 DEF UploadConflicts, Ends, docVars, alertVars
<1> QED BY <1>1, <1>2, <1>3, <1>4, <1>5 DEF EnvelopeStep

LEMMA TypeCompleteStep ==
  ASSUME TypeOK, NEW q \in reqs, CompleteStep(q)
  PROVE  TypeOK'
<1> USE DEF TypeOK
<1>q. q \in Requests /\ q.run \in Runs /\ q.seen \in DataSources
  BY DEF Requests
<1>1. CASE Commit(q) \/ FailRun(q)
  <2>1. [q EXCEPT !.pc = "reading"] \in Requests
    BY <1>q DEF Requests, Steps
  <2> QED BY <1>1, <2>1 DEF Commit, FailRun, Becomes, Statuses, alertVars
<1>2. CASE CommitConflicts(q) \/ FailConflicts(q)
  BY <1>2 DEF CommitConflicts, FailConflicts, Ends, docVars, alertVars
<1>3. CASE ReadStudents(q)
  <2>1. [q EXCEPT !.pc = "writing", !.seen = dataSources] \in Requests
    BY <1>q DEF Requests, Steps
  <2> QED BY <1>3, <2>1 DEF ReadStudents, Becomes, docVars, alertVars
<1>4. CASE WriteStudents(q)
  <2>1. [q EXCEPT !.pc = "scanning"] \in Requests
    BY <1>q DEF Requests, Steps
  <2>2. [q.seen EXCEPT ![RunSource[q.run]] = q.run] \in DataSources
    BY <1>q DEF DataSources
  <2> QED BY <1>4, <2>1, <2>2 DEF WriteStudents, Becomes, Ends, docVars, alertVars
<1> QED BY <1>1, <1>2, <1>3, <1>4 DEF CompleteStep

\* Adding to one counter of a user keeps all of them natural.
LEMMA TypeAdded ==
  ASSUME NEW f \in [Users -> [Items -> Nat]], NEW u \in Users, NEW i \in Items,
         NEW n \in Nat
  PROVE  [f EXCEPT ![u][i] = n] \in [Users -> [Items -> Nat]]
OBVIOUS

LEMMA TypeAlertStep ==
  ASSUME TypeOK, IsFiniteSet(reqs), NEW q \in reqs, AlertStep(q)
  PROVE  TypeOK'
<1> USE DEF TypeOK
<1>q. q \in Requests /\ q.owner \in Users /\ q.todo \in SUBSET Items
      /\ q.creating \in SUBSET Items
  BY DEF Requests
<1>1. CASE Scan(q)
  <2>1. [q EXCEPT !.pc = "alerting", !.todo = StoredItems(q.owner)] \in Requests
    BY <1>q DEF Requests, Steps, StoredItems
  <2>2. Cardinality(Alerting(q.owner)) \in Nat
    BY FS_Subset, FS_CardinalityType DEF Alerting
  <2>3. Larger(overlap[q.owner], Cardinality(Alerting(q.owner)) + 1) \in Nat
    BY <1>q, <2>2 DEF Larger
  <2> QED BY <1>1, <2>1, <2>3 DEF Scan, Becomes, docVars
<1>2. ASSUME NEW i \in Items, AlertExists(q, i) \/ AlertMissing(q, i)
      PROVE  TypeOK'
  <2>1. [q EXCEPT !.todo = @ \ {i}] \in Requests
    BY <1>q DEF Requests
  <2>2. [q EXCEPT !.pc = "creating", !.todo = @ \ {i}, !.creating = {i}] \in Requests
    BY <1>q DEF Requests, Steps
  <2> QED BY <1>2, <2>1, <2>2 DEF AlertExists, AlertMissing, Becomes, docVars, alertVars
<1>3. ASSUME NEW i \in Items, CreateAlert(q, i) PROVE TypeOK'
  <2>1. [q EXCEPT !.pc = "alerting", !.creating = {}] \in Requests
    BY <1>q DEF Requests, Steps
  <2>2. alerts[q.owner][i] + 1 \in Nat /\ adds[q.owner][i] + 1 \in Nat
    BY <1>q
  <2>3. /\ alerts' \in [Users -> [Items -> Nat]]
        /\ adds' \in [Users -> [Items -> Nat]]
    BY <1>q, <1>3, <2>2, TypeAdded DEF CreateAlert
  <2> QED BY <1>3, <2>1, <2>3 DEF CreateAlert, Becomes, docVars
<1>4. CASE CompleteReplies(q)
  BY <1>4 DEF CompleteReplies, Ends, docVars, alertVars
<1> QED BY <1>1, <1>2, <1>3, <1>4 DEF AlertStep

LEMMA TypeAddStep ==
  ASSUME TypeOK, NEW u \in Users, NEW i \in Items, AddStep(u, i)
  PROVE  TypeOK'
<1> USE DEF TypeOK
<1>1. adds[u][i] > 0
  BY DEF AddStep, AddLands, AddLost
<1>2. adds[u][i] - 1 \in Nat /\ jobs[u][i] + 1 \in Nat
  BY <1>1
<1>3. [adds EXCEPT ![u][i] = @ - 1] \in [Users -> [Items -> Nat]]
  BY <1>2, TypeAdded
<1>4. [jobs EXCEPT ![u][i] = @ + 1] \in [Users -> [Items -> Nat]]
  BY <1>2, TypeAdded
<1>5. CASE AddLands(u, i)
  BY <1>3, <1>4, <1>5 DEF AddLands, docVars
<1>6. CASE AddLost(u, i)
  BY <1>3, <1>6 DEF AddLost, docVars
<1> QED BY <1>5, <1>6 DEF AddStep

TypeInv == TypeOK /\ IsFiniteSet(reqs)

\* How a step changes the set of handlers.
LEMMA HandlersChange ==
  ASSUME [Next]_vars
  PROVE  \/ reqs' = reqs
         \/ \E p : reqs' = reqs \union {p}
         \/ \E q \in reqs : reqs' = reqs \ {q}
         \/ \E q \in reqs : \E p : reqs' = (reqs \ {q}) \union {p}
<1>1. CASE UNCHANGED vars
  BY <1>1 DEF vars
<1>2. ASSUME NEW r \in Runs, ClientStep(r) \/ Abandon(r)
      PROVE  reqs' = reqs \/ \E p : reqs' = reqs \union {p}
  BY <1>2 DEF ClientStep, StartRun, EnvelopeArrives, CompleteArrives, FailArrives,
     Abandon, Arrives
<1>3. ASSUME NEW q \in reqs, EnvelopeStep(q) \/ CompleteStep(q)
      PROVE  Ends(q) \/ \E p : Becomes(q, p)
  BY <1>3 DEF EnvelopeStep, ApplyOp, OpsApplied, AttachSource, MarkUploaded,
     UploadConflicts, CompleteStep, Commit, CommitConflicts, FailRun, FailConflicts,
     ReadStudents, WriteStudents
<1>4. ASSUME NEW q \in reqs, AlertStep(q) \/ RequestDies(q)
      PROVE  Ends(q) \/ \E p : Becomes(q, p)
  BY <1>4 DEF AlertStep, Scan, AlertExists, AlertMissing, CreateAlert,
     CompleteReplies, RequestDies
<1>5. ASSUME NEW u \in Users, NEW i \in Items, AddStep(u, i) PROVE reqs' = reqs
  BY <1>5 DEF AddStep, AddLands, AddLost
<1>6. CASE \E q \in reqs : HandlerStep(q) \/ RequestDies(q)
  <2>1. PICK q \in reqs : HandlerStep(q) \/ RequestDies(q)
    BY <1>6
  <2>2. Ends(q) \/ \E p : Becomes(q, p)
    BY <2>1, <1>3, <1>4 DEF HandlerStep
  <2> QED BY <2>2 DEF Ends, Becomes
<1> QED BY <1>1, <1>2, <1>5, <1>6 DEF Next

LEMMA TypeNext == TypeInv /\ [Next]_vars => TypeInv'
<1> SUFFICES ASSUME TypeInv, [Next]_vars PROVE TypeInv'
  OBVIOUS
<1> USE DEF TypeInv
<1>1. IsFiniteSet(reqs')
  <2>1. \A p : IsFiniteSet(reqs \union {p})
    BY FS_AddElement
  <2>2. \A q : IsFiniteSet(reqs \ {q})
    BY FS_RemoveElement
  <2>3. \A q, p : IsFiniteSet((reqs \ {q}) \union {p})
    BY <2>2, FS_AddElement
  <2>4. \/ reqs' = reqs
        \/ \E p : reqs' = reqs \union {p}
        \/ \E q \in reqs : reqs' = reqs \ {q}
        \/ \E q \in reqs : \E p : reqs' = (reqs \ {q}) \union {p}
    BY HandlersChange
  <2>5. CASE reqs' = reqs
    BY <2>5
  <2>6. CASE \E p : reqs' = reqs \union {p}
    BY <2>1, <2>6
  <2>7. CASE \E q \in reqs : reqs' = reqs \ {q}
    BY <2>2, <2>7
  <2>8. CASE \E q \in reqs : \E p : reqs' = (reqs \ {q}) \union {p}
    BY <2>3, <2>8
  <2> QED BY <2>4, <2>5, <2>6, <2>7, <2>8
<1>2. TypeOK'
  <2>1. CASE UNCHANGED vars
    BY <2>1 DEF vars, TypeOK
  <2>2. ASSUME NEW q \in reqs, RequestDies(q) PROVE TypeOK'
    BY <2>2 DEF RequestDies, Ends, TypeOK, docVars, alertVars
  <2> QED BY <2>1, <2>2, TypeClientStep, TypeEnvelopeStep, TypeCompleteStep,
             TypeAlertStep, TypeAddStep DEF Next, HandlerStep
<1> QED BY <1>1, <1>2

LEMMA TypeAlways == Spec => []TypeInv
<1>1. Init => TypeInv
  BY TypeInit, FS_EmptySet DEF Init, TypeInv
<1> QED BY <1>1, TypeNext, PTL DEF Spec

\* The state is well typed: no counter goes negative and no request, run or
\* data source takes a form the code does not know.
THEOREM TypeCorrect == Spec => []TypeOK
<1> QED BY TypeAlways, PTL DEF TypeInv

-----------------------------------------------------------------------------
(* AppliedInv: the ops a handler has left are the ones not yet written. *)

Uploading(q) == q.pc \in {"applying", "attaching", "marking"}

WrittenSoFar(q) ==
  /\ q.todo \subseteq Payload[q.run]
  /\ \A i \in Payload[q.run] :
       \/ q.pc = "applying" /\ i \in q.todo
       \/ <<q.run, q.owner, i>> \in applied

AppliedInv ==
  /\ \A q \in reqs : Uploading(q) => WrittenSoFar(q)
  /\ CommittedRunsAreApplied

\* Writes are never undone, and the owner of a started run never changes.
LEMMA AppliedGrows ==
  ASSUME TypeOK, [Next]_vars
  PROVE  /\ applied \subseteq applied'
         /\ \A r \in Runs : status[r] # "unstarted" => owner'[r] = owner[r]
<1>1. CASE UNCHANGED vars
  BY <1>1 DEF vars
<1>2. ASSUME NEW r \in Runs, ClientStep(r) \/ Abandon(r)
      PROVE  /\ applied' = applied
             /\ owner' = owner \/ (status[r] = "unstarted" /\
                                  owner' = [owner EXCEPT ![r] = DataUser(r, FALSE)])
  BY <1>2 DEF ClientStep, StartRun, EnvelopeArrives, CompleteArrives, FailArrives,
     Abandon, docVars
<1>3. ASSUME NEW q \in reqs, HandlerStep(q) \/ RequestDies(q)
      PROVE  applied \subseteq applied' /\ owner' = owner
  <2>1. CASE EnvelopeStep(q)
    BY <2>1 DEF EnvelopeStep, ApplyOp, OpsApplied, AttachSource, MarkUploaded,
       UploadConflicts, docVars
  <2>2. CASE CompleteStep(q)
    BY <2>2 DEF CompleteStep, Commit, CommitConflicts, FailRun, FailConflicts,
       ReadStudents, WriteStudents, docVars
  <2>3. CASE AlertStep(q) \/ RequestDies(q)
    BY <2>3 DEF AlertStep, Scan, AlertExists, AlertMissing, CreateAlert,
       CompleteReplies, RequestDies, docVars
  <2> QED BY <1>3, <2>1, <2>2, <2>3 DEF HandlerStep
<1>4. ASSUME NEW u \in Users, NEW i \in Items, AddStep(u, i)
      PROVE  applied' = applied /\ owner' = owner
  BY <1>4 DEF AddStep, AddLands, AddLost, docVars
<1> QED
  <2>1. ASSUME NEW s \in Runs, NEW r \in Runs, status[r] # "unstarted",
               ClientStep(s) \/ Abandon(s)
        PROVE  owner'[r] = owner[r]
    BY <1>2, <2>1 DEF TypeOK
  <2> QED BY <1>1, <1>2, <1>3, <1>4, <2>1 DEF Next

\* Steps that add no uploading handler and mark no run keep AppliedInv.
LEMMA AppliedKept ==
  ASSUME TypeOK, AppliedInv, [Next]_vars,
         \A q \in reqs' : Uploading(q) => q \in reqs,
         \A r \in Runs : status'[r] \in {"uploaded", "committed"} =>
                         status[r] \in {"uploaded", "committed"}
  PROVE  AppliedInv'
<1>1. applied \subseteq applied'
  BY AppliedGrows
<1>2. ASSUME NEW q \in reqs', Uploading(q) PROVE WrittenSoFar(q)'
  BY <1>1, <1>2 DEF AppliedInv, WrittenSoFar
<1>3. CommittedRunsAreApplied'
  <2> SUFFICES ASSUME NEW r \in Runs, status'[r] \in {"uploaded", "committed"},
                      NEW i \in Payload[r]
               PROVE  <<r, owner'[r], i>> \in applied'
    BY DEF CommittedRunsAreApplied
  <2>1. status[r] \in {"uploaded", "committed"} /\ owner'[r] = owner[r]
    BY AppliedGrows
  <2> QED BY <1>1, <2>1 DEF AppliedInv, CommittedRunsAreApplied
<1> QED BY <1>2, <1>3 DEF AppliedInv, Uploading

LEMMA EnvelopeForm ==
  ASSUME NEW r \in Runs, EnvelopeArrives(r)
  PROVE  \E p : /\ reqs' = reqs \union {p}
                /\ p.run = r /\ p.todo = Payload[r] /\ p.pc = "applying"
<1> DEFINE u == DataUser(r, TRUE)
<1>1. Arrives(r, "envelope", "applying", u, Payload[r])
  BY DEF EnvelopeArrives
<1> HIDE DEF u
<1> QED BY <1>1, ArrivalForm

LEMMA AppliedClientStep ==
  ASSUME TypeOK, AppliedInv, NEW r \in Runs, ClientStep(r) \/ Abandon(r)
  PROVE  AppliedInv'
<1>n. [Next]_vars
  BY DEF Next
<1>1. CASE StartRun(r) \/ Abandon(r)
  BY <1>1, <1>n, AppliedKept DEF StartRun, Abandon, TypeOK
<1>2. CASE CompleteArrives(r) \/ FailArrives(r)
  <2>1. \A q \in reqs' : Uploading(q) => q \in reqs
    BY <1>2 DEF CompleteArrives, FailArrives, Arrives, Uploading
  <2>2. status' = status
    BY <1>2 DEF CompleteArrives, FailArrives, docVars
  <2> QED BY <1>n, <2>1, <2>2, AppliedKept
<1>3. CASE EnvelopeArrives(r)
  <2>1. UNCHANGED <<status, owner, applied>>
    BY <1>3 DEF EnvelopeArrives, docVars
  <2>2. ASSUME NEW q \in reqs', Uploading(q) PROVE WrittenSoFar(q)'
    <3>0. PICK p : /\ reqs' = reqs \union {p}
                   /\ p.run = r /\ p.todo = Payload[r] /\ p.pc = "applying"
      BY <1>3, EnvelopeForm
    <3>1. q \in reqs \/ q = p
      BY <3>0
    <3> QED BY <2>1, <2>2, <3>0, <3>1 DEF AppliedInv, WrittenSoFar
  <2>3. CommittedRunsAreApplied'
    BY <2>1 DEF AppliedInv, CommittedRunsAreApplied
  <2> QED BY <2>2, <2>3 DEF AppliedInv, Uploading
<1> QED BY <1>1, <1>2, <1>3 DEF ClientStep

\* An uploading handler that goes on is as far as what has been written.
LEMMA AppliedBecomes ==
  ASSUME TypeOK, AppliedInv, [Next]_vars, UNCHANGED docVars,
         NEW q \in reqs, NEW p, Becomes(q, p), Uploading(p) => WrittenSoFar(p)'
  PROVE  AppliedInv'
<1>1. applied \subseteq applied'
  BY AppliedGrows
<1>2. ASSUME NEW x \in reqs', Uploading(x) PROVE WrittenSoFar(x)'
  <2>1. CASE x = p
    BY <1>2, <2>1
  <2>2. CASE x \in reqs
    BY <1>1, <1>2, <2>2 DEF AppliedInv, WrittenSoFar
  <2> QED BY <1>2, <2>1, <2>2 DEF Becomes
<1>3. CommittedRunsAreApplied'
  BY <1>1 DEF AppliedInv, CommittedRunsAreApplied, docVars
<1> QED BY <1>2, <1>3 DEF AppliedInv, Uploading

LEMMA AppliedEnvelopeStep ==
  ASSUME TypeOK, AppliedInv, NEW q \in reqs, EnvelopeStep(q)
  PROVE  AppliedInv'
<1>n. [Next]_vars
  BY DEF Next, HandlerStep
<1>q. q \in Requests
  BY DEF TypeOK
<1>w. Uploading(q) => WrittenSoFar(q)
  BY DEF AppliedInv
<1>1. ASSUME NEW i \in Items, ApplyOp(q, i) PROVE AppliedInv'
  <2> DEFINE p == [q EXCEPT !.todo = @ \ {i}]
  <2>1. /\ p.todo = q.todo \ {i} /\ p.run = q.run /\ p.owner = q.owner
        /\ p.pc = q.pc
    BY <1>q DEF Requests
  <2>2. Becomes(q, p) /\ applied' = applied \union {<<q.run, q.owner, i>>}
    BY <1>1 DEF ApplyOp
  <2>3. q.pc = "applying" /\ UNCHANGED docVars
    BY <1>1 DEF ApplyOp
  <2> HIDE DEF p
  <2>4. WrittenSoFar(p)'
    BY <1>w, <2>1, <2>2, <2>3 DEF Uploading, WrittenSoFar
  <2> QED BY <1>n, <2>2, <2>3, <2>4, AppliedBecomes
<1>2. CASE OpsApplied(q)
  <2>1. PICK p : /\ Becomes(q, p)
                 /\ p.todo = {} /\ p.run = q.run /\ p.owner = q.owner
    <3> DEFINE new == [q EXCEPT !.pc = "attaching", !.seen = dataSources]
    <3>1. new.todo = {} /\ new.run = q.run /\ new.owner = q.owner
      BY <1>q, <1>2 DEF Requests, OpsApplied
    <3>2. Becomes(q, new)
      BY <1>2 DEF OpsApplied
    <3> HIDE DEF new
    <3> QED BY <3>1, <3>2
  <2>2. applied' = applied /\ UNCHANGED docVars
    BY <1>2 DEF OpsApplied
  <2>3. q.pc = "applying" /\ q.todo = {}
    BY <1>2 DEF OpsApplied
  <2>4. WrittenSoFar(p)'
    BY <1>w, <2>1, <2>2, <2>3 DEF Uploading, WrittenSoFar
  <2> QED BY <1>n, <2>1, <2>2, <2>4, AppliedBecomes
<1>3. CASE AttachSource(q)
  <2> DEFINE p == [q EXCEPT !.pc = "marking"]
  <2>1. p.todo = q.todo /\ p.run = q.run /\ p.owner = q.owner
    BY <1>q DEF Requests
  <2>2. Becomes(q, p) /\ applied' = applied /\ UNCHANGED docVars
    BY <1>3 DEF AttachSource
  <2>3. q.pc = "attaching"
    BY <1>3 DEF AttachSource
  <2> HIDE DEF p
  <2>4. WrittenSoFar(p)'
    BY <1>w, <2>1, <2>2, <2>3 DEF Uploading, WrittenSoFar
  <2> QED BY <1>n, <2>2, <2>4, AppliedBecomes
<1>4. CASE MarkUploaded(q)
  <2>1. /\ reqs' = reqs \ {q} /\ applied' = applied /\ owner' = owner
        /\ status' = [status EXCEPT ![q.run] = "uploaded"]
        /\ q.pc = "marking" /\ owner[q.run] = q.owner
    BY <1>4 DEF MarkUploaded, Ends, Uploadable
  <2>2. \A i \in Payload[q.run] : <<q.run, owner[q.run], i>> \in applied
    BY <1>w, <2>1 DEF Uploading, WrittenSoFar
  <2>3. CommittedRunsAreApplied'
    BY <2>1, <2>2 DEF AppliedInv, CommittedRunsAreApplied, TypeOK
  <2>4. \A x \in reqs' : Uploading(x) => WrittenSoFar(x)'
    BY <2>1 DEF AppliedInv, WrittenSoFar
  <2> QED BY <2>3, <2>4 DEF AppliedInv, Uploading
<1>5. CASE UploadConflicts(q)
  BY <1>5, <1>n, AppliedKept DEF UploadConflicts, Ends, docVars
<1> QED BY <1>1, <1>2, <1>3, <1>4, <1>5 DEF EnvelopeStep

\* Past the commit or failure a handler uploads nothing any more.
LEMMA UploadsNoMore ==
  ASSUME TypeOK, NEW q \in reqs, CompleteStep(q) \/ AlertStep(q) \/ RequestDies(q),
         NEW x \in reqs', Uploading(x)
  PROVE  x \in reqs
<1>q. q \in Requests
  BY DEF TypeOK
<1>1. /\ [q EXCEPT !.pc = "reading"].pc = "reading"
      /\ [q EXCEPT !.pc = "writing", !.seen = dataSources].pc = "writing"
      /\ [q EXCEPT !.pc = "scanning"].pc = "scanning"
  BY <1>q DEF Requests
<1>2. /\ [q EXCEPT !.pc = "alerting", !.todo = StoredItems(q.owner)].pc = "alerting"
      /\ [q EXCEPT !.pc = "alerting", !.creating = {}].pc = "alerting"
  BY <1>q DEF Requests
<1>3. ASSUME NEW i \in Items
      PROVE  /\ [q EXCEPT !.todo = @ \ {i}].pc = q.pc
             /\ [q EXCEPT !.pc = "creating", !.todo = @ \ {i},
                          !.creating = {i}].pc = "creating"
  BY <1>q DEF Requests
<1>4. CASE Ends(q)
  BY <1>4 DEF Ends
<1>5. ASSUME NEW p, Becomes(q, p), ~Uploading(p) PROVE x \in reqs
  BY <1>5 DEF Becomes
<1>6. CASE CompleteStep(q)
  BY <1>1, <1>4, <1>5, <1>6 DEF CompleteStep, Commit, CommitConflicts, FailRun,
     FailConflicts, ReadStudents, WriteStudents, Uploading
<1>7. CASE AlertStep(q)
  BY <1>2, <1>3, <1>4, <1>5, <1>7 DEF AlertStep, Scan, AlertExists, AlertMissing,
     CreateAlert, CompleteReplies, Uploading
<1> QED BY <1>4, <1>6, <1>7 DEF RequestDies

LEMMA AppliedCompleteStep ==
  ASSUME TypeOK, AppliedInv, NEW q \in reqs, CompleteStep(q)
  PROVE  AppliedInv'
<1>n. [Next]_vars
  BY DEF Next, HandlerStep
<1>1. ASSUME NEW p \in reqs', Uploading(p) PROVE p \in reqs
  BY <1>1, UploadsNoMore
<1>2. ASSUME NEW r \in Runs, status'[r] \in {"uploaded", "committed"}
      PROVE  status[r] \in {"uploaded", "committed"}
  <2>1. CASE Commit(q)
    BY <1>2, <2>1 DEF Commit, TypeOK
  <2>2. CASE FailRun(q)
    BY <1>2, <2>2 DEF FailRun, TypeOK
  <2>3. CASE status' = status
    BY <1>2, <2>3
  <2> QED BY <2>1, <2>2, <2>3 DEF CompleteStep, CommitConflicts, FailConflicts,
             ReadStudents, WriteStudents, docVars
<1> QED BY <1>n, <1>1, <1>2, AppliedKept

LEMMA AppliedNext == TypeOK /\ AppliedInv /\ [Next]_vars => AppliedInv'
<1> SUFFICES ASSUME TypeOK, AppliedInv, [Next]_vars PROVE AppliedInv'
  OBVIOUS
<1>1. CASE UNCHANGED vars
  BY <1>1, AppliedKept DEF vars
<1>2. ASSUME NEW q \in reqs, AlertStep(q) \/ RequestDies(q) PROVE AppliedInv'
  <2>2. \A p \in reqs' : Uploading(p) => p \in reqs
    BY <1>2, UploadsNoMore
  <2>3. status' = status
    BY <1>2 DEF AlertStep, Scan, AlertExists, AlertMissing, CreateAlert,
       CompleteReplies, RequestDies, docVars
  <2> QED BY <2>2, <2>3, AppliedKept
<1>3. ASSUME NEW u \in Users, NEW i \in Items, AddStep(u, i) PROVE AppliedInv'
  BY <1>3, AppliedKept DEF AddStep, AddLands, AddLost, docVars
<1> QED BY <1>1, <1>2, <1>3, AppliedClientStep, AppliedEnvelopeStep,
           AppliedCompleteStep DEF Next, HandlerStep

\* Every op of an uploaded or committed run is written under the run's owner,
\* whichever handlers died, raced or were retried on the way there.
THEOREM UploadsComplete == Spec => []CommittedRunsAreApplied
<1>1. Init => AppliedInv
  BY DEF Init, AppliedInv, CommittedRunsAreApplied
<1>2. TypeOK /\ AppliedInv /\ [Next]_vars => AppliedInv'
  BY AppliedNext
<1>3. AppliedInv => CommittedRunsAreApplied
  BY DEF AppliedInv
<1> QED BY <1>1, <1>2, <1>3, TypeCorrect, PTL DEF Spec

-----------------------------------------------------------------------------
(* SettleInv: who is past the commit or failure has closed the run, and    *)
(* nothing opens it again.                                                 *)

SettleInv ==
  /\ \A q \in reqs : Settling(q) => status[q.run] \in {"committed", "failed"}
  /\ OneSettler

LEMMA SettledStays ==
  ASSUME TypeOK, [Next]_vars, NEW r \in Runs, status[r] \in {"committed", "failed"}
  PROVE  status'[r] \in {"committed", "failed"}
<1>1. CASE status' = status
  BY <1>1
<1>2. ASSUME NEW s \in Runs, NEW new,
             status' = [status EXCEPT ![s] = new],
             s = r => new \in {"committed", "failed"}
      PROVE  status'[r] \in {"committed", "failed"}
  BY <1>2 DEF TypeOK
<1>3. ASSUME NEW s \in Runs, ClientStep(s) \/ Abandon(s)
      PROVE  status'[r] \in {"committed", "failed"}
  <2>1. CASE StartRun(s)
    BY <2>1, <1>2 DEF StartRun
  <2>2. CASE Abandon(s)
    BY <2>2, <1>2 DEF Abandon
  <2>3. CASE EnvelopeArrives(s) \/ CompleteArrives(s) \/ FailArrives(s)
    BY <2>3, <1>1 DEF EnvelopeArrives, CompleteArrives, FailArrives, docVars
  <2> QED BY <1>3, <2>1, <2>2, <2>3 DEF ClientStep
<1>4. ASSUME NEW q \in reqs, HandlerStep(q) \/ RequestDies(q)
      PROVE  status'[r] \in {"committed", "failed"}
  <2>q. q.run \in Runs
    BY DEF TypeOK, Requests
  <2>1. CASE MarkUploaded(q)
    BY <2>1, <2>q, <1>2 DEF MarkUploaded, Uploadable
  <2>2. CASE Commit(q)
    BY <2>2, <2>q, <1>2 DEF Commit
  <2>3. CASE FailRun(q)
    BY <2>3, <2>q, <1>2 DEF FailRun
  <2>4. CASE EnvelopeStep(q) /\ ~MarkUploaded(q)
    BY <2>4, <1>1 DEF EnvelopeStep, ApplyOp, OpsApplied, AttachSource,
       UploadConflicts, docVars
  <2>5. CASE CompleteStep(q) /\ ~Commit(q) /\ ~FailRun(q)
    BY <2>5, <1>1 DEF CompleteStep, CommitConflicts, FailConflicts, ReadStudents,
       WriteStudents, docVars
  <2>6. CASE AlertStep(q) \/ RequestDies(q)
    BY <2>6, <1>1 DEF AlertStep, Scan, AlertExists, AlertMissing, CreateAlert,
       CompleteReplies, RequestDies, docVars
  <2> QED BY <1>4, <2>1, <2>2, <2>3, <2>4, <2>5, <2>6 DEF HandlerStep
<1>5. ASSUME NEW u \in Users, NEW i \in Items, AddStep(u, i) PROVE status' = status
  BY <1>5 DEF AddStep, AddLands, AddLost, docVars
<1> QED BY <1>1, <1>3, <1>4, <1>5 DEF Next, vars

\* A handler settles by settling its open run, or goes on settling.
Settles(q, p) ==
  /\ Becomes(q, p)
  /\ p.run = q.run
  /\ Settling(p)
  /\ \/ Settling(q)
     \/ status[q.run] \in {"started", "uploaded"} /\
        status'[q.run] \in {"committed", "failed"}

NoNewSettler == \A x \in reqs' : Settling(x) => x \in reqs

LEMMA SettlerComplete ==
  ASSUME TypeOK, NEW q \in reqs, CompleteStep(q)
  PROVE  NoNewSettler \/ \E p : Settles(q, p)
<1>q. q \in Requests /\ q.run \in Runs
  BY DEF TypeOK, Requests
<1>1. CASE Commit(q) \/ FailRun(q)
  <2> DEFINE p == [q EXCEPT !.pc = "reading"]
  <2>1. p.run = q.run /\ p.pc = "reading"
    BY <1>q DEF Requests
  <2>2. Becomes(q, p) /\ status[q.run] \in {"started", "uploaded"}
    BY <1>1 DEF Commit, FailRun
  <2>3. status'[q.run] \in {"committed", "failed"}
    BY <1>1, <1>q DEF Commit, FailRun, TypeOK
  <2> HIDE DEF p
  <2>4. Settles(q, p)
    BY <2>1, <2>2, <2>3 DEF Settles, Settling
  <2> QED BY <2>4
<1>2. CASE ReadStudents(q)
  <2> DEFINE p == [q EXCEPT !.pc = "writing", !.seen = dataSources]
  <2>1. p.run = q.run /\ p.pc = "writing" /\ q.pc = "reading"
    BY <1>q, <1>2 DEF Requests, ReadStudents
  <2>2. Becomes(q, p)
    BY <1>2 DEF ReadStudents
  <2> HIDE DEF p
  <2>3. Settles(q, p)
    BY <2>1, <2>2 DEF Settles, Settling
  <2> QED BY <2>3
<1>3. CASE WriteStudents(q)
  <2> DEFINE p == [q EXCEPT !.pc = "scanning"]
  <2>1. p.run = q.run /\ p.pc = "scanning" /\ q.pc = "writing"
    BY <1>q, <1>3 DEF Requests, WriteStudents
  <2>2. Becomes(q, p) \/ Ends(q)
    BY <1>3 DEF WriteStudents
  <2> HIDE DEF p
  <2>3. CASE Becomes(q, p)
    <3>1. Settles(q, p)
      BY <2>1, <2>3 DEF Settles, Settling
    <3> QED BY <3>1
  <2>4. CASE Ends(q)
    BY <2>4 DEF Ends, NoNewSettler
  <2> QED BY <2>2, <2>3, <2>4
<1>4. CASE CommitConflicts(q) \/ FailConflicts(q)
  BY <1>4 DEF CommitConflicts, FailConflicts, Ends, NoNewSettler
<1> QED BY <1>1, <1>2, <1>3, <1>4 DEF CompleteStep

LEMMA SettlerAlert ==
  ASSUME TypeOK, NEW q \in reqs, AlertStep(q)
  PROVE  NoNewSettler \/ \E p : Settles(q, p)
<1>q. q \in Requests /\ q.run \in Runs
  BY DEF TypeOK, Requests
<1>1. CASE Scan(q)
  <2> DEFINE p == [q EXCEPT !.pc = "alerting", !.todo = StoredItems(q.owner)]
  <2>1. p.run = q.run /\ p.pc = "alerting" /\ q.pc = "scanning"
    BY <1>q, <1>1 DEF Requests, Scan
  <2>2. Becomes(q, p)
    BY <1>1 DEF Scan
  <2> HIDE DEF p
  <2>3. Settles(q, p)
    BY <2>1, <2>2 DEF Settles, Settling
  <2> QED BY <2>3
<1>2. ASSUME NEW i \in Items, AlertExists(q, i) PROVE \E p : Settles(q, p)
  <2> DEFINE p == [q EXCEPT !.todo = @ \ {i}]
  <2>1. p.run = q.run /\ p.pc = "alerting" /\ q.pc = "alerting"
    BY <1>q, <1>2 DEF Requests, AlertExists
  <2>2. Becomes(q, p)
    BY <1>2 DEF AlertExists
  <2> HIDE DEF p
  <2>3. Settles(q, p)
    BY <2>1, <2>2 DEF Settles, Settling
  <2> QED BY <2>3
<1>3. ASSUME NEW i \in Items, AlertMissing(q, i) PROVE \E p : Settles(q, p)
  <2> DEFINE p == [q EXCEPT !.pc = "creating", !.todo = @ \ {i}, !.creating = {i}]
  <2>1. p.run = q.run /\ p.pc = "creating" /\ q.pc = "alerting"
    BY <1>q, <1>3 DEF Requests, AlertMissing
  <2>2. Becomes(q, p)
    BY <1>3 DEF AlertMissing
  <2> HIDE DEF p
  <2>3. Settles(q, p)
    BY <2>1, <2>2 DEF Settles, Settling
  <2> QED BY <2>3
<1>4. ASSUME NEW i \in Items, CreateAlert(q, i) PROVE \E p : Settles(q, p)
  <2> DEFINE p == [q EXCEPT !.pc = "alerting", !.creating = {}]
  <2>1. p.run = q.run /\ p.pc = "alerting" /\ q.pc = "creating"
    BY <1>q, <1>4 DEF Requests, CreateAlert
  <2>2. Becomes(q, p)
    BY <1>4 DEF CreateAlert
  <2> HIDE DEF p
  <2>3. Settles(q, p)
    BY <2>1, <2>2 DEF Settles, Settling
  <2> QED BY <2>3
<1>5. CASE CompleteReplies(q)
  BY <1>5 DEF CompleteReplies, Ends, NoNewSettler
<1> QED BY <1>1, <1>2, <1>3, <1>4, <1>5 DEF AlertStep

LEMMA SettlerEnvelope ==
  ASSUME TypeOK, NEW q \in reqs, EnvelopeStep(q)
  PROVE  NoNewSettler
<1>q. q \in Requests
  BY DEF TypeOK
<1>1. \A i \in Items : [q EXCEPT !.todo = @ \ {i}].pc = q.pc
  BY <1>q DEF Requests
<1>2. /\ [q EXCEPT !.pc = "attaching", !.seen = dataSources].pc = "attaching"
      /\ [q EXCEPT !.pc = "marking"].pc = "marking"
  BY <1>q DEF Requests
<1>3. CASE Ends(q)
  BY <1>3 DEF Ends, NoNewSettler
<1>4. ASSUME NEW p, Becomes(q, p), ~Settling(p) PROVE NoNewSettler
  BY <1>4 DEF Becomes, NoNewSettler
<1> QED BY <1>1, <1>2, <1>3, <1>4 DEF EnvelopeStep, ApplyOp, OpsApplied,
           AttachSource, MarkUploaded, UploadConflicts, Settling

LEMMA SettleNext == TypeOK /\ SettleInv /\ [Next]_vars => SettleInv'
<1> SUFFICES ASSUME TypeOK, SettleInv, [Next]_vars PROVE SettleInv'
  OBVIOUS
<1>r. \A x \in reqs : x.run \in Runs
  BY DEF TypeOK, Requests
<1>1. CASE NoNewSettler
  <2>1. \A x \in reqs' : Settling(x) => status'[x.run] \in {"committed", "failed"}
    BY <1>1, <1>r, SettledStays DEF NoNewSettler, SettleInv
  <2> QED BY <1>1, <2>1 DEF NoNewSettler, SettleInv, OneSettler, Settling
<1>2. ASSUME NEW q \in reqs, NEW p, Settles(q, p) PROVE SettleInv'
  <2>0. reqs' = (reqs \ {q}) \union {p}
    BY <1>2 DEF Settles, Becomes
  <2>1. \A x : x \in reqs' => x = p \/ (x \in reqs /\ x # q)
    BY <2>0, Zenon
  <2>2. status'[p.run] \in {"committed", "failed"}
    <3>1. p.run = q.run /\ q.run \in Runs
      BY <1>2, <1>r DEF Settles
    <3>2. CASE Settling(q)
      <4>1. status[q.run] \in {"committed", "failed"}
        BY <3>2 DEF SettleInv
      <4> QED BY <3>1, <4>1, SettledStays
    <3>3. CASE ~Settling(q)
      BY <1>2, <3>1, <3>3 DEF Settles
    <3> QED BY <3>2, <3>3
  <2>3. \A x \in reqs' : Settling(x) => status'[x.run] \in {"committed", "failed"}
    BY <2>1, <2>2, <1>r, SettledStays DEF SettleInv
  <2>4. ASSUME NEW x \in reqs, Settling(x), x.run = q.run PROVE x = q
    <3>1. status[q.run] \in {"committed", "failed"}
      BY <2>4 DEF SettleInv
    <3>2. Settling(q)
      BY <1>2, <3>1 DEF Settles
    <3> QED BY <2>4, <3>2 DEF SettleInv, OneSettler
  <2>5. OneSettler'
    <3> SUFFICES ASSUME NEW x \in reqs', NEW y \in reqs', x.run = y.run,
                        Settling(x), Settling(y)
                 PROVE  x = y
      BY DEF OneSettler, Settling
    <3> QED BY <1>2, <2>1, <2>4 DEF Settles, SettleInv, OneSettler
  <2> QED BY <2>3, <2>5 DEF SettleInv, Settling
<1>3. CASE UNCHANGED vars
  BY <1>1, <1>3 DEF vars, NoNewSettler
<1>4. ASSUME NEW r \in Runs, ClientStep(r) \/ Abandon(r) PROVE NoNewSettler
  <2>1. CASE reqs' = reqs
    BY <2>1 DEF NoNewSettler
  <2>2. ASSUME NEW p, reqs' = reqs \union {p}, ~Settling(p) PROVE NoNewSettler
    BY <2>2 DEF NoNewSettler
  <2>3. CASE EnvelopeArrives(r)
    BY <2>2, <2>3, EnvelopeForm DEF Settling
  <2>4. CASE CompleteArrives(r)
    <3>1. Arrives(r, "complete", "committing", owner[r], {})
      BY <2>4 DEF CompleteArrives
    <3>2. \E p : reqs' = reqs \union {p} /\ p.pc = "committing"
      BY <3>1, ArrivalForm
    <3> QED BY <2>2, <3>2 DEF Settling
  <2>5. CASE FailArrives(r)
    <3>1. Arrives(r, "fail", "failing", owner[r], {})
      BY <2>5 DEF FailArrives
    <3>2. \E p : reqs' = reqs \union {p} /\ p.pc = "failing"
      BY <3>1, ArrivalForm
    <3> QED BY <2>2, <3>2 DEF Settling
  <2> QED BY <1>4, <2>1, <2>3, <2>4, <2>5 DEF ClientStep, StartRun, Abandon
<1>5. ASSUME NEW u \in Users, NEW i \in Items, AddStep(u, i) PROVE NoNewSettler
  BY <1>5 DEF AddStep, AddLands, AddLost, NoNewSettler
<1>6. ASSUME NEW q \in reqs, RequestDies(q) PROVE NoNewSettler
  BY <1>6 DEF RequestDies, Ends, NoNewSettler
<1>7. ASSUME NEW q \in reqs, HandlerStep(q) PROVE SettleInv'
  BY <1>1, <1>2, <1>7, SettlerEnvelope, SettlerComplete, SettlerAlert DEF HandlerStep
<1> QED BY <1>1, <1>3, <1>4, <1>5, <1>6, <1>7 DEF Next

\* However often a run is completed or failed, one handler at most settles it.
THEOREM SettledOnce == Spec => []OneSettler
<1>1. Init => SettleInv
  BY DEF Init, SettleInv, OneSettler
<1>2. TypeOK /\ SettleInv /\ [Next]_vars => SettleInv'
  BY SettleNext
<1>3. SettleInv => OneSettler
  BY DEF SettleInv
<1> QED BY <1>1, <1>2, <1>3, TypeCorrect, PTL DEF Spec

-----------------------------------------------------------------------------
(* AlertInv: alerts of one item, together with the handlers about to add   *)
(* another, never outnumber the completions that overlapped.               *)

Creators(u, i) ==
  {q \in reqs : q.owner = u /\ q.pc = "creating" /\ i \in q.creating}

AlertInv ==
  /\ \A u \in Users : Cardinality(Alerting(u)) <= overlap[u]
  /\ \A u \in Users, i \in Items :
       alerts[u][i] + Cardinality(Creators(u, i)) <= overlap[u]

LEMMA CardSubset ==
  ASSUME NEW S, IsFiniteSet(S), NEW T \in SUBSET S
  PROVE  /\ IsFiniteSet(T) /\ Cardinality(T) <= Cardinality(S)
         /\ Cardinality(T) \in Nat /\ Cardinality(S) \in Nat
BY FS_Subset, FS_CardinalityType

LEMMA CardAdded ==
  ASSUME NEW S, IsFiniteSet(S), NEW x
  PROVE  IsFiniteSet(S \union {x}) /\ Cardinality(S \union {x}) <= Cardinality(S) + 1
<1>1. Cardinality(S) \in Nat
  BY FS_CardinalityType
<1>2. /\ IsFiniteSet(S \union {x})
      /\ Cardinality(S \union {x}) =
           IF x \in S THEN Cardinality(S) ELSE Cardinality(S) + 1
  BY FS_AddElement
<1> QED BY <1>1, <1>2

LEMMA CardReplaced ==
  ASSUME NEW S, IsFiniteSet(S), NEW q \in S, NEW p, NEW T \in SUBSET ((S \ {q}) \union {p})
  PROVE  Cardinality(T) <= Cardinality(S)
<1>1. IsFiniteSet(S \ {q}) /\ Cardinality(S \ {q}) = Cardinality(S) - 1
  BY FS_RemoveElement
<1>2. /\ IsFiniteSet((S \ {q}) \union {p})
      /\ Cardinality((S \ {q}) \union {p}) <= Cardinality(S \ {q}) + 1
  BY <1>1, CardAdded, FS_CardinalityType
<1>3. Cardinality(T) <= Cardinality((S \ {q}) \union {p})
  BY <1>2, CardSubset
<1>4. Cardinality(S) \in Nat /\ Cardinality(T) \in Nat
      /\ Cardinality((S \ {q}) \union {p}) \in Nat
  BY <1>2, CardSubset, FS_CardinalityType
<1> QED BY <1>1, <1>2, <1>3, <1>4

LEMMA CardRemoved ==
  ASSUME NEW S, IsFiniteSet(S), NEW q \in S, NEW T \in SUBSET (S \ {q})
  PROVE  Cardinality(T) + 1 <= Cardinality(S)
<1>1. IsFiniteSet(S \ {q}) /\ Cardinality(S \ {q}) = Cardinality(S) - 1
  BY FS_RemoveElement
<1>2. Cardinality(T) <= Cardinality(S \ {q}) /\ Cardinality(T) \in Nat
  BY <1>1, CardSubset
<1>3. Cardinality(S) \in Nat
  BY FS_CardinalityType
<1> QED BY <1>1, <1>2, <1>3

LEMMA AlertFinite ==
  ASSUME TypeInv, NEW u, NEW i
  PROVE  /\ IsFiniteSet(Alerting(u)) /\ Cardinality(Alerting(u)) \in Nat
         /\ IsFiniteSet(Creators(u, i)) /\ Cardinality(Creators(u, i)) \in Nat
         /\ Cardinality(Creators(u, i)) <= Cardinality(Alerting(u))
<1>1. Alerting(u) \in SUBSET reqs /\ Creators(u, i) \in SUBSET Alerting(u)
  BY DEF Alerting, Creators
<1> QED BY <1>1, CardSubset DEF TypeInv

\* A step that lets nobody into the alert loop keeps AlertInv.
LEMMA AlertKept ==
  ASSUME TypeInv, AlertInv, UNCHANGED <<alerts, overlap>>,
         \A x \in reqs' : x.pc \in {"alerting", "creating"} => x \in reqs
  PROVE  AlertInv'
<1>1. ASSUME NEW u \in Users PROVE Cardinality(Alerting(u)') <= overlap'[u]
  <2>1. Alerting(u)' \in SUBSET Alerting(u)
    BY DEF Alerting
  <2>2. Cardinality(Alerting(u)') <= Cardinality(Alerting(u))
        /\ Cardinality(Alerting(u)') \in Nat
    BY <2>1, AlertFinite, CardSubset
  <2> QED BY <2>2, AlertFinite DEF AlertInv, TypeInv, TypeOK
<1>2. ASSUME NEW u \in Users, NEW i \in Items
      PROVE  alerts'[u][i] + Cardinality(Creators(u, i)') <= overlap'[u]
  <2>1. Creators(u, i)' \in SUBSET Creators(u, i)
    BY DEF Creators
  <2>2. Cardinality(Creators(u, i)') <= Cardinality(Creators(u, i))
        /\ Cardinality(Creators(u, i)') \in Nat
    BY <2>1, AlertFinite, CardSubset
  <2>3. alerts[u][i] \in Nat /\ overlap[u] \in Nat
    BY DEF TypeInv, TypeOK
  <2> QED BY <2>2, <2>3, AlertFinite DEF AlertInv
<1> QED BY <1>1, <1>2 DEF AlertInv

\* Replacing one element of a finite set by another keeps it finite.
LEMMA FiniteReplaced ==
  ASSUME NEW S, NEW x, NEW y, IsFiniteSet(S), NEW T \in SUBSET ((S \ {x}) \union {y})
  PROVE  IsFiniteSet(T)
<1>1. IsFiniteSet(S \ {x})
  BY FS_RemoveElement
<1>2. IsFiniteSet((S \ {x}) \union {y})
  BY <1>1, FS_AddElement
<1> QED BY <1>2, FS_Subset

\* A step inside the loop does not change how many are in it.
LEMMA AlertingKept ==
  ASSUME TypeInv, AlertInv, NEW q \in reqs, NEW p, Becomes(q, p),
         p.owner = q.owner, q.pc \in {"alerting", "creating"}, overlap' = overlap,
         NEW u \in Users
  PROVE  Cardinality(Alerting(u)') <= overlap'[u]
<1>1. CASE q.owner = u
  <2>1. Alerting(u)' \in SUBSET ((Alerting(u) \ {q}) \union {p})
    BY DEF Alerting, Becomes
  <2>2. q \in Alerting(u)
    BY <1>1 DEF Alerting
  <2>3. Cardinality(Alerting(u)') <= Cardinality(Alerting(u))
    BY <2>1, <2>2, AlertFinite, CardReplaced
  <2>4. Cardinality(Alerting(u)') \in Nat
    <3>1. IsFiniteSet(Alerting(u)')
      BY ONLY TypeInv, <2>1, AlertFinite, FiniteReplaced
    <3> QED BY ONLY <3>1, FS_CardinalityType
  <2> QED BY <2>3, <2>4, AlertFinite DEF AlertInv, TypeInv, TypeOK
<1>2. CASE q.owner # u
  <2>1. Alerting(u)' \in SUBSET Alerting(u)
    BY <1>2 DEF Alerting, Becomes
  <2>2. Cardinality(Alerting(u)') <= Cardinality(Alerting(u))
        /\ Cardinality(Alerting(u)') \in Nat
    BY <2>1, AlertFinite, CardSubset
  <2> QED BY <2>2, AlertFinite DEF AlertInv, TypeInv, TypeOK
<1> QED BY <1>1, <1>2

LEMMA AlertScan ==
  ASSUME TypeInv, AlertInv, NEW q \in reqs, Scan(q)
  PROVE  AlertInv'
<1>q. q \in Requests /\ q.owner \in Users
  BY DEF TypeInv, TypeOK, Requests
<1>1. PICK p : /\ reqs' = (reqs \ {q}) \union {p}
               /\ p.owner = q.owner /\ p.pc = "alerting"
  <2> DEFINE new == [q EXCEPT !.pc = "alerting", !.todo = StoredItems(q.owner)]
  <2>1. new.owner = q.owner /\ new.pc = "alerting"
    BY <1>q DEF Requests
  <2>2. reqs' = (reqs \ {q}) \union {new}
    BY DEF Scan, Becomes
  <2> HIDE DEF new
  <2> QED BY <2>1, <2>2
<1>2. ASSUME NEW u \in Users
      PROVE  /\ overlap'[u] \in Nat /\ overlap[u] <= overlap'[u]
             /\ u = q.owner => Cardinality(Alerting(u)) + 1 <= overlap'[u]
  <2> DEFINE n == Cardinality(Alerting(q.owner)) + 1
  <2>1. n \in Nat
    BY AlertFinite
  <2>2. overlap \in [Users -> Nat]
    BY DEF TypeInv, TypeOK
  <2>3. overlap' = [overlap EXCEPT ![q.owner] = Larger(@, n)]
    BY DEF Scan
  <2>4. u = q.owner => Cardinality(Alerting(u)) + 1 = n
    OBVIOUS
  <2> HIDE DEF n
  <2>5. overlap'[u] \in Nat /\ overlap[u] <= overlap'[u]
        /\ (u = q.owner => n <= overlap'[u])
    BY <1>q, <2>1, <2>2, <2>3 DEF Larger
  <2> QED BY <2>4, <2>5
<1>3. ASSUME NEW u \in Users PROVE Cardinality(Alerting(u)') <= overlap'[u]
  <2>1. CASE u = q.owner
    <3>1. Alerting(u)' \in SUBSET (Alerting(u) \union {p})
      BY <1>1 DEF Alerting
    <3>2. Cardinality(Alerting(u)') <= Cardinality(Alerting(u)) + 1
      <4>1. IsFiniteSet(Alerting(u) \union {p})
            /\ Cardinality(Alerting(u) \union {p}) <= Cardinality(Alerting(u)) + 1
        BY AlertFinite, CardAdded
      <4>2. /\ Cardinality(Alerting(u)') <= Cardinality(Alerting(u) \union {p})
            /\ Cardinality(Alerting(u)') \in Nat
            /\ Cardinality(Alerting(u) \union {p}) \in Nat
        BY <3>1, <4>1, CardSubset
      <4> QED BY <4>1, <4>2, AlertFinite
    <3>3. Cardinality(Alerting(u)) + 1 <= overlap'[u]
      BY <1>2, <2>1
    <3>4. Cardinality(Alerting(u)') \in Nat
      BY <3>1, AlertFinite, CardAdded, CardSubset
    <3>5. Cardinality(Alerting(u)) \in Nat /\ overlap'[u] \in Nat
      BY <1>2, AlertFinite
    <3> QED BY ONLY <3>2, <3>3, <3>4, <3>5
  <2>2. CASE u # q.owner
    <3>1. Alerting(u)' \in SUBSET Alerting(u)
      BY <1>1, <2>2 DEF Alerting
    <3>2. Cardinality(Alerting(u)') <= Cardinality(Alerting(u))
          /\ Cardinality(Alerting(u)') \in Nat
      BY <3>1, AlertFinite, CardSubset
    <3> QED BY <1>2, <3>2, AlertFinite DEF AlertInv, TypeInv, TypeOK
  <2> QED BY <2>1, <2>2
<1>4. ASSUME NEW u \in Users, NEW i \in Items
      PROVE  alerts'[u][i] + Cardinality(Creators(u, i)') <= overlap'[u]
  <2>1. Creators(u, i)' \in SUBSET Creators(u, i)
    BY <1>1 DEF Creators
  <2>2. Cardinality(Creators(u, i)') <= Cardinality(Creators(u, i))
        /\ Cardinality(Creators(u, i)') \in Nat
    BY <2>1, AlertFinite, CardSubset
  <2>3. alerts[u][i] \in Nat /\ overlap[u] \in Nat /\ alerts' = alerts
    BY DEF TypeInv, TypeOK, Scan
  <2> QED BY <1>2, <2>2, <2>3, AlertFinite DEF AlertInv
<1> QED BY <1>3, <1>4 DEF AlertInv

LEMMA AlertFound ==
  ASSUME TypeInv, AlertInv, NEW q \in reqs, NEW i \in Items, AlertMissing(q, i)
  PROVE  AlertInv'
<1>q. q \in Requests /\ q.owner \in Users /\ q.pc = "alerting"
      /\ alerts[q.owner][i] = 0
  BY DEF TypeInv, TypeOK, Requests, AlertMissing
<1> DEFINE p == [q EXCEPT !.pc = "creating", !.todo = @ \ {i}, !.creating = {i}]
<1>1. p.owner = q.owner /\ p.creating = {i}
  BY <1>q DEF Requests
<1>2. Becomes(q, p) /\ alerts' = alerts /\ overlap' = overlap
  BY DEF AlertMissing, alertVars
<1> HIDE DEF p
<1>3. \A u \in Users : Cardinality(Alerting(u)') <= overlap'[u]
  BY <1>q, <1>1, <1>2, AlertingKept
<1>4. ASSUME NEW u \in Users, NEW j \in Items
      PROVE  alerts'[u][j] + Cardinality(Creators(u, j)') <= overlap'[u]
  <2>t. alerts[u][j] \in Nat /\ overlap[u] \in Nat
    BY DEF TypeInv, TypeOK
  <2>1. CASE u = q.owner /\ j = i
    <3>1. IsFiniteSet(Alerting(u)') /\ Creators(u, j)' \in SUBSET Alerting(u)'
      <4>1. Alerting(u)' \in SUBSET ((Alerting(u) \ {q}) \union {p})
        BY <1>2 DEF Alerting, Becomes
      <4>2. Creators(u, j)' \in SUBSET Alerting(u)'
        BY DEF Creators, Alerting
      <4>3. IsFiniteSet(Alerting(u)')
        BY ONLY TypeInv, <4>1, AlertFinite, FiniteReplaced
      <4> QED BY <4>2, <4>3
    <3>2. /\ Cardinality(Creators(u, j)') <= Cardinality(Alerting(u)')
          /\ Cardinality(Creators(u, j)') \in Nat
          /\ Cardinality(Alerting(u)') \in Nat
      BY <3>1, CardSubset
    <3> QED BY <1>q, <1>2, <1>3, <2>t, <2>1, <3>2
  <2>2. CASE ~(u = q.owner /\ j = i)
    <3>1. Creators(u, j)' \in SUBSET Creators(u, j)
      BY <1>1, <1>2, <2>2 DEF Creators, Becomes
    <3>2. Cardinality(Creators(u, j)') <= Cardinality(Creators(u, j))
          /\ Cardinality(Creators(u, j)') \in Nat
      BY <3>1, AlertFinite, CardSubset
    <3> QED BY <1>2, <2>t, <3>2, AlertFinite DEF AlertInv
  <2> QED BY <2>1, <2>2
<1> QED BY <1>3, <1>4 DEF AlertInv

LEMMA AlertCreated ==
  ASSUME TypeInv, AlertInv, NEW q \in reqs, NEW i \in Items, CreateAlert(q, i)
  PROVE  AlertInv'
<1>q. q \in Requests /\ q.owner \in Users /\ q.pc = "creating" /\ i \in q.creating
  BY DEF TypeInv, TypeOK, Requests, CreateAlert
<1> DEFINE p == [q EXCEPT !.pc = "alerting", !.creating = {}]
<1>1. p.owner = q.owner /\ p.pc = "alerting"
  BY <1>q DEF Requests
<1>2. /\ Becomes(q, p) /\ overlap' = overlap
      /\ alerts' = [alerts EXCEPT ![q.owner][i] = @ + 1]
  BY DEF CreateAlert
<1> HIDE DEF p
<1>3. \A u \in Users : Cardinality(Alerting(u)') <= overlap'[u]
  BY <1>q, <1>1, <1>2, AlertingKept
<1>4. ASSUME NEW u \in Users, NEW j \in Items
      PROVE  alerts'[u][j] + Cardinality(Creators(u, j)') <= overlap'[u]
  <2>t. alerts[u][j] \in Nat /\ overlap[u] \in Nat
    BY DEF TypeInv, TypeOK
  <2>1. CASE u = q.owner /\ j = i
    <3>1. Creators(u, j)' \in SUBSET (Creators(u, j) \ {q})
      BY <1>1, <1>2 DEF Creators, Becomes
    <3>2. q \in Creators(u, j)
      BY <1>q, <2>1 DEF Creators
    <3>3. Cardinality(Creators(u, j)') + 1 <= Cardinality(Creators(u, j))
      BY <3>1, <3>2, AlertFinite, CardRemoved
    <3>4. Cardinality(Creators(u, j)') \in Nat
      BY <3>1, AlertFinite, CardSubset
    <3>5. alerts'[u][j] = alerts[u][j] + 1
      BY <1>2, <2>1 DEF TypeInv, TypeOK
    <3> QED BY <1>2, <2>t, <3>3, <3>4, <3>5, AlertFinite DEF AlertInv
  <2>2. CASE ~(u = q.owner /\ j = i)
    <3>1. Creators(u, j)' \in SUBSET Creators(u, j)
      BY <1>1, <1>2 DEF Creators, Becomes
    <3>2. Cardinality(Creators(u, j)') <= Cardinality(Creators(u, j))
          /\ Cardinality(Creators(u, j)') \in Nat
      BY <3>1, AlertFinite, CardSubset
    <3>3. alerts'[u][j] = alerts[u][j]
      BY <1>2, <1>q, <2>2 DEF TypeInv, TypeOK
    <3> QED BY <1>2, <2>t, <3>2, <3>3, AlertFinite DEF AlertInv
  <2> QED BY <2>1, <2>2
<1> QED BY <1>3, <1>4 DEF AlertInv

LEMMA AlertSkipped ==
  ASSUME TypeInv, AlertInv, NEW q \in reqs, NEW i \in Items, AlertExists(q, i)
  PROVE  AlertInv'
<1>q. q \in Requests /\ q.pc = "alerting"
  BY DEF TypeInv, TypeOK, AlertExists
<1> DEFINE p == [q EXCEPT !.todo = @ \ {i}]
<1>1. p.owner = q.owner /\ p.pc = "alerting"
  BY <1>q DEF Requests
<1>2. Becomes(q, p) /\ overlap' = overlap /\ alerts' = alerts
  BY DEF AlertExists, alertVars
<1> HIDE DEF p
<1>3. \A u \in Users : Cardinality(Alerting(u)') <= overlap'[u]
  BY <1>q, <1>1, <1>2, AlertingKept
<1>4. ASSUME NEW u \in Users, NEW j \in Items
      PROVE  alerts'[u][j] + Cardinality(Creators(u, j)') <= overlap'[u]
  <2>1. Creators(u, j)' \in SUBSET Creators(u, j)
    BY <1>1, <1>2 DEF Creators, Becomes
  <2>2. Cardinality(Creators(u, j)') <= Cardinality(Creators(u, j))
        /\ Cardinality(Creators(u, j)') \in Nat
    BY <2>1, AlertFinite, CardSubset
  <2>3. alerts[u][j] \in Nat /\ overlap[u] \in Nat
    BY DEF TypeInv, TypeOK
  <2> QED BY <1>2, <2>2, <2>3, AlertFinite DEF AlertInv
<1> QED BY <1>3, <1>4 DEF AlertInv

\* Uploads, commits and failures let nobody into the alert loop.
LEMMA AlertOutside ==
  ASSUME TypeInv, NEW q \in reqs, EnvelopeStep(q) \/ CompleteStep(q),
         NEW x \in reqs', x.pc \in {"alerting", "creating"}
  PROVE  x \in reqs
<1>q. q \in Requests
  BY DEF TypeInv, TypeOK
<1>1. ASSUME Ends(q) PROVE x \in reqs
  BY <1>1 DEF Ends
<1>2. ASSUME NEW p, Becomes(q, p), p.pc \notin {"alerting", "creating"} PROVE x \in reqs
  BY <1>2 DEF Becomes
<1>3. CASE EnvelopeStep(q)
  <2>1. \A i \in Items : [q EXCEPT !.todo = @ \ {i}].pc = q.pc
    BY <1>q DEF Requests
  <2>2. /\ [q EXCEPT !.pc = "attaching", !.seen = dataSources].pc = "attaching"
        /\ [q EXCEPT !.pc = "marking"].pc = "marking"
    BY <1>q DEF Requests
  <2> QED BY <1>1, <1>2, <1>3, <2>1, <2>2 DEF EnvelopeStep, ApplyOp, OpsApplied,
             AttachSource, MarkUploaded, UploadConflicts
<1>4. CASE CompleteStep(q)
  <2>1. /\ [q EXCEPT !.pc = "reading"].pc = "reading"
        /\ [q EXCEPT !.pc = "writing", !.seen = dataSources].pc = "writing"
        /\ [q EXCEPT !.pc = "scanning"].pc = "scanning"
    BY <1>q DEF Requests
  <2> QED BY <1>1, <1>2, <1>4, <2>1 DEF CompleteStep, Commit, CommitConflicts,
             FailRun, FailConflicts, ReadStudents, WriteStudents
<1> QED BY <1>3, <1>4

LEMMA AlertNext == TypeInv /\ AlertInv /\ [Next]_vars => AlertInv'
<1> SUFFICES ASSUME TypeInv, AlertInv, [Next]_vars PROVE AlertInv'
  OBVIOUS
<1>1. CASE UNCHANGED vars
  BY <1>1, AlertKept DEF vars
<1>2. ASSUME NEW r \in Runs, ClientStep(r) \/ Abandon(r) PROVE AlertInv'
  <2>1. UNCHANGED <<alerts, overlap>>
    BY <1>2 DEF ClientStep, StartRun, EnvelopeArrives, CompleteArrives, FailArrives,
       Abandon, alertVars
  <2>2. CASE reqs' = reqs
    BY <2>1, <2>2, AlertKept
  <2>3. ASSUME NEW p, reqs' = reqs \union {p}, p.pc \notin {"alerting", "creating"}
        PROVE  AlertInv'
    BY <2>1, <2>3, AlertKept
  <2>4. CASE EnvelopeArrives(r)
    BY <2>3, <2>4, EnvelopeForm
  <2>5. CASE CompleteArrives(r)
    <3>1. Arrives(r, "complete", "committing", owner[r], {})
      BY <2>5 DEF CompleteArrives
    <3>2. \E p : reqs' = reqs \union {p} /\ p.pc = "committing"
      BY <3>1, ArrivalForm
    <3> QED BY <2>3, <3>2
  <2>6. CASE FailArrives(r)
    <3>1. Arrives(r, "fail", "failing", owner[r], {})
      BY <2>6 DEF FailArrives
    <3>2. \E p : reqs' = reqs \union {p} /\ p.pc = "failing"
      BY <3>1, ArrivalForm
    <3> QED BY <2>3, <3>2
  <2> QED BY <1>2, <2>2, <2>4, <2>5, <2>6 DEF ClientStep, StartRun, Abandon
<1>3. ASSUME NEW q \in reqs, EnvelopeStep(q) \/ CompleteStep(q) PROVE AlertInv'
  <2>1. UNCHANGED <<alerts, overlap>>
    BY <1>3 DEF EnvelopeStep, ApplyOp, OpsApplied, AttachSource, MarkUploaded,
       UploadConflicts, CompleteStep, Commit, CommitConflicts, FailRun, FailConflicts,
       ReadStudents, WriteStudents, alertVars
  <2> QED BY <1>3, <2>1, AlertOutside, AlertKept
<1>4. ASSUME NEW q \in reqs, CompleteReplies(q) \/ RequestDies(q) PROVE AlertInv'
  BY <1>4, AlertKept DEF CompleteReplies, RequestDies, Ends, alertVars
<1>5. ASSUME NEW u \in Users, NEW i \in Items, AddStep(u, i) PROVE AlertInv'
  BY <1>5, AlertKept DEF AddStep, AddLands, AddLost
<1>6. ASSUME NEW q \in reqs, AlertStep(q) PROVE AlertInv'
  BY <1>4, <1>6, AlertScan, AlertFound, AlertCreated, AlertSkipped DEF AlertStep
<1> QED BY <1>1, <1>2, <1>3, <1>4, <1>5, <1>6 DEF Next, HandlerStep

\* An item has no more alerts than there were completions of its user that
\* overlapped: completions that do not overlap never alert an item twice.
THEOREM AlertsLimited == Spec => []AlertsBounded
<1>1. Init => AlertInv
  <2> SUFFICES ASSUME Init PROVE AlertInv
    OBVIOUS
  <2>1. Cardinality({}) = 0
    BY FS_EmptySet
  <2>2. ASSUME NEW u \in Users PROVE Cardinality(Alerting(u)) <= overlap[u]
    <3>1. Alerting(u) = {} /\ overlap[u] = 0
      BY DEF Init, Alerting
    <3> QED BY <2>1, <3>1
  <2>3. ASSUME NEW u \in Users, NEW i \in Items
        PROVE  alerts[u][i] + Cardinality(Creators(u, i)) <= overlap[u]
    <3>1. Creators(u, i) = {} /\ overlap[u] = 0 /\ alerts[u][i] = 0
      BY DEF Init, NoneYet, Creators
    <3> QED BY <2>1, <3>1
  <2> QED BY <2>2, <2>3 DEF AlertInv
<1>2. TypeInv /\ AlertInv /\ [Next]_vars => AlertInv'
  BY AlertNext
<1>3. TypeInv /\ AlertInv => AlertsBounded
  <2> SUFFICES ASSUME TypeInv, AlertInv, NEW u \in Users, NEW i \in Items
               PROVE  alerts[u][i] <= overlap[u]
    BY DEF AlertsBounded
  <2>1. alerts[u][i] \in Nat /\ overlap[u] \in Nat
    BY DEF TypeInv, TypeOK
  <2> QED BY <2>1, AlertFinite DEF AlertInv
<1> QED BY <1>1, <1>2, <1>3, TypeAlways, PTL DEF Spec

-----------------------------------------------------------------------------
(* Jobs and alerts. *)

\* JobsFollowAlerts of one user and item.
Matching(u, i) ==
  /\ jobs[u][i] + adds[u][i] <= alerts[u][i]
  /\ FindsStudent(u) /\ ~RequestsDie => jobs[u][i] + adds[u][i] = alerts[u][i]
  /\ ~FindsStudent(u) => jobs[u][i] + adds[u][i] = 0

LEMMA JobsNext == TypeOK /\ JobsFollowAlerts /\ [Next]_vars => JobsFollowAlerts'
<1> SUFFICES ASSUME TypeOK, JobsFollowAlerts, [Next]_vars PROVE JobsFollowAlerts'
  OBVIOUS
<1> SUFFICES ASSUME NEW u \in Users, NEW i \in Items
             PROVE  Matching(u, i)'
  BY DEF JobsFollowAlerts, Matching
<1>t. alerts[u][i] \in Nat /\ adds[u][i] \in Nat /\ jobs[u][i] \in Nat
  BY DEF TypeOK
<1>i. Matching(u, i)
  BY DEF JobsFollowAlerts, Matching
<1>0. CASE UNCHANGED <<alerts, adds, jobs>>
  BY <1>0, <1>i DEF Matching
<1>1. ASSUME NEW r \in Runs, ClientStep(r) \/ Abandon(r)
      PROVE  UNCHANGED <<alerts, adds, jobs>>
  BY <1>1 DEF ClientStep, StartRun, EnvelopeArrives, CompleteArrives, FailArrives,
     Abandon, alertVars
<1>2. ASSUME NEW q \in reqs, EnvelopeStep(q) \/ CompleteStep(q) \/ RequestDies(q)
      PROVE  UNCHANGED <<alerts, adds, jobs>>
  BY <1>2 DEF EnvelopeStep, ApplyOp, OpsApplied, AttachSource, MarkUploaded,
     UploadConflicts, CompleteStep, Commit, CommitConflicts, FailRun, FailConflicts,
     ReadStudents, WriteStudents, RequestDies, alertVars
<1>3. ASSUME NEW q \in reqs, NEW j \in Items, CreateAlert(q, j)
      PROVE  Matching(u, i)'
  <2>q. q.owner \in Users
    BY DEF TypeOK, Requests
  <2>1. /\ alerts' = [alerts EXCEPT ![q.owner][j] = @ + 1]
        /\ adds' = IF FindsStudent(q.owner)
                   THEN [adds EXCEPT ![q.owner][j] = @ + 1] ELSE adds
        /\ jobs' = jobs
    BY <1>3 DEF CreateAlert
  <2>2. CASE u = q.owner /\ i = j
    <3>1. /\ alerts'[u][i] = alerts[u][i] + 1
          /\ adds'[u][i] = IF FindsStudent(u) THEN adds[u][i] + 1 ELSE adds[u][i]
      BY <2>1, <2>2 DEF TypeOK
    <3> QED BY <1>t, <1>i, <2>1, <3>1 DEF Matching, FindsStudent
  <2>3. CASE ~(u = q.owner /\ i = j)
    <3>1. alerts'[u][i] = alerts[u][i] /\ adds'[u][i] = adds[u][i]
      BY <2>q, <2>1, <2>3 DEF TypeOK
    <3> QED BY <1>i, <2>1, <3>1 DEF Matching, FindsStudent
  <2> QED BY <2>2, <2>3
<1>4. ASSUME NEW q \in reqs, AlertStep(q), \A j \in Items : ~CreateAlert(q, j)
      PROVE  UNCHANGED <<alerts, adds, jobs>>
  BY <1>4 DEF AlertStep, Scan, AlertExists, AlertMissing, CompleteReplies, alertVars
<1>5. ASSUME NEW v \in Users, NEW j \in Items, AddStep(v, j)
      PROVE  Matching(u, i)'
  <2>a. alerts' = alerts /\ adds[v][j] > 0 /\ adds' = [adds EXCEPT ![v][j] = @ - 1]
    BY <1>5 DEF AddStep, AddLands, AddLost
  <2>j. jobs' = [jobs EXCEPT ![v][j] = @ + 1] \/ (RequestsDie /\ jobs' = jobs)
    BY <1>5 DEF AddStep, AddLands, AddLost
  <2>1. CASE u = v /\ i = j
    <3>1. adds'[u][i] = adds[u][i] - 1
      BY <2>a, <2>1 DEF TypeOK
    <3>2. jobs'[u][i] = jobs[u][i] + 1 \/ (RequestsDie /\ jobs'[u][i] = jobs[u][i])
      BY <2>j, <2>1 DEF TypeOK
    <3> QED BY <1>t, <1>i, <2>a, <3>1, <3>2 DEF Matching, FindsStudent
  <2>2. CASE ~(u = v /\ i = j)
    <3>1. adds'[u][i] = adds[u][i] /\ jobs'[u][i] = jobs[u][i]
      BY <2>a, <2>j, <2>2 DEF TypeOK
    <3> QED BY <1>i, <2>a, <3>1 DEF Matching, FindsStudent
  <2> QED BY <2>1, <2>2
<1>6. CASE UNCHANGED vars
  BY <1>0, <1>6 DEF vars
<1> QED BY <1>0, <1>1, <1>2, <1>3, <1>4, <1>5, <1>6 DEF Next, HandlerStep

\* No job without an alert and never two for one; for a user whose data resolve
\* to a student none is missing once the adds are through, without failures;
\* for any other user none is ever added.
THEOREM JobsMatchAlerts == Spec => []JobsFollowAlerts
<1>1. Init => JobsFollowAlerts
  <2> SUFFICES ASSUME Init PROVE JobsFollowAlerts
    OBVIOUS
  <2>1. \A u \in Users, i \in Items :
          alerts[u][i] = 0 /\ adds[u][i] = 0 /\ jobs[u][i] = 0
    BY DEF Init, NoneYet
  <2> QED BY <2>1 DEF JobsFollowAlerts, FindsStudent
<1>2. TypeOK /\ JobsFollowAlerts /\ [Next]_vars => JobsFollowAlerts'
  BY JobsNext
<1> QED BY <1>1, <1>2, TypeCorrect, PTL DEF Spec

-----------------------------------------------------------------------------
(* The handlers implement IngestContract. *)

Stage(s) ==
  IF s \in {"unstarted", "started", "uploaded"} THEN "open"
  ELSE IF s = "committed" THEN "published" ELSE "closed"

LEMMA OutcomeUpdated ==
  ASSUME TypeOK, NEW r \in Runs, NEW s, status' = [status EXCEPT ![r] = s]
  PROVE  Outcome' = [Outcome EXCEPT ![r] = Stage(s)]
<1>1. Outcome = [x \in Runs |-> Stage(status[x])]
  BY DEF Outcome, Stage
<1>2. Outcome' = [x \in Runs |-> Stage(status'[x])]
  BY DEF Outcome, Stage
<1>3. \A x \in Runs : status'[x] = IF x = r THEN s ELSE status[x]
  BY DEF TypeOK
<1> QED BY <1>1, <1>2, <1>3

LEMMA ContractStutters ==
  ASSUME UNCHANGED <<status, applied>>
  PROVE  UNCHANGED Contract!vars
<1>1. Outcome' = Outcome
  BY DEF Outcome
<1>2. Written' = Written
  BY DEF Written
<1> QED BY <1>1, <1>2 DEF Contract!vars

LEMMA ContractApplyOp ==
  ASSUME TypeOK, AppliedInv, NEW q \in reqs, NEW i \in Items, ApplyOp(q, i)
  PROVE  Contract!Next
<1>1. q.run \in Runs /\ q.owner \in Users
  BY DEF TypeOK, Requests
<1>2. i \in Payload[q.run]
  BY DEF ApplyOp, AppliedInv, Uploading, WrittenSoFar
<1>3. Written' = [Written EXCEPT ![q.run] = @ \union {i}]
  <2> DEFINE Of(r, a) == {j \in Payload[r] : \E u \in Users : <<r, u, j>> \in a}
  <2>1. Written = [r \in Runs |-> Of(r, applied)]
        /\ Written' = [r \in Runs |-> Of(r, applied')]
    BY DEF Written
  <2>2. applied' = applied \union {<<q.run, q.owner, i>>}
    BY DEF ApplyOp
  <2>3. Of(q.run, applied') = Of(q.run, applied) \union {i}
    BY <1>1, <1>2, <2>2
  <2>4. \A r \in Runs : r # q.run => Of(r, applied') = Of(r, applied)
    BY <2>2
  <2> HIDE DEF Of
  <2> QED BY <2>1, <2>3, <2>4
<1>4. Outcome' = Outcome
  BY DEF ApplyOp, docVars, Outcome
<1>5. Contract!Write(q.run, i)
  BY <1>2, <1>3, <1>4 DEF Contract!Write
<1> QED BY <1>1, <1>5 DEF Contract!Next

LEMMA ContractCloses ==
  ASSUME TypeOK, NEW r \in Runs, NEW s \in {"failed", "abandoned"},
         status[r] \in {"started", "uploaded"},
         status' = [status EXCEPT ![r] = s], applied' = applied
  PROVE  Contract!Next
<1>1. Outcome' = [Outcome EXCEPT ![r] = "closed"]
  BY OutcomeUpdated DEF Stage
<1>2. Outcome[r] = "open" /\ Written' = Written
  BY DEF Outcome, Written
<1>3. Contract!Close(r)
  BY <1>1, <1>2 DEF Contract!Close
<1> QED BY <1>3 DEF Contract!Next

LEMMA ContractPublishes ==
  ASSUME TypeOK, AppliedInv, NEW q \in reqs, Commit(q)
  PROVE  Contract!Next
<1>1. /\ q.run \in Runs /\ status[q.run] = "uploaded"
      /\ status' = [status EXCEPT ![q.run] = "committed"] /\ applied' = applied
  BY DEF TypeOK, Requests, Commit
<1>2. Outcome' = [Outcome EXCEPT ![q.run] = "published"]
  BY <1>1, OutcomeUpdated DEF Stage
<1>3. Outcome[q.run] = "open" /\ Written' = Written
  BY <1>1 DEF Outcome, Written
<1>4. Written[q.run] = Payload[q.run]
  <2>1. owner[q.run] \in Users
    BY <1>1 DEF TypeOK
  <2>2. \A i \in Payload[q.run] : <<q.run, owner[q.run], i>> \in applied
    BY <1>1 DEF AppliedInv, CommittedRunsAreApplied
  <2> QED BY <1>1, <2>1, <2>2 DEF Written
<1>5. Contract!Publish(q.run)
  BY <1>2, <1>3, <1>4 DEF Contract!Publish
<1> QED BY <1>1, <1>5 DEF Contract!Next

\* From started to uploaded, and from nothing to started, a run stays open.
LEMMA ContractStaysOpen ==
  ASSUME TypeOK, NEW r \in Runs, NEW s \in {"started", "uploaded"},
         status[r] \in {"unstarted", "started"},
         status' = [status EXCEPT ![r] = s], applied' = applied
  PROVE  UNCHANGED Contract!vars
<1>1. Outcome' = [Outcome EXCEPT ![r] = "open"]
  BY OutcomeUpdated DEF Stage
<1>2. Outcome[r] = "open" /\ Outcome = [x \in Runs |-> Outcome[x]]
  BY DEF Outcome
<1>3. Outcome' = Outcome
  BY <1>1, <1>2
<1>4. Written' = Written
  BY DEF Written
<1> QED BY <1>3, <1>4 DEF Contract!vars

LEMMA ContractNext ==
  TypeOK /\ AppliedInv /\ [Next]_vars => [Contract!Next]_Contract!vars
<1> SUFFICES ASSUME TypeOK, AppliedInv, [Next]_vars
             PROVE  Contract!Next \/ UNCHANGED Contract!vars
  OBVIOUS
<1>1. CASE UNCHANGED vars
  BY <1>1, ContractStutters DEF vars
<1>2. ASSUME NEW r \in Runs, ClientStep(r) \/ Abandon(r)
      PROVE  Contract!Next \/ UNCHANGED Contract!vars
  <2>1. CASE StartRun(r)
    BY <2>1, ContractStaysOpen DEF StartRun
  <2>2. CASE Abandon(r)
    BY <2>2, ContractCloses DEF Abandon
  <2>3. CASE EnvelopeArrives(r) \/ CompleteArrives(r) \/ FailArrives(r)
    BY <2>3, ContractStutters DEF EnvelopeArrives, CompleteArrives, FailArrives, docVars
  <2> QED BY <1>2, <2>1, <2>2, <2>3 DEF ClientStep
<1>3. ASSUME NEW q \in reqs, EnvelopeStep(q)
      PROVE  Contract!Next \/ UNCHANGED Contract!vars
  <2>q. q.run \in Runs
    BY DEF TypeOK, Requests
  <2>1. ASSUME NEW i \in Items, ApplyOp(q, i) PROVE Contract!Next
    BY <2>1, ContractApplyOp
  <2>2. CASE MarkUploaded(q)
    BY <2>q, <2>2, ContractStaysOpen DEF MarkUploaded, Uploadable
  <2>3. CASE OpsApplied(q) \/ AttachSource(q) \/ UploadConflicts(q)
    BY <2>3, ContractStutters DEF OpsApplied, AttachSource, UploadConflicts, docVars
  <2> QED BY <1>3, <2>1, <2>2, <2>3 DEF EnvelopeStep
<1>4. ASSUME NEW q \in reqs, CompleteStep(q)
      PROVE  Contract!Next \/ UNCHANGED Contract!vars
  <2>q. q.run \in Runs
    BY DEF TypeOK, Requests
  <2>1. CASE Commit(q)
    BY <2>1, ContractPublishes
  <2>2. CASE FailRun(q)
    BY <2>q, <2>2, ContractCloses DEF FailRun
  <2>3. CASE CommitConflicts(q) \/ FailConflicts(q) \/ ReadStudents(q) \/ WriteStudents(q)
    BY <2>3, ContractStutters DEF CommitConflicts, FailConflicts, ReadStudents,
       WriteStudents, docVars
  <2> QED BY <1>4, <2>1, <2>2, <2>3 DEF CompleteStep
<1>5. ASSUME NEW q \in reqs, AlertStep(q) \/ RequestDies(q)
      PROVE  UNCHANGED Contract!vars
  BY <1>5, ContractStutters DEF AlertStep, Scan, AlertExists, AlertMissing,
     CreateAlert, CompleteReplies, RequestDies, docVars
<1>6. ASSUME NEW u \in Users, NEW i \in Items, AddStep(u, i)
      PROVE  UNCHANGED Contract!vars
  BY <1>6, ContractStutters DEF AddStep, AddLands, AddLost, docVars
<1> QED BY <1>1, <1>2, <1>3, <1>4, <1>5, <1>6 DEF Next, HandlerStep

\* The handlers, the repository and the reaper implement IngestContract.
THEOREM ContractKept == Spec => ImplementsContract
<1>1. Init => Contract!Init
  <2> SUFFICES ASSUME Init PROVE Contract!Init
    OBVIOUS
  <2>1. Outcome = [r \in Runs |-> "open"]
    BY DEF Init, Outcome
  <2>2. Written = [r \in Runs |-> {}]
    BY DEF Init, Written
  <2> QED BY <2>1, <2>2 DEF Contract!Init
<1>2. Init => AppliedInv
  BY DEF Init, AppliedInv, CommittedRunsAreApplied
<1>3. TypeOK /\ AppliedInv /\ [Next]_vars => AppliedInv'
  BY AppliedNext
<1>4. TypeOK /\ AppliedInv /\ [Next]_vars => [Contract!Next]_Contract!vars
  BY ContractNext
<1> QED BY <1>1, <1>2, <1>3, <1>4, TypeCorrect, PTL
        DEF Spec, ImplementsContract, Contract!Spec
=============================================================================
