------------------------------ MODULE AlertFanout ------------------------------
(***************************************************************************)
(* What a worker does with an alert: the handler of a notify job           *)
(* (_processNotifyJob, processAlertEnqueueDeliver) resolves the recipients *)
(* and adds, one await after another, a deliver job or a digest item for   *)
(* each; the handler of a deliver job mails one recipient.                 *)
(*                                                                         *)
(* The module extends NotificationWorker: a pass is what one execution of  *)
(* a notify job does while its pc is "handling", the deliver jobs it adds  *)
(* are documents of the same queue, and both can fail, be retried, and be  *)
(* cut short by a crash.  The recipients' settings are edited at any time, *)
(* so a pass may read any of them.  Both agents of worker.ts notify by     *)
(* email alone, so a recipient is an address at a place of the list: the   *)
(* owner's own entry, the only one with a userId, comes first, then the    *)
(* contacts, last the student's alertEmail.  Nothing removes duplicates,   *)
(* so that an address, the owner's too, may stand at several places.       *)
(***************************************************************************)
EXTENDS NotificationWorker

CONSTANTS
  Alerts,     \* the notify jobs
  People,     \* addresses an alert can be mailed to
  Owner,      \* the one of the account, hence with digest preferences
  NoAddress,  \* of the default recipient {}: mailed at a student id
  LastPlace,  \* of the list, that of the alertEmail; bounds the contacts
  Audience,   \* [Alerts -> SUBSET Kinds]: whom alertAudience lets the type reach
  Urgent,     \* alerts of severity "critical"
  Frequencies,\* the owner's notification settings, "off" without a daily digest
  Passes      \* bound: executions of a notify job that are followed

OwnEntry == [place |-> 0, email |-> Owner]
NoEntry == [place |-> 1, email |-> NoAddress]
Entries == {OwnEntry, NoEntry} \union [place : 1..LastPlace, email : People]
DeliverJobs == Alerts \X Entries \X Passes
DeliverJob(a, e, n) == <<a, e, n>>
Addressee(d) == d[2].email

ASSUME FanoutConstants ==
  /\ Jobs = Alerts \union DeliverJobs
  /\ Alerts \intersect DeliverJobs = {}
  /\ Owner \in People
  /\ NoAddress \notin People
  /\ LastPlace \in Nat \ {0}
  /\ Audience \in [Alerts -> SUBSET {"parent", "student"}]
  /\ Urgent \subseteq Alerts
  /\ Frequencies \subseteq {"off", "minimal", "balanced", "proactive"}
  /\ Passes \subseteq Nat \ {0}

VARIABLES
  pass,      \* of each alert, its latest pass
  digested,  \* <<alert, pass>>: an item was added to the owner's digest
  mails      \* history: how often the transport accepted each deliver job

fanVars == <<pass, digested, mails>>
allVars == <<vars, fanVars>>

(***************************************************************************)
(* nth is the execution the pass belongs to (0: none), who the recipients  *)
(* it resolved, todo those it has not got to, choice what was decided for  *)
(* the owner's own entry; "threw" once a command has failed.               *)
(***************************************************************************)
Pass == [nth : Nat, who : SUBSET Entries, todo : SUBSET Entries,
         choice : {"unread", "digest", "direct", "threw"}]

FanTypeOK ==
  /\ TypeOK
  /\ pass \in [Alerts -> Pass]
  /\ digested \in SUBSET (Alerts \X Nat)
  /\ mails \in [DeliverJobs -> Nat]

FanInit ==
  /\ Init
  /\ pass = [a \in Alerts |->
               [nth |-> 0, who |-> {}, todo |-> {}, choice |-> "unread"]]
  /\ digested = {}
  /\ mails = [d \in DeliverJobs |-> 0]

-----------------------------------------------------------------------------
(* A pass. *)

\* The execution r has resolved its recipients and not thrown.
InPass(r) ==
  /\ r.job \in Alerts
  /\ r.pc = "handling"
  /\ pass[r.job].nth = r.nth
  /\ pass[r.job].choice # "threw"

BeginPass(r, S) ==
  /\ r.job \in Alerts
  /\ r.pc = "handling"
  /\ pass[r.job].nth # r.nth
  /\ pass' = [pass EXCEPT ![r.job] =
       [nth |-> r.nth, who |-> S, todo |-> S, choice |-> "unread"]]
  /\ UNCHANGED <<vars, digested, mails>>

OnePlaceEach(S) == \A e, f \in S : e.place = f.place => e = f

\* The recipientType of an entry goes by its address, so that the owner or a
\* contact is taken for the student whose alertEmail is theirs.
Kind(e, S) ==
  IF \E f \in S : f.place = LastPlace /\ f.email = e.email
  THEN "student" ELSE "parent"

\* resolveAllAlertRecipients: the owner unless opted out, accepted contacts
\* with alerts on, the student's alert address; [] without the student.
Resolve(r) ==
  /\ r.job \in Alerts
  /\ \E S \in SUBSET (Entries \ {NoEntry}) :
       /\ OnePlaceEach(S)
       /\ BeginPass(r, {e \in S : Kind(e, S) \in Audience[r.job]})

\* Resolving throws: logged, and the pass goes on with the default recipient.
ResolveFails(r) ==
  /\ "dbError" \in Faults
  /\ r.job \in Alerts
  /\ BeginPass(r, {e \in {NoEntry} : "parent" \in Audience[r.job]})

\* The preferences for which _tryDeferEmailToDigestEnqueue keeps the alert.
Defers(a, f) == f = "minimal" \/ (f = "balanced" /\ a \notin Urgent)

\* The owner's own entry comes first; the preference is read ...
ReadPreference(r) ==
  /\ InPass(r)
  /\ OwnEntry \in pass[r.job].todo
  /\ pass[r.job].choice = "unread"
  /\ \E f \in Frequencies :
       pass' = [pass EXCEPT ![r.job].choice =
                  IF Defers(r.job, f) THEN "digest" ELSE "direct"]
  /\ UNCHANGED <<vars, digested, mails>>

\* ... and in a later command an item is inserted.
QueueForDigest(r) ==
  /\ InPass(r)
  /\ OwnEntry \in pass[r.job].todo
  /\ pass[r.job].choice = "digest"
  /\ digested' = digested \union {<<r.job, r.nth>>}
  /\ pass' = [pass EXCEPT ![r.job].todo = @ \ {OwnEntry}]
  /\ UNCHANGED <<vars, mails>>

\* The recipient the loop has come to, if a deliver job is what it gets.
Delivered(r, e) ==
  /\ InPass(r)
  /\ e \in pass[r.job].todo
  /\ \A f \in pass[r.job].todo : e.place <= f.place
  /\ e = OwnEntry => pass[r.job].choice = "direct"

\* queue.add('deliver', ..., { maxAttempts: 5 }), due at once.
AddDeliverJob(r, e) ==
  LET d == DeliverJob(r.job, e, r.nth)
  IN /\ d \in DeliverJobs     \* the bound Passes
     /\ Add(d)
     /\ due'[d]
     /\ UNCHANGED workerVars

QueueDeliver(r, e) ==
  /\ Delivered(r, e)
  /\ AddDeliverJob(r, e)
  /\ pass' = [pass EXCEPT ![r.job].todo = @ \ {e}]
  /\ UNCHANGED <<digested, mails>>

\* Variant: a failing insert is taken for a preference that does not defer.
QueueForDigestFallsThrough(r) ==
  /\ "dbError" \in Faults
  /\ InPass(r)
  /\ OwnEntry \in pass[r.job].todo
  /\ pass[r.job].choice = "digest"
  /\ digested' = digested \union {<<r.job, r.nth>>}
  /\ pass' = [pass EXCEPT ![r.job].choice = "direct"]
  /\ UNCHANGED <<vars, mails>>

\* A command of the pass throws after the server applied it.
QueueForDigestThrows(r) ==
  /\ "dbError" \in Faults
  /\ InPass(r)
  /\ OwnEntry \in pass[r.job].todo
  /\ pass[r.job].choice = "digest"
  /\ digested' = digested \union {<<r.job, r.nth>>}
  /\ pass' = [pass EXCEPT ![r.job].choice = "threw"]
  /\ UNCHANGED <<vars, mails>>

QueueDeliverThrows(r, e) ==
  /\ "dbError" \in Faults
  /\ Delivered(r, e)
  /\ AddDeliverJob(r, e)
  /\ pass' = [pass EXCEPT ![r.job].choice = "threw"]
  /\ UNCHANGED <<digested, mails>>

\* What was added stays; the job is failed and retried from the beginning.
PassThrows(r) ==
  /\ r.job \in Alerts
  /\ pass[r.job].nth = r.nth
  /\ \/ pass[r.job].choice = "threw"
     \/ "dbError" \in Faults /\ pass[r.job].todo # {}
  /\ HandlerThrows(r)
  /\ UNCHANGED fanVars

\* Variant: a failing command is swallowed, and the pass counts as done.
PassEndsAnyway(r) ==
  /\ r.job \in Alerts
  /\ pass[r.job].nth = r.nth
  /\ pass[r.job].todo = {} \/ pass[r.job].choice = "threw"
  /\ HandlerReturns(r)
  /\ UNCHANGED fanVars

PassEnds(r) ==
  /\ InPass(r)
  /\ pass[r.job].todo = {}
  /\ HandlerReturns(r)
  /\ UNCHANGED fanVars

PassStep(r) ==
  \/ Resolve(r)
  \/ ResolveFails(r)
  \/ ReadPreference(r)
  \/ QueueForDigest(r)
  \/ QueueForDigestThrows(r)
  \/ \E e \in Entries : QueueDeliver(r, e)
  \/ \E e \in Entries : QueueDeliverThrows(r, e)
  \/ PassThrows(r)
  \/ PassEnds(r)

-----------------------------------------------------------------------------
(* A deliver job: _processDeliverJob, deliverOne, EmailDelivery.deliver. *)

Delivering(r) == r.pc = "handling" /\ r.job \in DeliverJobs

Mail(d) == mails' = [mails EXCEPT ![d] = @ + 1]

DeliverMails(r) ==
  /\ Delivering(r)
  /\ Addressee(r.job) # NoAddress
  /\ Mail(r.job)
  /\ HandlerReturns(r)
  /\ UNCHANGED <<pass, digested>>

\* No '@' in a student id: success false, which nobody looks at.
DeliverSkips(r) ==
  /\ Delivering(r)
  /\ Addressee(r.job) = NoAddress
  /\ HandlerReturns(r)
  /\ UNCHANGED fanVars

\* The transport throws, the mail accepted or not.
DeliverThrows(r) ==
  /\ Delivering(r)
  /\ Addressee(r.job) # NoAddress
  /\ Mail(r.job) \/ UNCHANGED mails
  /\ HandlerThrows(r)
  /\ UNCHANGED <<pass, digested>>

DeliverStep(r) ==
  \/ DeliverMails(r)
  \/ DeliverSkips(r)
  \/ DeliverThrows(r)

-----------------------------------------------------------------------------
(* Everything else is the worker's and the queue's.  Deliver jobs are      *)
(* added by the handlers alone, and no caller keeps their ids to cancel    *)
(* them.                                                                   *)
WorkerStep ==
  /\ \/ \E a \in Alerts : QueueStep(a) /\ UNCHANGED workerVars
     \/ \E d \in DeliverJobs :
          /\ Cleanup(d) \/ ResetStalled(d) \/ TtlExpire(d) \/ BecomeDue(d) \/ BecomeStale(d)
          /\ UNCHANGED workerVars
     \/ \E w \in Workers : Lifetime(w)
     \/ \E w \in Workers, t \in Types : LoopStep(w, t)
     \/ \E r \in runs : r.pc # "handling" /\ RunStep(r)
  /\ UNCHANGED fanVars

FanNext ==
  \/ WorkerStep
  \/ \E r \in runs : PassStep(r)
  \/ \E r \in runs : DeliverStep(r)

FanSpec == FanInit /\ [][FanNext]_allVars

-----------------------------------------------------------------------------
(* Properties. *)

Added(a, e, n) == status[DeliverJob(a, e, n)] # "absent"

Reached(a, e, n) ==
  \/ n \in Passes /\ Added(a, e, n)
  \/ e = OwnEntry /\ <<a, n>> \in digested

\* "one deliver job per (recipient, channel)": whatever failed and was retried
\* on the way, a notify job is completed only when every entry of the list
\* that its last pass resolved has a deliver job or a digest item of that pass.
CompletedAlertReachesAll ==
  \A a \in Alerts : status[a] = "completed" =>
    /\ pass[a].nth = claims[a]
    /\ \A e \in pass[a].who : Reached(a, e, pass[a].nth)

\* Under the account the owner is told on one path by a pass, in the digest or
\* at once, although the preference is read in one command and acted on in
\* another.  Entries further down that repeat the owner's address are mailed at
\* once whatever the preference is.
OnePathPerPass ==
  \A a \in Alerts, n \in Passes : ~(<<a, n>> \in digested /\ Added(a, OwnEntry, n))

\* Nobody gets more mails about an alert than the alert's attempts times the
\* places at which the list has the address times the attempts of a deliver
\* job: a pass adds one job per place, for the entry its list has there, and
\* each job is mailed at most once per execution.
MailsWithinBudget ==
  \A a \in Alerts, n \in Passes :
    /\ \A e, f \in Entries : Added(a, e, n) /\ Added(a, f, n) /\ e.place = f.place => e = f
    /\ \A e \in Entries :
         LET d == DeliverJob(a, e, n)
         IN /\ Added(a, e, n) => /\ n <= claims[a] /\ claims[a] <= MaxAttempts[a]
                                 /\ n = pass[a].nth => e \in pass[a].who
            /\ mails[d] <= claims[d] /\ claims[d] <= MaxAttempts[d]

\* Fan-out and delivery are ordinary executions of the worker: every theorem
\* about NotificationWorker holds of them.
ImplementsWorker == Spec
=============================================================================
