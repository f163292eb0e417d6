-------------------------------- MODULE Digest --------------------------------
(***************************************************************************)
(* The digests of one user: alerts deferred to the collections             *)
(* email_digest_pending and sms_digest_pending, and the three timers of a  *)
(* worker process that empty them.  A digest is also asked for by hand:    *)
(* the API inserts its items and then a flush job.                         *)
(*                                                                         *)
(* Users do not share items, and flushEmailDigests handles each user in a  *)
(* try of its own, so other users only delay a flush: any delay between    *)
(* two steps is allowed here.  Time is the user's local minute, in a day   *)
(* of DayMinutes minutes.                                                  *)
(***************************************************************************)
EXTENDS Naturals, FiniteSets

CONSTANTS
  Workers,        \* worker processes
  Items,          \* the digest items that may ever be queued
  SmsItems,       \* those of sms_digest_pending
  PreviewItems,   \* those with preview = true
  Recipients,     \* email addresses and phone numbers
  Recipient,      \* [Items -> Recipients]
  Requests,       \* the digests asked for by hand
  NoRequest,      \* not one of them
  Batch,          \* [Requests -> SUBSET Items], the items one inserts
  ScheduledItems, \* what a scheduled flush reads: the 'reduced' holiday mode
                  \* leaves out the items that are not critical
  AllowedRecipients, \* whom a scheduled flush may mail (specificRecipients)
  DayMinutes,     \* bound: minutes of a day
  EmailMinutes,   \* the minutes at which shouldFlush holds
  SmsMinutes,     \* the minutes of hour DIGEST_UTC_HOUR
  MaxFaults       \* bound: failures, crashes and expired jobs, see Fault

ASSUME DigestConstants ==
  /\ IsFiniteSet(Workers)
  /\ SmsItems \subseteq Items /\ PreviewItems \subseteq Items \ SmsItems
  /\ Recipient \in [Items -> Recipients]
  /\ \A i, k \in SmsItems : Recipient[i] = Recipient[k]
  /\ NoRequest \notin Requests
  /\ Batch \in [Requests -> SUBSET (Items \ SmsItems)]
  /\ \A p, q \in Requests : p # q => Batch[p] \intersect Batch[q] = {}
  /\ ScheduledItems \subseteq Items /\ AllowedRecipients \subseteq Recipients
  /\ DayMinutes \in Nat \ {0}
  /\ EmailMinutes \subseteq 0..(DayMinutes - 1)
  /\ SmsMinutes \subseteq 0..(DayMinutes - 1)
  /\ MaxFaults \in Nat

\* The timers of safeInterval; two of them tick once a minute.
Timers == {"email-digest", "immediate-flush", "sms-digest"}
MinuteTimers == {"email-digest", "sms-digest"}
Threads == Workers \X Timers

VARIABLES
  minute,   \* the user's local time of day
  up,       \* [Workers -> BOOLEAN]
  ticked,   \* the threads whose timer fired in this minute
  flush,    \* [Threads -> FlushStates], what each callback is doing
  born,     \* items ever inserted
  stored,   \* documents of the two pending collections
  request,  \* [Requests -> RequestStates], the documents of 'jobs'
  faults,   \* failed commands, crashes and expired jobs so far
  tried,    \* history: items handed to a transport
  mailed,   \* history: [Items -> Nat], accepted by the transport
  late,     \* history: items inserted while a flush had read and not deleted
  cutOff    \* history: flushes that had read and never came to delete

sideVars == <<tried, mailed, late, cutOff>>
vars == <<minute, up, ticked, flush, born, stored, request, faults, sideVars>>

(***************************************************************************)
(* "reading" about to find, "sending" in the loop over recipients,         *)
(* "deleting" about to deleteByUserId, "settling" about to complete the    *)
(* flush job.                                                              *)
(***************************************************************************)
FlushStates ==
  [pc: {"idle", "reading", "sending", "deleting", "settling"},
   read: SUBSET Items, todo: SUBSET Recipients, request: Requests \union {NoRequest}]

Idle == [pc |-> "idle", read |-> {}, todo |-> {}, request |-> NoRequest]
Begun(q) == [Idle EXCEPT !.pc = "reading", !.request = q]

\* "inserted": the items are in, the job is not yet; "expired": it was deleted.
RequestStates ==
  {"none", "inserted", "pending", "processing", "completed", "expired"}

TypeOK ==
  /\ minute \in 0..(DayMinutes - 1)
  /\ up \in [Workers -> BOOLEAN]
  /\ ticked \subseteq Threads
  /\ flush \in [Threads -> FlushStates]
  /\ born \subseteq Items /\ stored \subseteq born /\ tried \subseteq Items
  /\ late \subseteq born
  /\ request \in [Requests -> RequestStates]
  /\ faults \in 0..MaxFaults
  /\ mailed \in [Items -> Nat]
  /\ cutOff \in Nat

Init ==
  /\ minute = 0
  /\ up = [w \in Workers |-> TRUE]
  /\ ticked = {}
  /\ flush = [t \in Threads |-> Idle]
  /\ born = {} /\ stored = {} /\ tried = {} /\ late = {}
  /\ request = [q \in Requests |-> "none"]
  /\ faults = 0
  /\ mailed = [i \in Items |-> 0]
  /\ cutOff = 0

-----------------------------------------------------------------------------
(* The queues. *)

Queue(timer) == IF timer = "sms-digest" THEN SmsItems ELSE Items \ SmsItems

\* A flush has read its queue and not yet deleted.
PastRead(t) == flush[t].pc \in {"sending", "deleting"}
ReadPending(i) == \E t \in Threads : i \in Queue(t[2]) /\ PastRead(t)

Insert(S) ==
  /\ born' = born \union S
  /\ stored' = stored \union S
  /\ late' = late \union {i \in S : ReadPending(i)}

\* enqueueEmailForDigest, enqueueSmsForDigest: an alert is deferred.
Defer(i) ==
  /\ i \notin born /\ \A q \in Requests : i \notin Batch[q]
  /\ Insert({i})
  /\ UNCHANGED <<minute, up, ticked, flush, request, faults, tried, mailed, cutOff>>

\* The request handler: insertMany of the items, then insertOne of the job.
RequestItems(q) ==
  /\ request[q] = "none"
  /\ request' = [request EXCEPT ![q] = "inserted"]
  /\ Insert(Batch[q])
  /\ UNCHANGED <<minute, up, ticked, flush, faults, tried, mailed, cutOff>>

RequestJob(q) ==
  /\ request[q] = "inserted"
  /\ request' = [request EXCEPT ![q] = "pending"]
  /\ UNCHANGED <<minute, up, ticked, flush, born, stored, faults, sideVars>>

-----------------------------------------------------------------------------
(* The timers. *)

Free(t) == up[t[1]] /\ flush[t].pc = "idle"

\* The interval fires: nothing to do, or a flush begins.
Tick(t) ==
  LET minutes == IF t[2] = "sms-digest" THEN SmsMinutes ELSE EmailMinutes
      due == minute \in minutes /\ stored \intersect Queue(t[2]) # {}
  IN
  /\ t[2] \in MinuteTimers /\ Free(t) /\ t \notin ticked
  /\ ticked' = ticked \union {t}
  /\ flush' = IF due THEN [flush EXCEPT ![t] = Begun(NoRequest)] ELSE flush
  /\ UNCHANGED <<minute, up, born, stored, request, faults, tried, mailed, late, cutOff>>

\* The interval fires while the callback is running: the tick is dropped.
TickDropped(t) ==
  /\ t[2] \in MinuteTimers /\ up[t[1]] /\ ~Free(t) /\ t \notin ticked
  /\ ticked' = ticked \union {t}
  /\ UNCHANGED <<minute, up, flush, born, stored, request, faults, sideVars>>

\* processImmediateFlushJobs: findOneAndUpdate of a pending job.
ClaimRequest(t, q) ==
  /\ t[2] = "immediate-flush" /\ Free(t)
  /\ request[q] = "pending"
  /\ request' = [request EXCEPT ![q] = "processing"]
  /\ flush' = [flush EXCEPT ![t] = Begun(q)]
  /\ UNCHANGED <<minute, up, ticked, born, stored, faults, sideVars>>

\* The minute ends once every running process has had its two ticks.
NextMinute ==
  /\ \A t \in Threads : t[2] \in MinuteTimers /\ up[t[1]] => t \in ticked
  /\ minute' = (minute + 1) % DayMinutes
  /\ ticked' = {}
  /\ UNCHANGED <<up, flush, born, stored, request, faults, tried, mailed, late, cutOff>>

-----------------------------------------------------------------------------
(* sendDigestForUser and flushSmsDigests. *)

\* What follows the flush: nothing, or completing the job that asked for it.
Done(f) ==
  IF f.request = NoRequest THEN Idle
  ELSE [Idle EXCEPT !.pc = "settling", !.request = f.request]

\* The filters are those of the schedule: a requested digest has none.
Scheduled(t) == t[2] = "email-digest"
Found(t) ==
  {i \in stored \intersect Queue(t[2]) : Scheduled(t) => i \in ScheduledItems}
Addressed(t) ==
  {r \in {Recipient[i] : i \in Found(t)} : Scheduled(t) => r \in AllowedRecipients}

\* Variant: an empty queue returns before the flush job is completed.
ReadForgetsRequest(t) ==
  /\ flush[t].pc = "reading" /\ Found(t) # {}
  /\ flush' = [flush EXCEPT ![t].read = Found(t), ![t].todo = Addressed(t),
                            ![t].pc = "sending"]
  /\ UNCHANGED <<minute, up, ticked, born, stored, request, faults, sideVars>>

\* findByUserId: nothing to send returns, nobody to send to still deletes.
Read(t) ==
  /\ flush[t].pc = "reading"
  /\ flush' = [flush EXCEPT ![t] =
       IF Found(t) = {} THEN Done(@)
       ELSE [@ EXCEPT !.read = Found(t), !.todo = Addressed(t),
                      !.pc = IF Addressed(t) = {} THEN "deleting" ELSE "sending"]]
  /\ UNCHANGED <<minute, up, ticked, born, stored, request, faults, sideVars>>

For(t, r) == {i \in flush[t].read : Recipient[i] = r}
IsPreview(t, r) == For(t, r) \intersect PreviewItems # {}

\* The loop moves on; after the last recipient the items are deleted.
Without(f, r) ==
  [f EXCEPT !.todo = @ \ {r}, !.pc = IF f.todo = {r} THEN "deleting" ELSE "sending"]
Handled(t, r) == flush' = [flush EXCEPT ![t] = Without(flush[t], r)]

\* One preview item makes the whole digest of that recipient a preview.
Preview(t, r) ==
  /\ flush[t].pc = "sending" /\ r \in flush[t].todo
  /\ IsPreview(t, r)
  /\ Handled(t, r)
  /\ UNCHANGED <<minute, up, ticked, born, stored, request, faults, sideVars>>

Delivered(t, r) ==
  mailed' = [i \in Items |-> mailed[i] + IF i \in For(t, r) THEN 1 ELSE 0]

\* transport.send: a refusal is logged and the loop goes on.
SendEmail(t, r) ==
  /\ t[2] # "sms-digest"
  /\ flush[t].pc = "sending" /\ r \in flush[t].todo
  /\ ~IsPreview(t, r)
  /\ Handled(t, r)
  /\ tried' = tried \union For(t, r)
  /\ Delivered(t, r) \/ UNCHANGED mailed
  /\ UNCHANGED <<minute, up, ticked, born, stored, request, faults, late, cutOff>>

\* sendTransactional: only the flush whose message was accepted deletes.
SendSms(t, r) ==
  /\ t[2] = "sms-digest"
  /\ flush[t].pc = "sending" /\ r \in flush[t].todo
  /\ Handled(t, r)
  /\ tried' = tried \union For(t, r)
  /\ Delivered(t, r)
  /\ UNCHANGED <<minute, up, ticked, born, stored, request, faults, late, cutOff>>

\* Variant: a scheduled flush keeps what it mailed.
DeleteKeepsScheduled(t) ==
  /\ flush[t].pc = "deleting"
  /\ stored' = IF Scheduled(t) THEN stored ELSE stored \ Queue(t[2])
  /\ flush' = [flush EXCEPT ![t] = Done(@)]
  /\ UNCHANGED <<minute, up, ticked, born, request, faults, sideVars>>

\* deleteByUserId: every item of the user, read or not.
Delete(t) ==
  /\ flush[t].pc = "deleting"
  /\ stored' = stored \ Queue(t[2])
  /\ flush' = [flush EXCEPT ![t] = Done(@)]
  /\ UNCHANGED <<minute, up, ticked, born, request, faults, sideVars>>

\* updateOne by _id: no effect if the job is gone.
SetCompleted(q) ==
  request' = IF request[q] = "expired" THEN request
             ELSE [request EXCEPT ![q] = "completed"]

CompleteRequest(t) ==
  /\ flush[t].pc = "settling"
  /\ SetCompleted(flush[t].request)
  /\ flush' = [flush EXCEPT ![t] = Idle]
  /\ UNCHANGED <<minute, up, ticked, born, stored, faults, sideVars>>

-----------------------------------------------------------------------------
(* Failures. *)

Fault == faults < MaxFaults /\ faults' = faults + 1
Cut(S) == cutOff' = cutOff + Cardinality({t \in S : PastRead(t)})

\* What the callback reads before it begins throws: the tick is lost.
TickFails(t) ==
  /\ t[2] \in MinuteTimers /\ Free(t) /\ t \notin ticked
  /\ Fault
  /\ ticked' = ticked \union {t}
  /\ UNCHANGED <<minute, up, flush, born, stored, request, sideVars>>

\* Variant: the job is completed in a finally.
FailureCompletes(t) ==
  /\ flush[t].pc \in {"reading", "deleting"}
  /\ Fault
  /\ flush' = [flush EXCEPT ![t] = Done(@)]
  /\ UNCHANGED <<minute, up, ticked, born, stored, request, sideVars>>

\* Variant: isRunning is not reset when the callback throws.
FailureKeepsRunning(t) ==
  /\ flush[t].pc \in {"reading", "deleting"}
  /\ Fault
  /\ flush' = [flush EXCEPT ![t].pc = "sending", ![t].todo = {}]
  /\ UNCHANGED <<minute, up, ticked, born, stored, request, sideVars>>

\* A command of the callback throws (find, delete, the preview's log entry,
\* the update of the job), its effect applied or not: the callback ends.
CommandFails(t) ==
  /\ \/ flush[t].pc \in {"reading", "deleting", "settling"}
     \/ flush[t].pc = "sending" /\ \E r \in flush[t].todo : IsPreview(t, r)
  /\ Fault
  /\ flush' = [flush EXCEPT ![t] = Idle]
  /\ Cut({t})
  /\ \/ UNCHANGED <<stored, request>>
     \/ /\ flush[t].pc = "deleting"
        /\ stored' = stored \ Queue(t[2]) /\ UNCHANGED request
     \/ /\ flush[t].pc = "settling"
        /\ SetCompleted(flush[t].request)
        /\ UNCHANGED stored
  /\ UNCHANGED <<minute, up, ticked, born, tried, mailed, late>>

\* Variant: a refused SMS is logged and deleted, as a refused email is.
SmsRefusalDeletes(t, r) ==
  /\ t[2] = "sms-digest"
  /\ flush[t].pc = "sending" /\ r \in flush[t].todo
  /\ Fault
  /\ Handled(t, r)
  /\ tried' = tried \union For(t, r)
  /\ UNCHANGED <<minute, up, ticked, born, stored, request, mailed, late, cutOff>>

\* The relay refuses the SMS, or takes it and the log entry fails: both throw.
SmsFails(t, r) ==
  /\ t[2] = "sms-digest"
  /\ flush[t].pc = "sending" /\ r \in flush[t].todo
  /\ Fault
  /\ flush' = [flush EXCEPT ![t] = Idle]
  /\ Cut({t})
  /\ tried' = tried \union For(t, r)
  /\ Delivered(t, r) \/ UNCHANGED mailed
  /\ UNCHANGED <<minute, up, ticked, born, stored, request, late>>

\* The claim is applied and its reply lost: the callback ends without a job.
ClaimReplyLost(t, q) ==
  /\ t[2] = "immediate-flush" /\ Free(t)
  /\ request[q] = "pending"
  /\ Fault
  /\ request' = [request EXCEPT ![q] = "processing"]
  /\ UNCHANGED <<minute, up, ticked, flush, born, stored, sideVars>>

\* A flush job is due from the start, so the TTL index on jobs.scheduledFor
\* lets the server delete it in whatever status it is.  A completed job is not
\* read again, so that its document goes too is left out.
RequestExpires(q) ==
  /\ request[q] \in {"pending", "processing"}
  /\ Fault
  /\ request' = [request EXCEPT ![q] = "expired"]
  /\ UNCHANGED <<minute, up, ticked, flush, born, stored, sideVars>>

Crash(w) ==
  /\ up[w] /\ Fault
  /\ up' = [up EXCEPT ![w] = FALSE]
  /\ flush' = [t \in Threads |-> IF t[1] = w THEN Idle ELSE flush[t]]
  /\ Cut({t \in Threads : t[1] = w})
  /\ UNCHANGED <<minute, ticked, born, stored, request, tried, mailed, late>>

\* The new process waits a full interval for its first tick.
Restart(w) ==
  /\ ~up[w]
  /\ up' = [up EXCEPT ![w] = TRUE]
  /\ ticked' = ticked \union {t \in Threads : t[1] = w}
  /\ UNCHANGED <<minute, flush, born, stored, request, faults, sideVars>>

-----------------------------------------------------------------------------
FlushStep(t) ==
  \/ Read(t) \/ Delete(t) \/ CompleteRequest(t)
  \/ \E r \in flush[t].todo : Preview(t, r) \/ SendEmail(t, r) \/ SendSms(t, r)

\* A thread that is idle waits for its timer, another is in its callback.
Progress(t) == Tick(t) \/ FlushStep(t) \/ \E q \in Requests : ClaimRequest(t, q)

Clock == NextMinute \/ \E t \in Threads : TickDropped(t)

Failure(t) ==
  \/ TickFails(t) \/ CommandFails(t)
  \/ \E r \in flush[t].todo : SmsFails(t, r)
  \/ \E q \in Requests : ClaimReplyLost(t, q)

Next ==
  \/ \E i \in Items : Defer(i)
  \/ \E q \in Requests : RequestItems(q) \/ RequestJob(q)
  \/ \E t \in Threads : Progress(t) \/ Failure(t)
  \/ \E q \in Requests : RequestExpires(q)
  \/ \E w \in Workers : Crash(w) \/ Restart(w)
  \/ Clock

Spec == Init /\ [][Next]_vars

\* Timers fire, callbacks go on, time passes, a dead process is restarted.
\* Nothing makes an alert be deferred, a digest be asked for, or anything fail.
FairSpec ==
  /\ Spec
  /\ \A t \in Threads : WF_vars(Progress(t))
  /\ \A w \in Workers : WF_vars(Restart(w))
  /\ WF_vars(Clock)

-----------------------------------------------------------------------------
(* Properties. *)

LeftQueue(i) == i \in born \ stored

\* Neither the schedule's filters nor a preview keep a mail of i from being
\* sent.
Sendable(i) ==
  \/ i \in SmsItems
  \/ /\ i \in ScheduledItems /\ Recipient[i] \in AllowedRecipients
     /\ \A k \in PreviewItems : Recipient[k] # Recipient[i]

(***************************************************************************)
(* No alert is dropped unseen: deleteByUserId removes every item of the    *)
(* user, including what other flushes read and what failed, yet an item    *)
(* that was not inserted behind the back of a flush has been handed to the *)
(* email transport, and accepted if it is an SMS, before it leaves.        *)
(***************************************************************************)
QueuedAlertsAreTried ==
  \A i \in Items :
    LeftQueue(i) /\ i \notin late /\ Sendable(i) =>
      IF i \in SmsItems THEN mailed[i] > 0 ELSE i \in tried

(***************************************************************************)
(* An alert is mailed more than once only by flushes that overlap, one     *)
(* mail each, or that were cut off between mailing and deleting.           *)
(***************************************************************************)
FlushersOf(i) == {t \in Threads : i \in Queue(t[2])}

MailsBounded == \A i \in Items : mailed[i] <= Cardinality(FlushersOf(i)) + cutOff

\* A flush job that is completed has emptied the queue of its own items,
\* although other timers flush and fail in between.
CompletedRequestsFlushed ==
  \A q \in Requests : request[q] = "completed" => Batch[q] \intersect stored = {}

\* Dropped ticks, failures, crashes and restarts only delay a digest: what the
\* schedule may send leaves the queue.  (An item is inserted once, so this is
\* no weaker than saying it of each item, and it is one formula to check.)
Outstanding == stored \intersect (SmsItems \union ScheduledItems)
AlertsLeaveQueue == Outstanding # {} ~> Outstanding = {}

\* The job was claimed, and the callback that claimed it is gone.
Abandoned(q) ==
  request[q] = "processing" /\ \A t \in Threads : flush[t].request # q

\* A flush job is completed, unless it expired or its callback failed: then it
\* stays "processing", for no timer looks at such a job again.
RequestsSettle ==
  \A q \in Requests :
    request[q] = "pending" ~>
      (request[q] \in {"completed", "expired"} \/ Abandoned(q))
=============================================================================
