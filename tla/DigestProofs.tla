----------------------------- MODULE DigestProofs -----------------------------
(***************************************************************************)
(* Theorems about Digest, for any number of processes, items, recipients   *)
(* and manual digests, and any number of failures:                         *)
(*   TypeOK      inductive by itself                                       *)
(*   RequestInv  who holds a flush job, and when it may be completed       *)
(*   SeenInv     a flush past its read has read every waiting item, but    *)
(*               the late ones, and has mailed those whose turn is over    *)
(*   ReadInv     what a flush has read was inserted, in its own queue      *)
(*   MailInv     the mails of an item, and those still to come, are owed   *)
(*               to the flushes that read it or were cut off               *)
(***************************************************************************)
EXTENDS Digest, FiniteSetTheorems, TLAPS

-----------------------------------------------------------------------------
(* Types. *)

LEMMA FlushTypes ==
  /\ Idle \in FlushStates
  /\ \A q \in Requests \union {NoRequest} : Begun(q) \in FlushStates
  /\ \A f \in FlushStates : Done(f) \in FlushStates
BY DEF FlushStates, Idle, Begun, Done

LEMMA FoundTypes ==
  ASSUME TypeOK, NEW t
  PROVE  Found(t) \in SUBSET Items /\ Addressed(t) \in SUBSET Recipients
<1>1. Found(t) \in SUBSET Items
  BY DEF TypeOK, Found
<1>2. \A i \in Items : Recipient[i] \in Recipients
  BY DigestConstants
<1> QED BY <1>1, <1>2 DEF Addressed

LEMMA HandledTypes ==
  ASSUME TypeOK, NEW t \in Threads, NEW r, Handled(t, r)
  PROVE  /\ flush' \in [Threads -> FlushStates]
         /\ \A s \in Threads : s # t => flush'[s] = flush[s]
         /\ flush'[t].read = flush[t].read /\ flush'[t].request = flush[t].request
         /\ flush'[t].todo = flush[t].todo \ {r}
         /\ flush'[t].pc = IF flush[t].todo = {r} THEN "deleting" ELSE "sending"
<1>1. flush[t] \in FlushStates
  BY DEF TypeOK
<1>2. \A f \in FlushStates :
        /\ Without(f, r) \in FlushStates
        /\ Without(f, r).read = f.read /\ Without(f, r).request = f.request
        /\ Without(f, r).todo = f.todo \ {r}
        /\ Without(f, r).pc = IF f.todo = {r} THEN "deleting" ELSE "sending"
  BY DEF FlushStates, Without
<1>3. flush' \in [Threads -> FlushStates]
      /\ flush'[t] = Without(flush[t], r)
      /\ \A s \in Threads : s # t => flush'[s] = flush[s]
  BY <1>1, <1>2 DEF TypeOK, Handled
<1> QED BY <1>1, <1>2, <1>3

LEMMA DeliveredTypes ==
  ASSUME TypeOK, NEW t, NEW r, Delivered(t, r) \/ UNCHANGED mailed
  PROVE  /\ mailed' \in [Items -> Nat]
         /\ \A i \in Items : mailed'[i] >= mailed[i]
         /\ Delivered(t, r) => \A i \in For(t, r) \intersect Items : mailed'[i] > 0
BY DEF TypeOK, Delivered

LEMMA InsertTypes ==
  ASSUME TypeOK, NEW S \in SUBSET Items, Insert(S)
  PROVE  /\ born' \subseteq Items /\ stored' \subseteq born'
         /\ late' \subseteq born'
BY DEF TypeOK, Insert

LEMMA ThreadsFinite == IsFiniteSet(Threads)
<1>1. IsFiniteSet(Workers)
  BY DigestConstants
<1>2. IsFiniteSet(Timers)
  <2>1. Timers = {"email-digest"} \union {"immediate-flush"} \union {"sms-digest"}
    BY DEF Timers
  <2>2. \A x : IsFiniteSet({x})
    BY FS_Singleton
  <2>3. IsFiniteSet({"email-digest"} \union {"immediate-flush"})
    BY <2>2, FS_Union
  <2> QED BY <2>1, <2>2, <2>3, FS_Union
<1> QED BY <1>1, <1>2, FS_Product DEF Threads

\* What a failure adds to cutOff.
LEMMA CutTypes ==
  ASSUME TypeOK, NEW S \in SUBSET Threads, Cut(S)
  PROVE  /\ IsFiniteSet({t \in S : PastRead(t)})
         /\ Cardinality({t \in S : PastRead(t)}) \in Nat
         /\ cutOff' \in Nat
<1>1. IsFiniteSet({t \in S : PastRead(t)})
  BY ThreadsFinite, FS_Subset
<1>2. Cardinality({t \in S : PastRead(t)}) \in Nat
  BY <1>1, FS_CardinalityType
<1> QED BY <1>1, <1>2 DEF TypeOK, Cut

LEMMA BatchTypes == \A q \in Requests : Batch[q] \subseteq Items \ SmsItems
BY DigestConstants

LEMMA TypeInit == Init => TypeOK
BY DigestConstants, FlushTypes DEF Init, TypeOK, RequestStates

LEMMA TypeNext == TypeOK /\ [Next]_vars => TypeOK'
<1> SUFFICES ASSUME TypeOK, [Next]_vars PROVE TypeOK'
  OBVIOUS
<1> USE DEF TypeOK
<1>1. CASE UNCHANGED vars
  BY <1>1 DEF vars, sideVars
<1>2. ASSUME NEW i \in Items, Defer(i) PROVE TypeOK'
  <2>1. Insert({i})
    BY <1>2 DEF Defer
  <2> QED BY <1>2, <2>1, InsertTypes DEF Defer
<1>3. ASSUME NEW q \in Requests, RequestItems(q) PROVE TypeOK'
  <2>1. Insert(Batch[q]) /\ Batch[q] \in SUBSET Items
    BY <1>3, BatchTypes DEF RequestItems
  <2>2. request' \in [Requests -> RequestStates]
    BY <1>3 DEF RequestItems, RequestStates
  <2> QED BY <1>3, <2>1, <2>2, InsertTypes DEF RequestItems
<1>4. ASSUME NEW q \in Requests, RequestJob(q) PROVE TypeOK'
  <2>1. request' \in [Requests -> RequestStates]
    BY <1>4 DEF RequestJob, RequestStates
  <2> QED BY <1>4, <2>1 DEF RequestJob, sideVars
<1>5. ASSUME NEW t \in Threads, Progress(t) PROVE TypeOK'
  <2>1. CASE Tick(t)
    <3>1. flush' \in [Threads -> FlushStates]
      BY <2>1, FlushTypes DEF Tick
    <3> QED BY <2>1, <3>1 DEF Tick
  <2>2. ASSUME NEW q \in Requests, ClaimRequest(t, q) PROVE TypeOK'
    <3>1. flush' \in [Threads -> FlushStates]
      BY <2>2, FlushTypes DEF ClaimRequest
    <3>2. request' \in [Requests -> RequestStates]
      BY <2>2 DEF ClaimRequest, RequestStates
    <3> QED BY <2>2, <3>1, <3>2 DEF ClaimRequest, sideVars
  <2>3. CASE Read(t)
    <3>1. flush' \in [Threads -> FlushStates]
      <4> DEFINE f == [flush[t] EXCEPT !.read = Found(t), !.todo = Addressed(t),
                         !.pc = IF Addressed(t) = {} THEN "deleting" ELSE "sending"]
      <4>1. f \in FlushStates
        BY FoundTypes DEF FlushStates
      <4> HIDE DEF f
      <4>2. flush' = [flush EXCEPT ![t] = IF Found(t) = {} THEN Done(@) ELSE f]
        BY <2>3 DEF Read, f
      <4> QED BY <4>1, <4>2, FlushTypes
    <3> QED BY <2>3, <3>1 DEF Read, sideVars
  <2>4. CASE Delete(t)
    <3>1. flush' \in [Threads -> FlushStates]
      BY <2>4, FlushTypes DEF Delete
    <3> QED BY <2>4, <3>1 DEF Delete, sideVars
  <2>5. CASE CompleteRequest(t)
    <3>1. flush' \in [Threads -> FlushStates] /\ request' \in [Requests -> RequestStates]
      BY <2>5, FlushTypes DEF CompleteRequest, SetCompleted, RequestStates
    <3> QED BY <2>5, <3>1 DEF CompleteRequest, sideVars
  <2>6. ASSUME NEW r \in flush[t].todo, Preview(t, r) PROVE TypeOK'
    <3>1. flush' \in [Threads -> FlushStates]
      BY <2>6, HandledTypes DEF Preview
    <3> QED BY <2>6, <3>1 DEF Preview, sideVars
  <2>7. ASSUME NEW r \in flush[t].todo, SendEmail(t, r) \/ SendSms(t, r) PROVE TypeOK'
    <3>1. flush' \in [Threads -> FlushStates]
      BY <2>7, HandledTypes DEF SendEmail, SendSms
    <3>2. mailed' \in [Items -> Nat]
      BY <2>7, DeliveredTypes DEF SendEmail, SendSms
    <3>3. tried' \subseteq Items
      BY <2>7 DEF SendEmail, SendSms, For, FlushStates
    <3> QED BY <2>7, <3>1, <3>2, <3>3 DEF SendEmail, SendSms
  <2> QED BY <1>5, <2>1, <2>2, <2>3, <2>4, <2>5, <2>6, <2>7 DEF Progress, FlushStep
<1>6. ASSUME NEW t \in Threads, Failure(t) PROVE TypeOK'
  <2>f. Fault => faults' \in 0..MaxFaults
    BY DigestConstants DEF Fault
  <2>1. CASE TickFails(t)
    BY <2>f, <2>1 DEF TickFails, sideVars
  <2>2. CASE CommandFails(t)
    <3>1. flush' \in [Threads -> FlushStates]
      BY <2>2, FlushTypes DEF CommandFails
    <3>2. request' \in [Requests -> RequestStates] /\ stored' \subseteq stored
      BY <2>2 DEF CommandFails, SetCompleted, RequestStates
    <3>3. cutOff' \in Nat
      BY <2>2, CutTypes DEF CommandFails
    <3> QED BY <2>f, <2>2, <3>1, <3>2, <3>3 DEF CommandFails
  <2>3. ASSUME NEW r \in flush[t].todo, SmsFails(t, r) PROVE TypeOK'
    <3>1. flush' \in [Threads -> FlushStates]
      BY <2>3, FlushTypes DEF SmsFails
    <3>2. mailed' \in [Items -> Nat] /\ tried' \subseteq Items
      BY <2>3, DeliveredTypes DEF SmsFails, For, FlushStates
    <3>3. cutOff' \in Nat
      BY <2>3, CutTypes DEF SmsFails
    <3> QED BY <2>f, <2>3, <3>1, <3>2, <3>3 DEF SmsFails
  <2>4. ASSUME NEW q \in Requests, ClaimReplyLost(t, q) PROVE TypeOK'
    <3>1. request' \in [Requests -> RequestStates]
      BY <2>4 DEF ClaimReplyLost, RequestStates
    <3> QED BY <2>f, <2>4, <3>1 DEF ClaimReplyLost, sideVars
  <2> QED BY <1>6, <2>1, <2>2, <2>3, <2>4 DEF Failure
<1>7. ASSUME NEW w \in Workers, Crash(w) \/ Restart(w) PROVE TypeOK'
  <2>1. CASE Crash(w)
    <3>1. flush' \in [Threads -> FlushStates]
      BY <2>1, FlushTypes DEF Crash
    <3>2. faults' \in 0..MaxFaults
      BY <2>1, DigestConstants DEF Crash, Fault
    <3>3. cutOff' \in Nat
      BY <2>1, CutTypes DEF Crash
    <3> QED BY <2>1, <3>1, <3>2, <3>3 DEF Crash
  <2>2. CASE Restart(w)
    BY <2>2 DEF Restart, sideVars
  <2> QED BY <1>7, <2>1, <2>2
<1>8. CASE NextMinute
  <2>1. minute' \in 0..(DayMinutes - 1)
    BY <1>8, DigestConstants DEF NextMinute
  <2> QED BY <1>8, <2>1 DEF NextMinute
<1>9. ASSUME NEW t \in Threads, TickDropped(t) PROVE TypeOK'
  BY <1>9 DEF TickDropped, sideVars
<1>10. ASSUME NEW q \in Requests, RequestExpires(q) PROVE TypeOK'
  <2>1. request' \in [Requests -> RequestStates]
    BY <1>10 DEF RequestExpires, RequestStates
  <2>2. faults' \in 0..MaxFaults
    BY <1>10, DigestConstants DEF RequestExpires, Fault
  <2> QED BY <1>10, <2>1, <2>2 DEF RequestExpires, sideVars
<1> QED BY <1>1, <1>2, <1>3, <1>4, <1>5, <1>6, <1>7, <1>8, <1>9, <1>10 DEF Next, Clock

\* The type invariant, for every set of items, recipients and requests.
THEOREM TypeCorrect == Spec => []TypeOK
BY TypeInit, TypeNext, PTL DEF Spec

-----------------------------------------------------------------------------
(* SeenInv: what a flush knows about the items still waiting. *)

Handed(i) == IF i \in SmsItems THEN mailed[i] > 0 ELSE i \in tried

Waiting(i, t) == i \in stored \intersect Queue(t[2]) /\ i \notin late /\ Sendable(i)

SeenBy(t) ==
  PastRead(t) =>
    /\ flush[t].read \subseteq Queue(t[2])
    /\ flush[t].pc = "deleting" => flush[t].todo = {}
    /\ \A i \in Items : Waiting(i, t) =>
         i \in flush[t].read /\ (Recipient[i] \in flush[t].todo \/ Handed(i))

SeenInv == QueuedAlertsAreTried /\ \A t \in Threads : SeenBy(t)

\* The histories only grow.
Grows ==
  /\ tried \subseteq tried'
  /\ mailed \in [Items -> Nat] /\ mailed' \in [Items -> Nat]
  /\ \A i \in Items : mailed'[i] >= mailed[i]

LEMMA HandedGrows == ASSUME Grows, NEW i \in Items, Handed(i) PROVE Handed(i)'
BY DEF Grows, Handed

LEMMA SeenElsewhere ==
  ASSUME Grows, NEW t \in Threads, SeenBy(t), stored' \subseteq stored, late' = late,
         flush'[t] = flush[t] \/ flush'[t].pc \notin {"sending", "deleting"}
  PROVE  SeenBy(t)'
<1>1. CASE flush'[t].pc \notin {"sending", "deleting"}
  BY <1>1 DEF SeenBy, PastRead
<1>2. CASE flush'[t] = flush[t]
  <2>1. \A i \in Items : Waiting(i, t)' => Waiting(i, t)
    BY DEF Waiting
  <2> QED BY <1>2, <2>1, HandedGrows DEF SeenBy, PastRead
<1> QED BY <1>1, <1>2

LEMMA TriedKept ==
  ASSUME Grows, QueuedAlertsAreTried, born' = born, stored' = stored, late' = late
  PROVE  QueuedAlertsAreTried'
<1>1. \A i \in Items : LeftQueue(i)' => LeftQueue(i)
  BY DEF LeftQueue
<1> QED BY <1>1, HandedGrows DEF QueuedAlertsAreTried, Handed

\* An item inserted while a flush is past its read is late.
LEMMA SeenInsert ==
  ASSUME TypeOK, SeenInv, NEW S \in SUBSET Items, Insert(S), UNCHANGED <<flush, tried, mailed>>
  PROVE  SeenInv'
<1>1. ASSUME NEW t \in Threads PROVE SeenBy(t)'
  <2>1. ASSUME NEW i \in Items, Waiting(i, t)', PastRead(t) PROVE Waiting(i, t)
    <3>1. i \in S => ReadPending(i)
      BY <2>1 DEF ReadPending, PastRead, Waiting
    <3> QED BY <2>1, <3>1 DEF Insert, Waiting
  <2>2. \A i \in Items : Handed(i)' <=> Handed(i)
    BY DEF Handed
  <2> QED BY <2>1, <2>2 DEF SeenInv, SeenBy, PastRead
<1>2. \A i \in Items : LeftQueue(i)' /\ i \notin late' => LeftQueue(i) /\ i \notin late
  BY DEF LeftQueue, Insert
<1>3. QueuedAlertsAreTried'
  BY <1>2 DEF SeenInv, QueuedAlertsAreTried
<1> QED BY <1>1, <1>3 DEF SeenInv

\* A step of one thread that inserts and deletes nothing.
LEMMA SeenStep ==
  ASSUME TypeOK, SeenInv, Grows, UNCHANGED <<born, stored, late>>,
         NEW t \in Threads, SeenBy(t)',
         \A s \in Threads : s # t => flush'[s] = flush[s]
  PROVE  SeenInv'
<1>1. \A s \in Threads : SeenBy(s)'
  BY SeenElsewhere DEF SeenInv
<1> QED BY <1>1, TriedKept DEF SeenInv

LEMMA SeenRead == ASSUME TypeOK, SeenInv, NEW t \in Threads, Read(t) PROVE SeenInv'
<1>1. Grows /\ UNCHANGED <<born, stored, late>>
  BY DEF Grows, TypeOK, Read, sideVars
<1>2. \A s \in Threads : s # t => flush'[s] = flush[s]
  BY DEF TypeOK, Read
<1>3. SeenBy(t)'
  <2>1. CASE Found(t) = {}
    <3>1. flush'[t] = Done(flush[t])
      BY <2>1 DEF TypeOK, Read
    <3> QED BY <3>1 DEF SeenBy, PastRead, Done, Idle
  <2>2. CASE Found(t) # {}
    <3>1. /\ flush'[t].read = Found(t) /\ flush'[t].todo = Addressed(t)
          /\ flush'[t].pc = IF Addressed(t) = {} THEN "deleting" ELSE "sending"
      <4>1. flush[t] \in FlushStates
        BY DEF TypeOK
      <4>2. flush'[t] = [flush[t] EXCEPT !.read = Found(t), !.todo = Addressed(t),
                           !.pc = IF Addressed(t) = {} THEN "deleting" ELSE "sending"]
        BY <2>2 DEF TypeOK, Read
      <4> QED BY <4>1, <4>2 DEF FlushStates
    <3>2. Found(t) \subseteq Queue(t[2])
      BY DEF Found
    <3>3. ASSUME NEW i \in Items, Waiting(i, t)
          PROVE  i \in Found(t) /\ Recipient[i] \in Addressed(t)
      <4>1. Scheduled(t) => i \in ScheduledItems /\ Recipient[i] \in AllowedRecipients
        BY <3>3 DEF Waiting, Sendable, Scheduled, Queue
      <4>2. i \in Found(t)
        BY <3>3, <4>1 DEF Found, Waiting
      <4> QED BY <4>1, <4>2 DEF Addressed
    <3>4. \A i \in Items : Waiting(i, t)' => Waiting(i, t)
      BY <1>1 DEF Waiting
    <3> QED BY <3>1, <3>2, <3>3, <3>4 DEF SeenBy
  <2> QED BY <2>1, <2>2
<1> QED BY <1>1, <1>2, <1>3, SeenStep

\* One recipient's turn: his items are handed over, or none is sendable.
LEMMA SeenTurn ==
  ASSUME TypeOK, SeenInv, Grows, UNCHANGED <<born, stored, late>>,
         NEW t \in Threads, NEW r \in flush[t].todo, Handled(t, r), flush[t].pc = "sending",
         \A i \in For(t, r) \intersect Items : Waiting(i, t) => Handed(i)'
  PROVE  SeenInv'
<1>1. \A s \in Threads : s # t => flush'[s] = flush[s]
  BY HandledTypes
<1>2. /\ flush'[t].read = flush[t].read /\ flush'[t].todo = flush[t].todo \ {r}
      /\ flush'[t].pc = IF flush[t].todo = {r} THEN "deleting" ELSE "sending"
  BY HandledTypes
<1>3. SeenBy(t) /\ PastRead(t)
  BY DEF SeenInv, PastRead
<1>4. ASSUME NEW i \in Items, Waiting(i, t)'
      PROVE  i \in flush'[t].read /\ (Recipient[i] \in flush'[t].todo \/ Handed(i)')
  <2>1. Waiting(i, t)
    BY <1>4 DEF Waiting
  <2>2. i \in flush[t].read /\ (Recipient[i] \in flush[t].todo \/ Handed(i))
    BY <1>3, <2>1 DEF SeenBy
  <2>3. CASE Recipient[i] = r
    BY <1>2, <2>1, <2>2, <2>3 DEF For
  <2>4. CASE Recipient[i] # r
    BY <1>2, <2>2, <2>4, HandedGrows
  <2> QED BY <2>3, <2>4
<1>5. SeenBy(t)'
  BY <1>2, <1>3, <1>4 DEF SeenBy
<1> QED BY <1>1, <1>5, SeenStep
\* Deleting every item of the user deletes no unseen one.
LEMMA SeenDelete ==
  ASSUME TypeOK, SeenInv, Grows, NEW t \in Threads, flush[t].pc = "deleting",
         stored' = stored \ Queue(t[2]), UNCHANGED <<born, late>>,
         flush'[t].pc \notin {"sending", "deleting"},
         \A s \in Threads : s # t => flush'[s] = flush[s]
  PROVE  SeenInv'
<1>1. \A s \in Threads : SeenBy(s)'
  BY SeenElsewhere DEF SeenInv
<1>2. ASSUME NEW i \in Items, LeftQueue(i)', i \notin late, Sendable(i) PROVE Handed(i)
  <2>1. CASE LeftQueue(i)
    BY <1>2, <2>1 DEF SeenInv, QueuedAlertsAreTried, Handed
  <2>2. CASE i \in stored
    <3>1. Waiting(i, t)
      BY <1>2, <2>2 DEF LeftQueue, Waiting
    <3> QED BY <3>1 DEF SeenInv, SeenBy, PastRead
  <2> QED BY <1>2, <2>1, <2>2 DEF LeftQueue
<1>3. QueuedAlertsAreTried'
  <2> SUFFICES ASSUME NEW i \in Items, LeftQueue(i)', i \notin late, Sendable(i)
               PROVE  Handed(i)'
    BY DEF QueuedAlertsAreTried, Handed, Sendable
  <2> QED BY <1>2, HandedGrows
<1> QED BY <1>1, <1>3 DEF SeenInv

LEMMA SeenFlushStep ==
  ASSUME TypeOK, SeenInv, NEW t \in Threads, FlushStep(t)
  PROVE  SeenInv'
<1>1. CASE Read(t)
  BY <1>1, SeenRead
<1>2. CASE Delete(t)
  <2>1. Grows
    BY <1>2 DEF Delete, Grows, TypeOK, sideVars
  <2>2. /\ flush'[t] = Done(flush[t])
        /\ \A s \in Threads : s # t => flush'[s] = flush[s]
    BY <1>2 DEF Delete, TypeOK
  <2>3. flush'[t].pc \notin {"sending", "deleting"}
    BY <2>2 DEF Done, Idle
  <2> QED BY <1>2, <2>1, <2>2, <2>3, SeenDelete DEF Delete, sideVars
<1>3. CASE CompleteRequest(t)
  <2>1. Grows
    BY <1>3 DEF CompleteRequest, Grows, TypeOK, sideVars
  <2>2. flush'[t] = Idle /\ \A s \in Threads : s # t => flush'[s] = flush[s]
    BY <1>3 DEF CompleteRequest, TypeOK
  <2>3. SeenBy(t)'
    BY <2>2 DEF SeenBy, PastRead, Idle
  <2> QED BY <1>3, <2>1, <2>2, <2>3, SeenStep DEF CompleteRequest, sideVars
<1>4. ASSUME NEW r \in flush[t].todo, Preview(t, r) PROVE SeenInv'
  <2>1. Grows
    BY <1>4 DEF Preview, Grows, TypeOK, sideVars
  <2>2. PICK k \in PreviewItems : k \in For(t, r)
    BY <1>4 DEF Preview, IsPreview
  <2>3. ASSUME NEW i \in For(t, r) PROVE ~Waiting(i, t)
    <3>1. i \in Queue(t[2]) /\ k \in Queue(t[2])
      BY <1>4, <2>2 DEF Preview, For, SeenInv, SeenBy, PastRead
    <3>2. i \notin SmsItems
      BY <2>2, <3>1, DigestConstants DEF Queue
    <3>3. Recipient[k] = Recipient[i]
      BY <2>2 DEF For
    <3> QED BY <3>2, <3>3 DEF Waiting, Sendable
  <2> QED BY <1>4, <2>1, <2>3, SeenTurn DEF Preview, sideVars
<1>5. ASSUME NEW r \in flush[t].todo, SendEmail(t, r) PROVE SeenInv'
  <2>1. Grows
    BY <1>5, DeliveredTypes DEF SendEmail, Grows, TypeOK
  <2>2. ASSUME NEW i \in For(t, r) \intersect Items PROVE Handed(i)'
    <3>1. i \notin SmsItems
      BY <1>5 DEF SendEmail, For, SeenInv, SeenBy, PastRead, Queue
    <3> QED BY <1>5, <3>1 DEF SendEmail, Handed
  <2> QED BY <1>5, <2>1, <2>2, SeenTurn DEF SendEmail
<1>6. ASSUME NEW r \in flush[t].todo, SendSms(t, r) PROVE SeenInv'
  <2>1. Grows
    BY <1>6, DeliveredTypes DEF SendSms, Grows, TypeOK
  <2>2. ASSUME NEW i \in For(t, r) \intersect Items PROVE Handed(i)'
    <3>1. i \in SmsItems
      BY <1>6 DEF SendSms, For, SeenInv, SeenBy, PastRead, Queue
    <3>2. mailed'[i] > 0
      BY <1>6, DeliveredTypes DEF SendSms
    <3> QED BY <3>1, <3>2 DEF Handed
  <2> QED BY <1>6, <2>1, <2>2, SeenTurn DEF SendSms
<1> QED BY <1>1, <1>2, <1>3, <1>4, <1>5, <1>6 DEF FlushStep

LEMMA SeenFailure ==
  ASSUME TypeOK, SeenInv, NEW t \in Threads, Failure(t)
  PROVE  SeenInv'
<1>1. CASE TickFails(t)
  <2>1. Grows /\ UNCHANGED <<flush, born, stored, late>>
    BY <1>1 DEF TickFails, Grows, TypeOK, sideVars
  <2> QED BY <2>1, SeenElsewhere, SeenStep DEF SeenInv
<1>2. CASE CommandFails(t)
  <2>1. Grows /\ UNCHANGED <<born, late>>
    BY <1>2 DEF CommandFails, Grows, TypeOK, sideVars
  <2>2. flush'[t] = Idle /\ \A s \in Threads : s # t => flush'[s] = flush[s]
    BY <1>2 DEF CommandFails, TypeOK
  <2>3. flush'[t].pc \notin {"sending", "deleting"} /\ SeenBy(t)'
    BY <2>2 DEF SeenBy, PastRead, Idle
  <2>4. CASE stored' = stored
    BY <2>1, <2>2, <2>3, <2>4, SeenStep
  <2>5. CASE flush[t].pc = "deleting" /\ stored' = stored \ Queue(t[2])
    BY <2>1, <2>2, <2>3, <2>5, SeenDelete
  <2> QED BY <1>2, <2>4, <2>5 DEF CommandFails
<1>3. ASSUME NEW r \in flush[t].todo, SmsFails(t, r) PROVE SeenInv'
  <2>1. Grows /\ UNCHANGED <<born, stored, late>>
    BY <1>3, DeliveredTypes DEF SmsFails, Grows, TypeOK
  <2>2. flush'[t] = Idle /\ \A s \in Threads : s # t => flush'[s] = flush[s]
    BY <1>3 DEF SmsFails, TypeOK
  <2>3. SeenBy(t)'
    BY <2>2 DEF SeenBy, PastRead, Idle
  <2> QED BY <2>1, <2>2, <2>3, SeenStep
<1>4. ASSUME NEW q \in Requests, ClaimReplyLost(t, q) PROVE SeenInv'
  <2>1. Grows /\ UNCHANGED <<flush, born, stored, late>>
    BY <1>4 DEF ClaimReplyLost, Grows, TypeOK, sideVars
  <2> QED BY <2>1, SeenElsewhere, SeenStep DEF SeenInv
<1> QED BY <1>1, <1>2, <1>3, <1>4 DEF Failure

\* A step that touches neither items nor any flush past its read.
LEMMA SeenOther ==
  ASSUME TypeOK, SeenInv, UNCHANGED <<born, stored, late, tried, mailed>>,
         \A t \in Threads : flush'[t] = flush[t] \/ flush'[t].pc \notin {"sending", "deleting"}
  PROVE  SeenInv'
<1>1. Grows
  BY DEF Grows, TypeOK
<1> QED BY <1>1, SeenElsewhere, TriedKept DEF SeenInv

LEMMA SeenNext == TypeOK /\ SeenInv /\ [Next]_vars => SeenInv'
<1> SUFFICES ASSUME TypeOK, SeenInv, [Next]_vars PROVE SeenInv'
  OBVIOUS
<1>1. CASE UNCHANGED vars
  BY <1>1, SeenOther DEF vars, sideVars
<1>2. ASSUME NEW i \in Items, Defer(i) PROVE SeenInv'
  BY <1>2, SeenInsert DEF Defer
<1>3. ASSUME NEW q \in Requests, RequestItems(q) PROVE SeenInv'
  BY <1>3, SeenInsert, BatchTypes DEF RequestItems
<1>4. ASSUME NEW q \in Requests, RequestJob(q) PROVE SeenInv'
  BY <1>4, SeenOther DEF RequestJob, sideVars
<1>5. ASSUME NEW t \in Threads, Tick(t) PROVE SeenInv'
  <2>1. flush' = flush \/ flush' = [flush EXCEPT ![t] = Begun(NoRequest)]
    BY <1>5 DEF Tick
  <2>2. \A s \in Threads : flush'[s] = flush[s] \/ flush'[s].pc \notin {"sending", "deleting"}
    BY <2>1 DEF TypeOK, Begun, Idle
  <2> QED BY <1>5, <2>2, SeenOther DEF Tick
<1>6. ASSUME NEW t \in Threads, NEW q \in Requests, ClaimRequest(t, q) PROVE SeenInv'
  <2>1. \A s \in Threads : flush'[s] = flush[s] \/ flush'[s].pc \notin {"sending", "deleting"}
    BY <1>6 DEF ClaimRequest, TypeOK, Begun, Idle
  <2> QED BY <1>6, <2>1, SeenOther DEF ClaimRequest, sideVars
<1>7. ASSUME NEW w \in Workers, Crash(w) \/ Restart(w) PROVE SeenInv'
  <2>1. \A s \in Threads : flush'[s] = flush[s] \/ flush'[s].pc \notin {"sending", "deleting"}
    BY <1>7 DEF Crash, Restart, Idle
  <2> QED BY <1>7, <2>1, SeenOther DEF Crash, Restart, sideVars
<1>8. CASE Clock
  BY <1>8, SeenOther DEF Clock, NextMinute, TickDropped, sideVars
<1>9. ASSUME NEW q \in Requests, RequestExpires(q) PROVE SeenInv'
  BY <1>9, SeenOther DEF RequestExpires, sideVars
<1> QED BY <1>1, <1>2, <1>3, <1>4, <1>5, <1>6, <1>7, <1>8, <1>9, SeenFlushStep, SeenFailure
  DEF Next, Progress

\* No alert is dropped unseen: an item that leaves the queue, was not inserted
\* behind the back of a flush and is not kept back by filters or a preview has
\* been handed to the transport.
THEOREM AlertsTried == Spec => []QueuedAlertsAreTried
<1>1. Init => SeenInv
  <2> SUFFICES ASSUME Init PROVE SeenInv
    OBVIOUS
  <2>1. \A t \in Threads : SeenBy(t)
    BY DEF Init, SeenBy, PastRead, Idle
  <2> QED BY <2>1 DEF Init, SeenInv, QueuedAlertsAreTried, LeftQueue
<1>2. TypeOK /\ SeenInv /\ [Next]_vars => SeenInv'
  BY SeenNext
<1>3. SeenInv => QueuedAlertsAreTried
  BY DEF SeenInv
<1> QED BY <1>1, <1>2, <1>3, TypeCorrect, PTL DEF Spec
-----------------------------------------------------------------------------
(* RequestInv: one immediate flush at most holds a flush job, and it is    *)
(* about to complete the job only once the job's items are gone.           *)

Holds(t, q) == flush[t].request = q

HolderInv ==
  \A t \in Threads : \A q \in Requests : Holds(t, q) =>
    /\ t[2] = "immediate-flush" /\ request[q] \in {"processing", "expired"}
    /\ flush[t].pc = "settling" => Batch[q] \intersect stored = {}
    /\ \A s \in Threads : Holds(s, q) => s = t

SettlersHold == \A t \in Threads : flush[t].pc = "settling" => flush[t].request \in Requests

RequestInv == HolderInv /\ SettlersHold /\ CompletedRequestsFlushed

\* Nothing is inserted, no job changes, no flush takes a job or turns to
\* completing one.
LEMMA RequestSame ==
  ASSUME RequestInv, request' = request, stored' \subseteq stored,
         \A t \in Threads :
           flush'[t] = flush[t]
           \/ (flush'[t].request \in {flush[t].request, NoRequest} /\ flush'[t].pc # "settling")
  PROVE  RequestInv'
<1>1. \A t \in Threads : \A q \in Requests : Holds(t, q)' => Holds(t, q)
  BY DigestConstants DEF Holds
<1>2. HolderInv'
  BY <1>1 DEF RequestInv, HolderInv
<1>3. SettlersHold' /\ CompletedRequestsFlushed'
  BY DEF RequestInv, SettlersHold, CompletedRequestsFlushed
<1> QED BY <1>2, <1>3 DEF RequestInv

\* Items are inserted by a request that has no job yet, or by none.
LEMMA RequestInsert ==
  ASSUME RequestInv, NEW S, Insert(S), flush' = flush,
         \A q \in Requests :
           \/ request'[q] = request[q] /\ Batch[q] \intersect S = {}
           \/ request[q] = "none" /\ request'[q] = "inserted"
  PROVE  RequestInv'
<1>1. HolderInv'
  <2> SUFFICES ASSUME NEW t \in Threads, NEW q \in Requests, Holds(t, q)
               PROVE  /\ t[2] = "immediate-flush" /\ request'[q] \in {"processing", "expired"}
                      /\ flush[t].pc = "settling" => Batch[q] \intersect stored' = {}
                      /\ \A s \in Threads : Holds(s, q) => s = t
    BY DEF HolderInv, Holds
  <2>1. request[q] \in {"processing", "expired"}
    BY DEF RequestInv, HolderInv
  <2> QED BY <2>1 DEF RequestInv, HolderInv, Insert
<1>2. CompletedRequestsFlushed'
  BY DEF RequestInv, CompletedRequestsFlushed, Insert
<1> QED BY <1>1, <1>2 DEF RequestInv, SettlersHold

\* A flush turns to completing its job, the queue being empty.
LEMMA RequestDone ==
  ASSUME TypeOK, RequestInv, NEW t \in Threads, request' = request,
         flush' = [flush EXCEPT ![t] = Done(@)],
         stored' \subseteq stored, stored' \intersect (Items \ SmsItems) = {} \/ flush[t].request = NoRequest
  PROVE  RequestInv'
<1>1. /\ flush'[t] = Done(flush[t])
      /\ \A s \in Threads : s # t => flush'[s] = flush[s]
  BY DEF TypeOK
<1>2. CASE flush[t].request = NoRequest
  BY <1>1, <1>2, RequestSame DEF Done, Idle
<1>3. CASE flush[t].request # NoRequest
  <2>1. flush[t].request \in Requests
    BY <1>3 DEF TypeOK, FlushStates
  <2>2. flush'[t].pc = "settling" /\ flush'[t].request = flush[t].request
    <3> DEFINE g == [Idle EXCEPT !.pc = "settling", !.request = flush[t].request]
    <3>1. g.pc = "settling" /\ g.request = flush[t].request
      BY DEF Idle
    <3>2. Done(flush[t]) = g
      BY <1>3 DEF Done
    <3> HIDE DEF g
    <3> QED BY <1>1, <3>1, <3>2
  <2>3. \A q \in Requests : Batch[q] \intersect stored' = {}
    BY <1>3, BatchTypes
  <2>4. \A s \in Threads : \A q \in Requests : Holds(s, q)' <=> Holds(s, q)
    BY <1>1, <2>2 DEF Holds
  <2>5. HolderInv'
    BY <2>3, <2>4 DEF RequestInv, HolderInv
  <2>6. SettlersHold' /\ CompletedRequestsFlushed'
    BY <1>1, <2>1, <2>2, <2>3 DEF RequestInv, SettlersHold, CompletedRequestsFlushed
  <2> QED BY <2>5, <2>6 DEF RequestInv
<1> QED BY <1>2, <1>3

\* A flush completes its job and lets go of it.
LEMMA RequestCompleted ==
  ASSUME TypeOK, RequestInv, NEW t \in Threads, flush[t].pc = "settling",
         SetCompleted(flush[t].request),
         flush' = [flush EXCEPT ![t] = Idle], stored' = stored
  PROVE  RequestInv'
<1> DEFINE q == flush[t].request
<1>1. q \in Requests /\ Holds(t, q)
  BY DEF RequestInv, SettlersHold, Holds
<1>2. /\ flush'[t] = Idle
      /\ \A s \in Threads : s # t => flush'[s] = flush[s]
  BY DEF TypeOK
<1>3. /\ request'[q] \in {"completed", "expired"}
      /\ \A p \in Requests : p # q => request'[p] = request[p]
  BY <1>1 DEF TypeOK, SetCompleted
<1>4. ASSUME NEW s \in Threads, NEW p \in Requests, Holds(s, p)'
      PROVE  s # t /\ Holds(s, p) /\ p # q
  <2>1. s # t
    BY <1>2, <1>4, DigestConstants DEF Holds, Idle
  <2>2. Holds(s, p)
    BY <1>2, <1>4, <2>1 DEF Holds
  <2> QED BY <1>1, <2>1, <2>2 DEF RequestInv, HolderInv
<1>5. HolderInv'
  <2> SUFFICES ASSUME NEW s \in Threads, NEW p \in Requests, Holds(s, p)'
               PROVE  /\ s[2] = "immediate-flush" /\ request'[p] \in {"processing", "expired"}
                      /\ flush'[s].pc = "settling" => Batch[p] \intersect stored = {}
                      /\ \A u \in Threads : Holds(u, p)' => u = s
    BY DEF HolderInv
  <2>1. s # t /\ Holds(s, p) /\ p # q
    BY <1>4
  <2>2. \A u \in Threads : Holds(u, p)' => Holds(u, p)
    BY <1>4
  <2> HIDE DEF q
  <2> QED BY <1>2, <1>3, <2>1, <2>2 DEF RequestInv, HolderInv
<1>6. CompletedRequestsFlushed'
  <2>1. Batch[q] \intersect stored = {}
    BY <1>1 DEF RequestInv, HolderInv
  <2> HIDE DEF q
  <2> QED BY <1>3, <2>1 DEF RequestInv, CompletedRequestsFlushed
<1>7. SettlersHold'
  BY <1>2 DEF RequestInv, SettlersHold, Idle
<1> QED BY <1>5, <1>6, <1>7 DEF RequestInv

\* A pending job, which nobody holds, is claimed.
LEMMA RequestClaimed ==
  ASSUME TypeOK, RequestInv, NEW q \in Requests, request[q] = "pending",
         request' = [request EXCEPT ![q] = "processing"], stored' = stored,
         \/ flush' = flush
         \/ \E t \in Threads : t[2] = "immediate-flush" /\ flush' = [flush EXCEPT ![t] = Begun(q)]
  PROVE  RequestInv'
<1>1. \A s \in Threads : ~Holds(s, q)
  BY DEF RequestInv, HolderInv
<1>2. /\ request'[q] = "processing"
      /\ \A p \in Requests : p # q => request'[p] = request[p]
  BY DEF TypeOK
<1>3. CompletedRequestsFlushed'
  BY <1>2 DEF RequestInv, CompletedRequestsFlushed
<1>4. CASE flush' = flush
  <2>1. HolderInv' /\ SettlersHold'
    BY <1>1, <1>2, <1>4 DEF RequestInv, HolderInv, SettlersHold, Holds
  <2> QED BY <1>3, <2>1 DEF RequestInv
<1>5. ASSUME NEW t \in Threads, t[2] = "immediate-flush", flush' = [flush EXCEPT ![t] = Begun(q)]
      PROVE  RequestInv'
  <2>1. /\ flush'[t] = Begun(q)
        /\ \A s \in Threads : s # t => flush'[s] = flush[s]
    BY <1>5 DEF TypeOK
  <2>2. flush'[t].request = q /\ flush'[t].pc = "reading"
    BY <2>1 DEF Begun, Idle
  <2>3. \A s \in Threads : \A p \in Requests :
          Holds(s, p)' => (s = t /\ p = q) \/ (s # t /\ p # q /\ Holds(s, p))
    BY <1>1, <2>1, <2>2 DEF Holds
  <2>4. HolderInv'
    BY <1>2, <1>5, <2>1, <2>2, <2>3 DEF RequestInv, HolderInv
  <2>5. SettlersHold'
    BY <2>1, <2>2 DEF RequestInv, SettlersHold
  <2> QED BY <1>3, <2>4, <2>5 DEF RequestInv
<1> QED BY <1>4, <1>5
LEMMA RequestNext == TypeOK /\ RequestInv /\ [Next]_vars => RequestInv'
<1> SUFFICES ASSUME TypeOK, RequestInv, [Next]_vars PROVE RequestInv'
  OBVIOUS
<1>1. CASE UNCHANGED vars
  BY <1>1, RequestSame DEF vars
<1>2. ASSUME NEW i \in Items, Defer(i) PROVE RequestInv'
  <2>1. \A q \in Requests : Batch[q] \intersect {i} = {}
    BY <1>2 DEF Defer
  <2> QED BY <1>2, <2>1, RequestInsert DEF Defer
<1>3. ASSUME NEW q \in Requests, RequestItems(q) PROVE RequestInv'
  <2>1. \A p \in Requests :
          \/ request'[p] = request[p] /\ Batch[p] \intersect Batch[q] = {}
          \/ request[p] = "none" /\ request'[p] = "inserted"
    BY <1>3, DigestConstants DEF RequestItems, TypeOK
  <2> QED BY <1>3, <2>1, RequestInsert DEF RequestItems
<1>4. ASSUME NEW q \in Requests, RequestJob(q) PROVE RequestInv'
  <2>1. request'[q] = "pending" /\ \A p \in Requests : p # q => request'[p] = request[p]
    BY <1>4 DEF RequestJob, TypeOK
  <2>2. \A t \in Threads : ~Holds(t, q)
    BY <1>4 DEF RequestInv, HolderInv, RequestJob
  <2>3. HolderInv'
    BY <1>4, <2>1, <2>2 DEF RequestInv, HolderInv, RequestJob, Holds
  <2>4. SettlersHold' /\ CompletedRequestsFlushed'
    BY <1>4, <2>1 DEF RequestInv, SettlersHold, CompletedRequestsFlushed, RequestJob
  <2> QED BY <2>3, <2>4 DEF RequestInv
<1>5. ASSUME NEW t \in Threads, Tick(t) PROVE RequestInv'
  <2>1. flush' = flush \/ flush' = [flush EXCEPT ![t] = Begun(NoRequest)]
    BY <1>5 DEF Tick
  <2>2. \A s \in Threads :
           flush'[s] = flush[s] \/ (flush'[s].request = NoRequest /\ flush'[s].pc # "settling")
    BY <2>1 DEF TypeOK, Begun, Idle
  <2> QED BY <1>5, <2>2, RequestSame DEF Tick
<1>6. ASSUME NEW t \in Threads, NEW q \in Requests, ClaimRequest(t, q) PROVE RequestInv'
  BY <1>6, RequestClaimed DEF ClaimRequest
<1>7. ASSUME NEW t \in Threads, FlushStep(t) PROVE RequestInv'
  <2>h. \A r : Handled(t, r) => \A s \in Threads :
           flush'[s] = flush[s]
           \/ (flush'[s].request \in {flush[s].request, NoRequest} /\ flush'[s].pc # "settling")
    BY <1>7, HandledTypes
  <2>q. flush[t].request = NoRequest \/ t[2] = "immediate-flush"
    BY DEF TypeOK, FlushStates, RequestInv, HolderInv, Holds
  <2>1. CASE Read(t)
    <3>1. CASE Found(t) = {}
      <4>1. flush' = [flush EXCEPT ![t] = Done(@)] /\ UNCHANGED <<stored, request>>
        BY <2>1, <3>1 DEF Read
      <4>2. t[2] = "immediate-flush" => stored \intersect (Items \ SmsItems) = {}
        BY <3>1 DEF Found, Scheduled, Queue
      <4> QED BY <2>q, <4>1, <4>2, RequestDone
    <3>2. CASE Found(t) # {}
      <4>1. \A s \in Threads : s # t => flush'[s] = flush[s]
        BY <2>1 DEF Read, TypeOK
      <4>2. flush'[t].request = flush[t].request /\ flush'[t].pc # "settling"
        <5>1. flush[t] \in FlushStates
          BY DEF TypeOK
        <5>2. flush'[t] = [flush[t] EXCEPT !.read = Found(t), !.todo = Addressed(t),
                             !.pc = IF Addressed(t) = {} THEN "deleting" ELSE "sending"]
          BY <2>1, <3>2 DEF TypeOK, Read
        <5> QED BY <5>1, <5>2 DEF FlushStates
      <4> QED BY <2>1, <4>1, <4>2, RequestSame DEF Read
    <3> QED BY <3>1, <3>2
  <2>2. CASE Delete(t)
    <3>1. t[2] = "immediate-flush" => stored' \intersect (Items \ SmsItems) = {}
      BY <2>2 DEF Delete, Queue
    <3> QED BY <2>2, <2>q, <3>1, RequestDone DEF Delete
  <2>3. CASE CompleteRequest(t)
    BY <2>3, RequestCompleted DEF CompleteRequest
  <2>4. ASSUME NEW r \in flush[t].todo, Preview(t, r) \/ SendEmail(t, r) \/ SendSms(t, r)
        PROVE  RequestInv'
    BY <2>4, <2>h, RequestSame DEF Preview, SendEmail, SendSms
  <2> QED BY <1>7, <2>1, <2>2, <2>3, <2>4 DEF FlushStep
<1>8. ASSUME NEW t \in Threads, Failure(t) PROVE RequestInv'
  <2>i. flush' = [flush EXCEPT ![t] = Idle] => \A s \in Threads :
           flush'[s] = flush[s] \/ (flush'[s].request = NoRequest /\ flush'[s].pc # "settling")
    BY DEF TypeOK, Idle
  <2>1. CASE TickFails(t)
    BY <2>1, RequestSame DEF TickFails
  <2>2. CASE CommandFails(t)
    <3>1. CASE request' = request
      BY <2>2, <2>i, <3>1, RequestSame DEF CommandFails
    <3>2. CASE flush[t].pc = "settling" /\ UNCHANGED stored
               /\ SetCompleted(flush[t].request)
      BY <2>2, <3>2, RequestCompleted DEF CommandFails
    <3> QED BY <2>2, <3>1, <3>2 DEF CommandFails
  <2>3. ASSUME NEW r \in flush[t].todo, SmsFails(t, r) PROVE RequestInv'
    BY <2>3, <2>i, RequestSame DEF SmsFails
  <2>4. ASSUME NEW q \in Requests, ClaimReplyLost(t, q) PROVE RequestInv'
    BY <2>4, RequestClaimed DEF ClaimReplyLost
  <2> QED BY <1>8, <2>1, <2>2, <2>3, <2>4 DEF Failure
<1>9. ASSUME NEW w \in Workers, Crash(w) \/ Restart(w) PROVE RequestInv'
  <2>1. \A s \in Threads :
           flush'[s] = flush[s] \/ (flush'[s].request = NoRequest /\ flush'[s].pc # "settling")
    BY <1>9 DEF Crash, Restart, Idle
  <2> QED BY <1>9, <2>1, RequestSame DEF Crash, Restart
<1>10. CASE Clock
  BY <1>10, RequestSame DEF Clock, NextMinute, TickDropped
<1>11. ASSUME NEW q \in Requests, RequestExpires(q) PROVE RequestInv'
  <2>1. request'[q] = "expired" /\ \A p \in Requests : p # q => request'[p] = request[p]
    BY <1>11 DEF RequestExpires, TypeOK
  <2>2. HolderInv'
    BY <1>11, <2>1 DEF RequestInv, HolderInv, RequestExpires, Holds
  <2>3. SettlersHold' /\ CompletedRequestsFlushed'
    BY <1>11, <2>1 DEF RequestInv, SettlersHold, CompletedRequestsFlushed, RequestExpires
  <2> QED BY <2>2, <2>3 DEF RequestInv
<1> QED BY <1>1, <1>2, <1>3, <1>4, <1>5, <1>6, <1>7, <1>8, <1>9, <1>10, <1>11 DEF Next, Progress

\* A completed flush job has flushed its items, whatever the other timers and
\* processes do.
THEOREM RequestsFlushed == Spec => []CompletedRequestsFlushed
<1>1. Init => RequestInv
  BY DigestConstants DEF Init, RequestInv, HolderInv, SettlersHold, Holds, Idle,
     CompletedRequestsFlushed
<1>2. TypeOK /\ RequestInv /\ [Next]_vars => RequestInv'
  BY RequestNext
<1>3. RequestInv => CompletedRequestsFlushed
  BY DEF RequestInv
<1> QED BY <1>1, <1>2, <1>3, TypeCorrect, PTL DEF Spec
-----------------------------------------------------------------------------
(* MailInv: every mail of an item is owed to a flush that read it and is   *)
(* still at work, or to one that was cut off.                              *)

Readers(i) == {t \in Threads : PastRead(t) /\ i \in flush[t].read}
Owing(i) == {t \in Readers(i) : flush[t].pc = "sending" /\ Recipient[i] \in flush[t].todo}

ReadInv ==
  /\ \A t \in Threads : PastRead(t) => flush[t].read \subseteq Queue(t[2]) \intersect born
  /\ \A q \in Requests : request[q] = "none" => Batch[q] \intersect born = {}
  /\ \A i \in Items \ born : mailed[i] = 0

MailInv ==
  \A i \in Items :
    mailed[i] + Cardinality(Owing(i))
      <= cutOff + Cardinality(IF i \in stored THEN Readers(i) ELSE FlushersOf(i))

LEMMA ThreadSets ==
  ASSUME NEW S \in SUBSET Threads
  PROVE  IsFiniteSet(S) /\ Cardinality(S) \in Nat
BY ThreadsFinite, FS_Subset, FS_CardinalityType

LEMMA ThreadSubset ==
  ASSUME NEW S \in SUBSET Threads, NEW T \in SUBSET S
  PROVE  Cardinality(T) <= Cardinality(S)
BY ThreadSets, FS_Subset

LEMMA ThreadUnion ==
  ASSUME NEW S \in SUBSET Threads, NEW T \in SUBSET Threads, NEW U \in SUBSET (S \union T)
  PROVE  Cardinality(U) <= Cardinality(S) + Cardinality(T)
<1>1. /\ IsFiniteSet(S) /\ Cardinality(S) \in Nat
      /\ IsFiniteSet(T) /\ Cardinality(T) \in Nat
      /\ Cardinality(S \intersect T) \in Nat
  BY ThreadSets
<1>2. Cardinality(S \union T) = Cardinality(S) + Cardinality(T) - Cardinality(S \intersect T)
  BY <1>1, FS_Union
<1>3. Cardinality(U) <= Cardinality(S \union T)
  BY ThreadSubset
<1>4. Cardinality(U) \in Nat /\ Cardinality(S \union T) \in Nat
  BY ThreadSets
<1> QED BY <1>1, <1>2, <1>3, <1>4

LEMMA MailTypes ==
  ASSUME TypeOK, NEW i \in Items
  PROVE  /\ Readers(i) \subseteq Threads /\ Owing(i) \subseteq Readers(i)
         /\ FlushersOf(i) \subseteq Threads
         /\ Cardinality(Readers(i)) \in Nat /\ Cardinality(Owing(i)) \in Nat
         /\ Cardinality(FlushersOf(i)) \in Nat
         /\ Cardinality(Owing(i)) <= Cardinality(Readers(i))
         /\ mailed[i] \in Nat /\ cutOff \in Nat
<1>1. Readers(i) \subseteq Threads /\ Owing(i) \subseteq Readers(i) /\ FlushersOf(i) \subseteq Threads
  BY DEF Readers, Owing, FlushersOf
<1> QED BY <1>1, ThreadSets, ThreadSubset DEF TypeOK

LEMMA ReadersFlush ==
  ASSUME ReadInv, NEW i
  PROVE  Readers(i) \subseteq FlushersOf(i)
BY DEF ReadInv, Readers, FlushersOf

\* What MailInv allows of an item, whether or not it is still stored.
LEMMA MailRoom ==
  ASSUME TypeOK, ReadInv, MailInv, NEW i \in Items
  PROVE  mailed[i] + Cardinality(Owing(i)) <= cutOff + Cardinality(FlushersOf(i))
<1>1. CASE i \notin stored
  BY <1>1 DEF MailInv
<1>2. CASE i \in stored
  <2>1. mailed[i] + Cardinality(Owing(i)) <= cutOff + Cardinality(Readers(i))
    BY <1>2 DEF MailInv
  <2>2. Cardinality(Readers(i)) <= Cardinality(FlushersOf(i))
    BY ReadersFlush, MailTypes, ThreadSubset
  <2>3. /\ Cardinality(Readers(i)) \in Nat /\ Cardinality(Owing(i)) \in Nat
        /\ Cardinality(FlushersOf(i)) \in Nat
        /\ mailed[i] \in Nat /\ cutOff \in Nat
    BY MailTypes
  <2> QED BY <2>1, <2>2, <2>3
<1> QED BY <1>1, <1>2

\* Two ways for a step not to raise what is mailed and owed of an item: it
\* mails nothing and owes no more, or it pays what flush t owes.
LEMMA OwesNoMore ==
  ASSUME TypeOK, TypeOK', NEW i \in Items, mailed'[i] <= mailed[i], Owing(i)' \subseteq Owing(i)
  PROVE  mailed'[i] + Cardinality(Owing(i)') <= mailed[i] + Cardinality(Owing(i))
<1>1. Owing(i)' \in SUBSET Owing(i) /\ Owing(i) \in SUBSET Threads
  BY DEF Owing, Readers
<1>2. Cardinality(Owing(i)') <= Cardinality(Owing(i))
  BY <1>1, ThreadSubset
<1>3. /\ Cardinality(Owing(i)) \in Nat /\ Cardinality(Owing(i)') \in Nat
      /\ mailed[i] \in Nat /\ mailed'[i] \in Nat
  BY <1>1, ThreadSets DEF TypeOK
<1> QED BY ONLY <1>2, <1>3, mailed'[i] <= mailed[i]

LEMMA OwesPaid ==
  ASSUME TypeOK, TypeOK', NEW i \in Items, NEW t, mailed'[i] <= mailed[i] + 1,
         t \in Owing(i), Owing(i)' \subseteq Owing(i) \ {t}
  PROVE  mailed'[i] + Cardinality(Owing(i)') <= mailed[i] + Cardinality(Owing(i))
<1>1. Owing(i)' \in SUBSET (Owing(i) \ {t}) /\ Owing(i) \in SUBSET Threads
  BY DEF Owing, Readers
<1>2. Cardinality(Owing(i) \ {t}) = Cardinality(Owing(i)) - 1
  BY <1>1, ThreadSets, FS_RemoveElement
<1>3. Cardinality(Owing(i)') <= Cardinality(Owing(i) \ {t})
  BY <1>1, ThreadSubset
<1>4. /\ Cardinality(Owing(i)) \in Nat /\ Cardinality(Owing(i)') \in Nat
      /\ mailed[i] \in Nat /\ mailed'[i] \in Nat
  BY <1>1, ThreadSets DEF TypeOK
<1> QED BY ONLY <1>2, <1>3, <1>4, mailed'[i] <= mailed[i] + 1

\* A step that reads nothing, and cuts off the flushes in C.
LEMMA MailShrinks ==
  ASSUME TypeOK, TypeOK', ReadInv, MailInv, NEW C \in SUBSET Threads,
         cutOff' = cutOff + Cardinality(C),
         \A i \in Items :
           mailed'[i] + Cardinality(Owing(i)') <= mailed[i] + Cardinality(Owing(i)),
         \A i \in Items : i \in stored' => i \in stored /\ Readers(i) \subseteq Readers(i)' \union C
  PROVE  MailInv'
<1> SUFFICES ASSUME NEW i \in Items
             PROVE  mailed'[i] + Cardinality(Owing(i)')
                      <= cutOff' + Cardinality(IF i \in stored' THEN Readers(i)' ELSE FlushersOf(i))
  BY DEF MailInv, FlushersOf
<1>1. mailed'[i] + Cardinality(Owing(i)') <= mailed[i] + Cardinality(Owing(i))
  OBVIOUS
<1>2. /\ Cardinality(Owing(i)) \in Nat /\ Cardinality(Owing(i)') \in Nat
      /\ Cardinality(Readers(i)) \in Nat /\ Cardinality(Readers(i)') \in Nat
      /\ Cardinality(FlushersOf(i)) \in Nat /\ Cardinality(C) \in Nat
      /\ mailed[i] \in Nat /\ mailed'[i] \in Nat /\ cutOff \in Nat
  BY MailTypes, ThreadSets DEF Owing, Readers, TypeOK
<1>3. CASE i \notin stored'
  <2>1. mailed[i] + Cardinality(Owing(i)) <= cutOff + Cardinality(FlushersOf(i))
    BY MailRoom
  <2> QED BY ONLY cutOff' = cutOff + Cardinality(C), <1>1, <1>2, <1>3, <2>1
<1>4. CASE i \in stored'
  <2>1. Readers(i)' \in SUBSET Threads /\ Readers(i) \in SUBSET (Readers(i)' \union C)
    BY <1>4 DEF Readers
  <2>2. Cardinality(Readers(i)) <= Cardinality(Readers(i)') + Cardinality(C)
    BY <2>1, ThreadUnion
  <2>3. mailed[i] + Cardinality(Owing(i)) <= cutOff + Cardinality(Readers(i))
    BY <1>4 DEF MailInv
  <2> QED BY ONLY cutOff' = cutOff + Cardinality(C), <1>1, <1>2, <1>4, <2>2, <2>3
<1> QED BY <1>3, <1>4

LEMMA NothingCut ==
  ASSUME TypeOK
  PROVE  {} \in SUBSET Threads /\ cutOff = cutOff + Cardinality({})
BY FS_EmptySet DEF TypeOK

\* No flush that is past its read, now or next, is touched.
LEMMA MailSame ==
  ASSUME TypeOK, TypeOK', ReadInv, MailInv, UNCHANGED <<stored, mailed, cutOff>>,
         \A t \in Threads :
           flush'[t] = flush[t]
           \/ (flush[t].pc \notin {"sending", "deleting"}
               /\ flush'[t].pc \notin {"sending", "deleting"})
  PROVE  MailInv'
<1>1. \A i \in Items : Readers(i)' = Readers(i) /\ Owing(i)' = Owing(i)
  BY DEF Readers, Owing, PastRead
<1>2. \A i \in Items : mailed'[i] <= mailed[i]
  BY DEF TypeOK
<1>3. \A i \in Items : mailed'[i] + Cardinality(Owing(i)') <= mailed[i] + Cardinality(Owing(i))
  BY <1>1, <1>2, OwesNoMore
<1> QED BY <1>1, <1>3, NothingCut, MailShrinks

\* An item not inserted before has not been read or mailed.
LEMMA MailInsert ==
  ASSUME TypeOK, TypeOK', ReadInv, MailInv, NEW S, Insert(S), S \intersect born = {},
         UNCHANGED <<flush, mailed, cutOff>>
  PROVE  MailInv'
<1> SUFFICES ASSUME NEW i \in Items
             PROVE  mailed[i] + Cardinality(Owing(i))
                      <= cutOff + Cardinality(IF i \in stored' THEN Readers(i) ELSE FlushersOf(i))
  BY DEF MailInv, FlushersOf, Owing, Readers, PastRead
<1>1. CASE i \notin S
  BY <1>1 DEF MailInv, Insert
<1>2. CASE i \in S
  <2>1. mailed[i] = 0
    BY <1>2 DEF ReadInv
  <2>2. Owing(i) = {}
    BY <1>2 DEF Owing, Readers, ReadInv
  <2>3. Cardinality(Owing(i)) = 0
    BY <2>2, FS_EmptySet
  <2>4. Cardinality(IF i \in stored' THEN Readers(i) ELSE FlushersOf(i)) \in Nat /\ cutOff \in Nat
    BY MailTypes
  <2> QED BY <2>1, <2>3, <2>4
<1> QED BY <1>1, <1>2

LEMMA MailRead ==
  ASSUME TypeOK, TypeOK', ReadInv, MailInv, NEW t \in Threads, Read(t)
  PROVE  MailInv'
<1>1. \A s \in Threads : s # t => flush'[s] = flush[s]
  BY DEF Read, TypeOK
<1>2. UNCHANGED <<stored, mailed, cutOff>> /\ ~PastRead(t)
  BY DEF Read, sideVars, PastRead
<1>3. CASE Found(t) = {}
  <2>1. flush'[t] = Done(flush[t])
    BY <1>3 DEF TypeOK, Read
  <2>2. flush'[t].pc \notin {"sending", "deleting"}
    BY <2>1 DEF Done, Idle
  <2> QED BY <1>1, <1>2, <2>2, MailSame DEF PastRead
<1>4. CASE Found(t) # {}
  <2>1. flush'[t].read = Found(t) /\ PastRead(t)'
    <3>1. flush[t] \in FlushStates
      BY DEF TypeOK
    <3>2. flush'[t] = [flush[t] EXCEPT !.read = Found(t), !.todo = Addressed(t),
                         !.pc = IF Addressed(t) = {} THEN "deleting" ELSE "sending"]
      BY <1>4 DEF TypeOK, Read
    <3> QED BY <3>1, <3>2 DEF FlushStates, PastRead
  <2> SUFFICES ASSUME NEW i \in Items
               PROVE  mailed[i] + Cardinality(Owing(i)')
                        <= cutOff + Cardinality(IF i \in stored THEN Readers(i)' ELSE FlushersOf(i))
    BY <1>2 DEF MailInv, FlushersOf
  <2>2. CASE i \notin Found(t)
    <3>1. Readers(i)' = Readers(i) /\ Owing(i)' = Owing(i)
      BY <1>1, <1>2, <2>1, <2>2 DEF Readers, Owing, PastRead
    <3> QED BY <3>1 DEF MailInv
  <2>3. CASE i \in Found(t)
    <3>1. i \in stored
      BY <2>3 DEF Found
    <3>2. Readers(i)' = Readers(i) \union {t} /\ t \notin Readers(i)
      BY <1>1, <1>2, <2>1, <2>3 DEF Readers, PastRead
    <3>3. Cardinality(Readers(i)') = Cardinality(Readers(i)) + 1
      BY <3>2, MailTypes, ThreadSets, FS_AddElement
    <3>4. Cardinality(Owing(i)') <= Cardinality(Owing(i)) + Cardinality({t})
      <4>1. Owing(i)' \in SUBSET (Owing(i) \union {t})
        BY <1>1, <3>2 DEF Owing, Readers, PastRead
      <4> QED BY <4>1, MailTypes, ThreadUnion
    <3>5. Cardinality({t}) = 1
      BY FS_Singleton
    <3>6. /\ Cardinality(Readers(i)) \in Nat /\ Cardinality(Owing(i)) \in Nat
          /\ Cardinality(Owing(i)') \in Nat /\ mailed[i] \in Nat /\ cutOff \in Nat
      BY MailTypes, ThreadSets DEF Owing, Readers
    <3>7. mailed[i] + Cardinality(Owing(i)) <= cutOff + Cardinality(Readers(i))
      BY <3>1 DEF MailInv
    <3>8. mailed[i] + Cardinality(Owing(i)') <= cutOff + Cardinality(Readers(i)')
      BY ONLY <3>3, <3>4, <3>5, <3>6, <3>7
    <3> QED BY <3>1, <3>8
  <2> QED BY <2>2, <2>3
<1> QED BY <1>3, <1>4

\* A recipient's turn pays what the flush owes each of his items; the flush
\* goes on, or an SMS ends it and it is cut off.
LEMMA TurnPays ==
  ASSUME TypeOK, TypeOK', NEW t \in Threads, NEW r \in flush[t].todo, NEW i \in Items,
         flush[t].pc = "sending", \A s \in Threads : s # t => flush'[s] = flush[s],
         flush'[t].pc = "sending" =>
           flush'[t].read = flush[t].read /\ flush'[t].todo = flush[t].todo \ {r},
         mailed'[i] <= mailed[i] + (IF i \in For(t, r) THEN 1 ELSE 0)
  PROVE  mailed'[i] + Cardinality(Owing(i)') <= mailed[i] + Cardinality(Owing(i))
<1>1. CASE i \notin For(t, r)
  <2>1. Owing(i)' \subseteq Owing(i)
    BY DEF Owing, Readers, PastRead
  <2>2. mailed'[i] <= mailed[i]
    BY <1>1 DEF TypeOK
  <2> QED BY <2>1, <2>2, OwesNoMore
<1>2. CASE i \in For(t, r)
  <2>1. t \in Owing(i) /\ Owing(i)' \subseteq Owing(i) \ {t}
    BY <1>2 DEF Owing, Readers, PastRead, For
  <2> QED BY <1>2, <2>1, OwesPaid
<1> QED BY <1>1, <1>2

LEMMA DeliveredOnce ==
  ASSUME TypeOK, NEW t, NEW r, Delivered(t, r) \/ UNCHANGED mailed, NEW i \in Items
  PROVE  mailed'[i] <= mailed[i] + (IF i \in For(t, r) THEN 1 ELSE 0)
BY DEF TypeOK, Delivered

LEMMA MailTurn ==
  ASSUME TypeOK, TypeOK', ReadInv, MailInv, UNCHANGED <<stored, cutOff>>,
         NEW t \in Threads, NEW r \in flush[t].todo, flush[t].pc = "sending", Handled(t, r),
         Delivered(t, r) \/ UNCHANGED mailed
  PROVE  MailInv'
<1>1. /\ \A s \in Threads : s # t => flush'[s] = flush[s]
      /\ flush'[t].read = flush[t].read /\ flush'[t].todo = flush[t].todo \ {r}
      /\ flush'[t].pc \in {"sending", "deleting"}
  BY HandledTypes
<1>2. \A i \in Items :
        mailed'[i] + Cardinality(Owing(i)') <= mailed[i] + Cardinality(Owing(i))
  BY <1>1, DeliveredOnce, TurnPays
<1>3. \A i \in Items : Readers(i)' = Readers(i)
  BY <1>1 DEF Readers, PastRead
<1> QED BY <1>2, <1>3, NothingCut, MailShrinks

LEMMA MailSmsFails ==
  ASSUME TypeOK, TypeOK', ReadInv, MailInv, NEW t \in Threads, NEW r \in flush[t].todo,
         SmsFails(t, r)
  PROVE  MailInv'
<1> DEFINE C == {s \in {t} : PastRead(s)}
<1>1. /\ flush[t].pc = "sending" /\ stored' = stored
      /\ Delivered(t, r) \/ UNCHANGED mailed
      /\ flush'[t] = Idle /\ \A s \in Threads : s # t => flush'[s] = flush[s]
  BY DEF SmsFails, TypeOK
<1>2. C \in SUBSET Threads /\ cutOff' = cutOff + Cardinality(C)
  BY DEF SmsFails, Cut
<1>3. flush'[t].pc # "sending"
  BY <1>1 DEF Idle
<1>4. \A i \in Items :
        mailed'[i] + Cardinality(Owing(i)') <= mailed[i] + Cardinality(Owing(i))
  BY <1>1, <1>3, DeliveredOnce, TurnPays
<1>5. \A i \in Items : Readers(i) \subseteq Readers(i)' \union C
  BY <1>1 DEF Readers, PastRead
<1> HIDE DEF C
<1> QED BY <1>1, <1>2, <1>4, <1>5, MailShrinks

\* Flushes that read are cut off, the others of S were idle.
LEMMA MailCut ==
  ASSUME TypeOK, TypeOK', ReadInv, MailInv, NEW S \in SUBSET Threads, Cut(S), UNCHANGED mailed,
         stored' \subseteq stored,
         \A t \in S : flush'[t] = Idle,
         \A t \in Threads \ S : flush'[t] = flush[t]
  PROVE  MailInv'
<1> DEFINE C == {t \in S : PastRead(t)}
<1>1. C \in SUBSET Threads /\ cutOff' = cutOff + Cardinality(C)
  BY DEF Cut
<1>2. \A i \in Items : Owing(i)' \subseteq Owing(i) /\ Readers(i) \subseteq Readers(i)' \union C
  BY DEF Owing, Readers, PastRead, Idle
<1>3. \A i \in Items : mailed'[i] <= mailed[i]
  BY DEF TypeOK
<1> HIDE DEF C
<1>4. \A i \in Items :
        mailed'[i] + Cardinality(Owing(i)') <= mailed[i] + Cardinality(Owing(i))
  BY <1>2, <1>3, OwesNoMore
<1> QED BY <1>1, <1>2, <1>4, MailShrinks

\* The flush that deletes has no mail left to send, and what it leaves in the
\* queue it has not read.
LEMMA MailDelete ==
  ASSUME TypeOK, TypeOK', ReadInv, MailInv, NEW t \in Threads, Delete(t)
  PROVE  MailInv'
<1>1. /\ flush[t].pc = "deleting" /\ stored' = stored \ Queue(t[2])
      /\ UNCHANGED <<mailed, cutOff>>
      /\ flush'[t] = Done(flush[t]) /\ \A s \in Threads : s # t => flush'[s] = flush[s]
  BY DEF Delete, TypeOK, sideVars
<1>2. flush'[t].pc \notin {"sending", "deleting"}
  BY <1>1 DEF Done, Idle
<1>3. \A i \in Items : Owing(i)' \subseteq Owing(i)
  BY <1>1, <1>2 DEF Owing, Readers, PastRead
<1>4. \A i \in Items : mailed'[i] + Cardinality(Owing(i)') <= mailed[i] + Cardinality(Owing(i))
  <2>1. \A i \in Items : mailed'[i] <= mailed[i]
    BY <1>1 DEF TypeOK
  <2> QED BY <2>1, <1>3, OwesNoMore
<1>5. ASSUME NEW i \in Items, i \in stored'
      PROVE  i \in stored /\ Readers(i) \subseteq Readers(i)' \union {}
  <2>1. i \in stored /\ i \notin flush[t].read
    BY <1>1, <1>5 DEF ReadInv, PastRead
  <2> QED BY <1>1, <2>1 DEF Readers, PastRead
<1> QED BY <1>1, <1>4, <1>5, NothingCut, MailShrinks

LEMMA MailNext == TypeOK /\ TypeOK' /\ ReadInv /\ MailInv /\ [Next]_vars => MailInv'
<1> SUFFICES ASSUME TypeOK, TypeOK', ReadInv, MailInv, [Next]_vars PROVE MailInv'
  OBVIOUS
<1>1. CASE UNCHANGED vars
  BY <1>1, MailSame DEF vars, sideVars
<1>2. ASSUME NEW i \in Items, Defer(i) PROVE MailInv'
  <2>1. {i} \intersect born = {}
    BY <1>2 DEF Defer
  <2> QED BY <1>2, <2>1, MailInsert DEF Defer
<1>3. ASSUME NEW q \in Requests, RequestItems(q) PROVE MailInv'
  <2>1. Batch[q] \intersect born = {}
    BY <1>3 DEF RequestItems, ReadInv
  <2> QED BY <1>3, <2>1, MailInsert DEF RequestItems
<1>4. ASSUME NEW q \in Requests, RequestJob(q) PROVE MailInv'
  BY <1>4, MailSame DEF RequestJob, sideVars
<1>5. ASSUME NEW t \in Threads, Tick(t) PROVE MailInv'
  <2>1. \A s \in Threads : flush'[s] = flush[s]
           \/ (flush[s].pc = "idle" /\ flush'[s].pc = "reading")
    BY <1>5 DEF Tick, Free, Begun, Idle, TypeOK
  <2> QED BY <1>5, <2>1, MailSame DEF Tick
<1>6. ASSUME NEW t \in Threads, NEW q \in Requests, ClaimRequest(t, q) PROVE MailInv'
  <2>1. \A s \in Threads : flush'[s] = flush[s]
           \/ (flush[s].pc = "idle" /\ flush'[s].pc = "reading")
    BY <1>6 DEF ClaimRequest, Free, Begun, Idle, TypeOK
  <2> QED BY <1>6, <2>1, MailSame DEF ClaimRequest, sideVars
<1>7. ASSUME NEW t \in Threads, FlushStep(t) PROVE MailInv'
  <2>1. CASE CompleteRequest(t)
    <3>1. \A s \in Threads : flush'[s] = flush[s]
             \/ (flush[s].pc = "settling" /\ flush'[s].pc = "idle")
      BY <2>1 DEF CompleteRequest, Idle, TypeOK
    <3> QED BY <2>1, <3>1, MailSame DEF CompleteRequest, sideVars
  <2>2. ASSUME NEW r \in flush[t].todo, Preview(t, r) \/ SendEmail(t, r) \/ SendSms(t, r)
        PROVE  MailInv'
    BY <2>2, MailTurn DEF Preview, SendEmail, SendSms, sideVars
  <2> QED BY <1>7, <2>1, <2>2, MailRead, MailDelete DEF FlushStep
<1>8. ASSUME NEW t \in Threads, Failure(t) PROVE MailInv'
  <2>1. CASE TickFails(t)
    BY <2>1, MailSame DEF TickFails, sideVars
  <2>2. CASE CommandFails(t)
    <3>1. /\ \A s \in {t} : flush'[s] = Idle
          /\ \A s \in Threads \ {t} : flush'[s] = flush[s]
          /\ stored' \subseteq stored
      BY <2>2 DEF CommandFails, TypeOK
    <3> QED BY <2>2, <3>1, MailCut DEF CommandFails
  <2>3. ASSUME NEW q \in Requests, ClaimReplyLost(t, q) PROVE MailInv'
    BY <2>3, MailSame DEF ClaimReplyLost, sideVars
  <2> QED BY <1>8, <2>1, <2>2, <2>3, MailSmsFails DEF Failure
<1>9. ASSUME NEW w \in Workers, Crash(w) PROVE MailInv'
  <2> DEFINE S == {t \in Threads : t[1] = w}
  <2>1. /\ S \in SUBSET Threads
        /\ \A t \in S : flush'[t] = Idle
        /\ \A t \in Threads \ S : flush'[t] = flush[t]
    BY <1>9 DEF Crash
  <2>2. Cut(S) /\ UNCHANGED mailed /\ stored' \subseteq stored
    BY <1>9 DEF Crash
  <2> HIDE DEF S
  <2> QED BY <2>1, <2>2, MailCut
<1>10. ASSUME NEW w \in Workers, Restart(w) PROVE MailInv'
  BY <1>10, MailSame DEF Restart, sideVars
<1>11. CASE Clock
  BY <1>11, MailSame DEF Clock, NextMinute, TickDropped, sideVars
<1>12. ASSUME NEW q \in Requests, RequestExpires(q) PROVE MailInv'
  BY <1>12, MailSame DEF RequestExpires, sideVars
<1> QED BY <1>1, <1>2, <1>3, <1>4, <1>5, <1>6, <1>7, <1>8, <1>9, <1>10, <1>11, <1>12
        DEF Next, Progress

\* What a flush has read is of its own queue, and was inserted; an item never
\* inserted was never mailed.
LEMMA ReadSame ==
  ASSUME TypeOK, ReadInv, born' = born,
         \A q \in Requests : request'[q] = "none" => request[q] = "none",
         \A i \in Items \ born : mailed'[i] = mailed[i],
         \A t \in Threads : PastRead(t)' => PastRead(t) /\ flush'[t].read = flush[t].read
  PROVE  ReadInv'
<1>1. \A t \in Threads : Queue(t[2])' = Queue(t[2])
  BY DEF Queue
<1> QED BY <1>1 DEF ReadInv

LEMMA ReadMailed ==
  ASSUME TypeOK, ReadInv, NEW t \in Threads, NEW r, flush[t].pc = "sending",
         Delivered(t, r) \/ UNCHANGED mailed
  PROVE  \A i \in Items \ born : mailed'[i] = mailed[i]
<1>1. For(t, r) \subseteq born
  BY DEF ReadInv, PastRead, For
<1> QED BY <1>1 DEF Delivered, TypeOK

LEMMA ReadInsert ==
  ASSUME TypeOK, ReadInv, NEW S \in SUBSET Items, Insert(S), UNCHANGED <<flush, mailed>>,
         \A q \in Requests : request'[q] = "none" =>
           request[q] = "none" /\ Batch[q] \intersect S = {}
  PROVE  ReadInv'
BY DEF ReadInv, Insert, PastRead, Queue

LEMMA ReadNext == TypeOK /\ ReadInv /\ [Next]_vars => ReadInv'
<1> SUFFICES ASSUME TypeOK, ReadInv, [Next]_vars PROVE ReadInv'
  OBVIOUS
<1> USE DEF PastRead
<1>1. CASE UNCHANGED vars
  BY <1>1, ReadSame DEF vars, sideVars
<1>2. ASSUME NEW i \in Items, Defer(i) PROVE ReadInv'
  <2>1. \A q \in Requests : Batch[q] \intersect {i} = {}
    BY <1>2 DEF Defer
  <2> QED BY <1>2, <2>1, ReadInsert DEF Defer
<1>3. ASSUME NEW q \in Requests, RequestItems(q) PROVE ReadInv'
  <2>1. Batch[q] \in SUBSET Items
    BY BatchTypes
  <2>2. \A p \in Requests : request'[p] = "none" =>
          request[p] = "none" /\ Batch[p] \intersect Batch[q] = {}
    BY <1>3, DigestConstants DEF RequestItems, TypeOK
  <2> QED BY <1>3, <2>1, <2>2, ReadInsert DEF RequestItems
<1>4. ASSUME NEW q \in Requests, RequestJob(q) PROVE ReadInv'
  <2>1. \A p \in Requests : request'[p] = "none" => request[p] = "none"
    BY <1>4 DEF RequestJob, TypeOK
  <2> QED BY <1>4, <2>1, ReadSame DEF RequestJob, sideVars
<1>5. ASSUME NEW t \in Threads, Tick(t) PROVE ReadInv'
  <2>1. \A s \in Threads : PastRead(s)' => flush'[s] = flush[s]
    BY <1>5 DEF Tick, Begun, Idle, TypeOK
  <2> QED BY <1>5, <2>1, ReadSame DEF Tick
<1>6. ASSUME NEW t \in Threads, NEW q \in Requests, ClaimRequest(t, q) PROVE ReadInv'
  <2>1. \A p \in Requests : request'[p] = "none" => request[p] = "none"
    BY <1>6 DEF ClaimRequest, TypeOK
  <2>2. \A s \in Threads : PastRead(s)' => flush'[s] = flush[s]
    BY <1>6 DEF ClaimRequest, Begun, Idle, TypeOK
  <2> QED BY <1>6, <2>1, <2>2, ReadSame DEF ClaimRequest, sideVars
<1>7. ASSUME NEW t \in Threads, FlushStep(t) PROVE ReadInv'
  <2>1. CASE Read(t)
    <3>1. \A s \in Threads : s # t => flush'[s] = flush[s]
      BY <2>1 DEF Read, TypeOK
    <3>2. UNCHANGED <<born, request, mailed>>
      BY <2>1 DEF Read, sideVars
    <3>3. Found(t) \subseteq Queue(t[2]) \intersect born
      BY DEF Found, TypeOK
    <3>4. PastRead(t)' => flush'[t].read = Found(t)
      <4>1. CASE Found(t) = {}
        <5>1. flush'[t] = Done(flush[t])
          BY <2>1, <4>1 DEF TypeOK, Read
        <5> QED BY <5>1 DEF Done, Idle
      <4>2. CASE Found(t) # {}
        <5>1. flush[t] \in FlushStates
          BY DEF TypeOK
        <5>2. flush'[t] = [flush[t] EXCEPT !.read = Found(t), !.todo = Addressed(t),
                             !.pc = IF Addressed(t) = {} THEN "deleting" ELSE "sending"]
          BY <2>1, <4>2 DEF TypeOK, Read
        <5> QED BY <5>1, <5>2 DEF FlushStates
      <4> QED BY <4>1, <4>2
    <3>5. \A s \in Threads : Queue(s[2])' = Queue(s[2])
      BY DEF Queue
    <3> QED BY <3>1, <3>2, <3>3, <3>4, <3>5 DEF ReadInv
  <2>2. CASE Delete(t)
    <3>1. \A s \in Threads : PastRead(s)' => flush'[s] = flush[s]
      BY <2>2 DEF Delete, Done, Idle, TypeOK
    <3> QED BY <2>2, <3>1, ReadSame DEF Delete, sideVars
  <2>3. CASE CompleteRequest(t)
    <3>1. \A s \in Threads : PastRead(s)' => flush'[s] = flush[s]
      BY <2>3 DEF CompleteRequest, Idle, TypeOK
    <3>2. \A p \in Requests : request'[p] = "none" => request[p] = "none"
      BY <2>3 DEF CompleteRequest, SetCompleted, TypeOK
    <3> QED BY <2>3, <3>1, <3>2, ReadSame DEF CompleteRequest, sideVars
  <2>4. ASSUME NEW r \in flush[t].todo, Preview(t, r) \/ SendEmail(t, r) \/ SendSms(t, r)
        PROVE  ReadInv'
    <3>1. \A s \in Threads : PastRead(s)' => PastRead(s) /\ flush'[s].read = flush[s].read
      BY <2>4, HandledTypes DEF Preview, SendEmail, SendSms
    <3>2. \A i \in Items \ born : mailed'[i] = mailed[i]
      BY <2>4, ReadMailed DEF Preview, SendEmail, SendSms, sideVars
    <3> QED BY <2>4, <3>1, <3>2, ReadSame DEF Preview, SendEmail, SendSms
  <2> QED BY <1>7, <2>1, <2>2, <2>3, <2>4 DEF FlushStep
<1>8. ASSUME NEW t \in Threads, Failure(t) PROVE ReadInv'
  <2>i. flush' = [flush EXCEPT ![t] = Idle] =>
          \A s \in Threads : PastRead(s)' => flush'[s] = flush[s]
    BY DEF TypeOK, Idle
  <2>1. CASE TickFails(t)
    BY <2>1, ReadSame DEF TickFails, sideVars
  <2>2. CASE CommandFails(t)
    <3>1. \A p \in Requests : request'[p] = "none" => request[p] = "none"
      BY <2>2 DEF CommandFails, SetCompleted, TypeOK
    <3> QED BY <2>2, <2>i, <3>1, ReadSame DEF CommandFails
  <2>3. ASSUME NEW r \in flush[t].todo, SmsFails(t, r) PROVE ReadInv'
    <3>1. \A i \in Items \ born : mailed'[i] = mailed[i]
      BY <2>3, ReadMailed DEF SmsFails
    <3> QED BY <2>3, <2>i, <3>1, ReadSame DEF SmsFails
  <2>4. ASSUME NEW q \in Requests, ClaimReplyLost(t, q) PROVE ReadInv'
    <3>1. \A p \in Requests : request'[p] = "none" => request[p] = "none"
      BY <2>4 DEF ClaimReplyLost, TypeOK
    <3> QED BY <2>4, <3>1, ReadSame DEF ClaimReplyLost, sideVars
  <2> QED BY <1>8, <2>1, <2>2, <2>3, <2>4 DEF Failure
<1>9. ASSUME NEW w \in Workers, Crash(w) \/ Restart(w) PROVE ReadInv'
  <2>1. \A s \in Threads : PastRead(s)' => flush'[s] = flush[s]
    BY <1>9 DEF Crash, Restart, Idle
  <2> QED BY <1>9, <2>1, ReadSame DEF Crash, Restart, sideVars
<1>10. CASE Clock
  BY <1>10, ReadSame DEF Clock, NextMinute, TickDropped, sideVars
<1>11. ASSUME NEW q \in Requests, RequestExpires(q) PROVE ReadInv'
  <2>1. \A p \in Requests : request'[p] = "none" => request[p] = "none"
    BY <1>11 DEF RequestExpires, TypeOK
  <2> QED BY <1>11, <2>1, ReadSame DEF RequestExpires, sideVars
<1> QED BY <1>1, <1>2, <1>3, <1>4, <1>5, <1>6, <1>7, <1>8, <1>9, <1>10, <1>11 DEF Next, Progress

\* An item is mailed at most once by each flush thread of its queue, and once
\* more for each flush that was cut off between mailing and deleting.
THEOREM MailsLimited == Spec => []MailsBounded
<1>1. Init => ReadInv
  BY DEF Init, ReadInv, PastRead, Idle
<1>2. Init => MailInv
  <2> SUFFICES ASSUME Init, NEW i \in Items
               PROVE  mailed[i] + Cardinality(Owing(i)) <= cutOff + Cardinality(FlushersOf(i))
    BY DEF Init, MailInv
  <2>1. Owing(i) = {} /\ mailed[i] = 0
    BY DEF Init, Owing, Readers, PastRead, Idle
  <2> QED BY <2>1, FS_EmptySet, TypeInit, MailTypes
<1>3. TypeOK /\ ReadInv /\ MailInv => MailsBounded
  <2> SUFFICES ASSUME TypeOK, ReadInv, MailInv, NEW i \in Items
               PROVE  mailed[i] <= Cardinality(FlushersOf(i)) + cutOff
    BY DEF MailsBounded
  <2> QED BY MailRoom, MailTypes
<1> QED BY <1>1, <1>2, <1>3, ReadNext, MailNext, TypeCorrect, PTL DEF Spec
=============================================================================
