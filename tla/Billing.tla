-------------------------------- MODULE Billing --------------------------------
(***************************************************************************)
(* The store's events about one user (noctusoftWebhook) applied to the     *)
(* user's subscription row (applyBillingEntitlement).  The store delivers  *)
(* an event until it is answered with 2xx, may deliver it again, and keeps *)
(* no order; deliveries are handled concurrently, command by command.      *)
(*                                                                         *)
(* Events that change nothing, plan levels, dates and amounts are left     *)
(* out, and so are refunds, the writes of administrators and coupons, and  *)
(* the copy in users.subscription: its failures are swallowed, and only    *)
(* reports read it.                                                        *)
(***************************************************************************)
EXTENDS Naturals, FiniteSets

CONSTANTS
  Events,        \* event ids
  Kind,          \* [Events -> Kinds]
  StoreStatus,   \* [Events -> Statuses], what a paid or changed event reports
  Refs,          \* the store's subscriptions
  NoRef,         \* the event carries no subscription ref
  Ref,           \* [Events -> Refs \union {NoRef}]
  Charges,       \* the payments that were made
  Referenced,    \* those whose events carry a store payment id
  NoCharge,      \* the event carries no money
  ChargeOf,      \* [Events -> Charges \union {NoCharge}]
  NoRow,         \* the user has no subscription row
  MaxDeliveries, \* bound: [Events -> Nat], deliveries of an event
  MaxOverlap,    \* bound: deliveries handled at once
  MaxFaults      \* bound: failed commands and crashes

Kinds == {"paid", "changed", "resumed", "ended", "disputed", "failed", "paused", "orphan"}
Statuses == {"active", "trialing", "past_due", "paused", "cancelled"}
Granted == {"active", "trialing"}
Row == [status : Statuses, ref : Refs \union {NoRef}]

ASSUME BillingConstants ==
  /\ IsFiniteSet(Events)
  /\ Kind \in [Events -> Kinds]
  /\ StoreStatus \in [Events -> Statuses \ {"cancelled"}]
  /\ \A e \in Events : Kind[e] = "paid" => StoreStatus[e] \in Granted
  /\ NoRef \notin Refs /\ Ref \in [Events -> Refs \union {NoRef}]
  /\ Referenced \subseteq Charges /\ NoCharge \notin Charges
  /\ ChargeOf \in [Events -> Charges \union {NoCharge}]
  /\ \A e, f \in Events :    \* only a payment id ties two events to one charge
       ChargeOf[e] = ChargeOf[f] /\ ChargeOf[e] \in Charges \ Referenced => e = f
  /\ NoRow \notin Row
  /\ MaxDeliveries \in [Events -> Nat] /\ MaxOverlap \in Nat /\ MaxFaults \in Nat

Deliveries == UNION {{e} \X (1..MaxDeliveries[e]) : e \in Events}
EventOf(x) == x[1]

VARIABLES
  row,      \* the user's document of 'subscriptions' (unique userId), or NoRow
  payments, \* [Charges -> Nat], documents of 'payments'
  orphans,  \* events with documents in billing_orphans
  seen,     \* webhook_events: the ids recorded (unique)
  exec,     \* [Deliveries -> Exec], the handlers
  faults,
  acked,    \* history: events answered with 2xx
  applied,  \* history: events whose handler came to its end
  lost,     \* history: events whose record outlived, or whose answer
            \* preceded, a handler that came to nothing
  together, \* history: charges two handlers found unrecorded at once
  redone    \* history: charges a handler recorded before it threw

history == <<acked, applied, lost, together, redone>>
vars == <<row, payments, orphans, seen, exec, faults, history>>

(***************************************************************************)
(* pc: the command a handler is about to issue.  op: the function of       *)
(* applyBillingEntitlement it is in.  read: the row it found.  recorded:   *)
(* isPaymentRecorded.  charged: history, it has created a payment.         *)
(***************************************************************************)
Exec ==
  [pc : {"idle", "record", "payment", "find", "charge", "write",
         "report", "answer", "threw", "done"},
   op : {"activate", "sync", "revoke", "none"},
   read : Row \union {NoRow}, recorded : BOOLEAN, charged : BOOLEAN]

Idle == [pc |-> "idle", op |-> "none", read |-> NoRow,
         recorded |-> FALSE, charged |-> FALSE]

BillTypeOK ==
  /\ row \in Row \union {NoRow}
  /\ payments \in [Charges -> Nat]
  /\ orphans \in SUBSET Events
  /\ seen \in SUBSET Events
  /\ exec \in [Deliveries -> Exec]
  /\ faults \in Nat
  /\ acked \in SUBSET Events /\ applied \in SUBSET Events /\ lost \in SUBSET Events
  /\ together \in SUBSET Charges /\ redone \in SUBSET Charges

Init ==
  /\ row = NoRow
  /\ payments = [c \in Charges |-> 0]
  /\ orphans = {} /\ seen = {}
  /\ exec = [x \in Deliveries |-> Idle]
  /\ faults = 0
  /\ acked = {} /\ applied = {} /\ lost = {} /\ together = {} /\ redone = {}

-----------------------------------------------------------------------------
At(x, p) == exec[x].pc = p
Underway(x) == ~At(x, "idle") /\ ~At(x, "done")

\* The handlers that have recorded their event and not come to an end.
Holds(x) == Underway(x) /\ ~At(x, "record")

Becomes(x, e) == exec' = [exec EXCEPT ![x] = e] /\ UNCHANGED faults
Goes(x, p) == Becomes(x, [exec[x] EXCEPT !.pc = p])

\* The handler is through with its event, one way or another.
Ended == [Idle EXCEPT !.pc = "done"]

Fault == faults < MaxFaults /\ faults' = faults + 1

\* The command took effect; its answer arrives or is lost, and then it throws.
AfterEffect(x, e) ==
  \/ Becomes(x, e)
  \/ Fault /\ exec' = [exec EXCEPT ![x] = [e EXCEPT !.pc = "threw"]]

Deliver(x) ==
  /\ At(x, "idle")
  /\ x[2] > 1 => ~At(<<x[1], x[2] - 1>>, "idle")
  /\ Cardinality({y \in Deliveries : Underway(y)}) < MaxOverlap
  /\ Goes(x, "record")
  /\ UNCHANGED <<row, payments, orphans, seen, history>>

-----------------------------------------------------------------------------
(* handleWebhook: the id is recorded before the event is applied. *)

\* applyEvent up to its first write, the check of the buyer's account included:
\* what throws in there throws before anything has changed.
Begun(e) ==
  LET k == Kind[e]
  IN CASE k = "paid" -> [Idle EXCEPT !.op = "activate", !.pc = "payment"]
       [] k \in {"changed", "resumed"} -> [Idle EXCEPT !.op = "sync", !.pc = "find"]
       [] k = "orphan" -> [Idle EXCEPT !.pc = "report"]
       [] OTHER -> [Idle EXCEPT !.op = "revoke", !.pc = "find"]

Record(x) ==
  /\ At(x, "record")
  /\ EventOf(x) \notin seen
  /\ seen' = seen \union {EventOf(x)}
  /\ Becomes(x, Begun(EventOf(x)))
  /\ UNCHANGED <<row, payments, orphans, history>>

\* A duplicate: answered with 2xx whether or not the first one is through.
Dedupe(x) ==
  /\ At(x, "record")
  /\ EventOf(x) \in seen
  /\ acked' = acked \union {EventOf(x)}
  /\ Becomes(x, Ended)
  /\ UNCHANGED <<row, payments, orphans, seen, applied, lost, together, redone>>

\* recordIfNew throws outside the try: a record that was made stays.
RecordThrows(x) ==
  /\ At(x, "record")
  /\ Fault
  /\ \/ UNCHANGED <<seen, lost>>
     \/ /\ EventOf(x) \notin seen
        /\ seen' = seen \union {EventOf(x)}
        /\ lost' = lost \union {EventOf(x)}
  /\ exec' = [exec EXCEPT ![x] = Ended]
  /\ UNCHANGED <<row, payments, orphans, acked, applied, together, redone>>

\* A command throws before it takes effect.
Throw(x) ==
  /\ exec[x].pc \in {"payment", "find", "charge", "write", "report"}
  /\ Fault
  /\ exec' = [exec EXCEPT ![x].pc = "threw"]
  /\ UNCHANGED <<row, payments, orphans, seen, history>>

\* The catch: the id is forgotten, so that the store's retry is processed.  A
\* forget that fails is swallowed.
Catches(x) ==
  /\ At(x, "threw")
  /\ redone' = IF exec[x].charged THEN redone \union {ChargeOf[EventOf(x)]} ELSE redone
  /\ exec' = [exec EXCEPT ![x] = Ended]
  /\ UNCHANGED <<row, payments, orphans, acked, applied, together>>

\* Variant: the error is answered, the id stays on record.
ForgetSkipped(x) ==
  /\ Catches(x)
  /\ UNCHANGED <<seen, lost, faults>>

Forget(x) ==
  /\ Catches(x)
  /\ seen' = seen \ {EventOf(x)}
  /\ lost' = lost \union ({EventOf(x)} \intersect acked)
  /\ UNCHANGED faults

ForgetFails(x) ==
  /\ Catches(x)
  /\ Fault
  /\ seen' \in {seen, seen \ {EventOf(x)}}
  /\ lost' = lost \union {EventOf(x)}

Answer(x) ==
  /\ At(x, "answer")
  /\ acked' = acked \union {EventOf(x)}
  /\ applied' = applied \union {EventOf(x)}
  /\ Becomes(x, Ended)
  /\ UNCHANGED <<row, payments, orphans, seen, lost, together, redone>>

\* The process dies under the handler: no catch, no answer.
Crash(x) ==
  /\ Underway(x)
  /\ Fault
  /\ lost' = IF Holds(x) THEN lost \union {EventOf(x)} ELSE lost
  /\ exec' = [exec EXCEPT ![x] = Ended]
  /\ UNCHANGED <<row, payments, orphans, seen, acked, applied, together, redone>>

-----------------------------------------------------------------------------
(* activateOrRenewSubscription. *)

\* The activation after a sync that found nothing carries no money.
Charging(x) ==
  /\ ~exec[x].recorded
  /\ Kind[EventOf(x)] = "paid"
  /\ ChargeOf[EventOf(x)] # NoCharge

AboutToCharge(x) == exec[x].pc \in {"find", "charge"} /\ Charging(x)

\* The handlers of the same charge that have found it unrecorded.
Rivals(x) ==
  {y \in Deliveries \ {x} : ChargeOf[EventOf(y)] = ChargeOf[EventOf(x)] /\ AboutToCharge(y)}

\* Variant: the payment is not looked for.
FindPaymentSkipped(x) ==
  /\ At(x, "payment")
  /\ Goes(x, "find")
  /\ UNCHANGED <<row, payments, orphans, seen, history>>

FindPayment(x) ==
  LET c == ChargeOf[EventOf(x)]
      found == c \in Referenced /\ payments[c] > 0
  IN /\ At(x, "payment")
     /\ Becomes(x, [exec[x] EXCEPT !.pc = "find", !.recorded = found])
     /\ together' = IF c \in Referenced /\ ~found /\ Rivals(x) # {}
                    THEN together \union {c} ELSE together
     /\ UNCHANGED <<row, payments, orphans, seen, acked, applied, lost, redone>>

\* Variant: the check of revivals is missing.
RevivesNothing(x) == FALSE

\* "never revived by a late or replayed start event"
Revives(x) ==
  /\ row # NoRow
  /\ row.status = "cancelled"
  /\ Ref[EventOf(x)] # NoRef
  /\ row.ref = Ref[EventOf(x)]

FindToActivate(x) ==
  /\ At(x, "find") /\ exec[x].op = "activate"
  /\ Becomes(x, [exec[x] EXCEPT !.read = row,
                   !.pc = IF Revives(x) THEN "answer"
                          ELSE IF Charging(x) THEN "charge" ELSE "write"])
  /\ UNCHANGED <<row, payments, orphans, seen, history>>

\* Two handlers that both found nothing both record: storePaymentId has an
\* index, not a unique one.
CreatePayment(x) ==
  /\ At(x, "charge")
  /\ payments' = [payments EXCEPT ![ChargeOf[EventOf(x)]] = @ + 1]
  /\ AfterEffect(x, [exec[x] EXCEPT !.pc = "write", !.charged = TRUE])
  /\ UNCHANGED <<row, orphans, seen, history>>

-----------------------------------------------------------------------------
(* revokeOrMarkPastDue and syncStoreSubscriptionState. *)

NextStatus(e) ==
  CASE Kind[e] \in {"ended", "disputed"} -> "cancelled"
    [] Kind[e] = "failed" -> "past_due"
    [] Kind[e] = "paused" -> "paused"
    [] Kind[e] = "resumed" -> "active"
    [] OTHER -> StoreStatus[e]

\* payment_failed and paused pass no ref on.
RevokeRef(e) == IF NextStatus(e) = "cancelled" THEN Ref[e] ELSE NoRef

OtherRef(ref) == ref # NoRef /\ row.ref # NoRef /\ row.ref # ref

AfterWrite(e) == IF Kind[e] = "disputed" THEN "report" ELSE "answer"

\* Variant: a cancel ends whatever is there.
SparesNone(e) == FALSE

\* "A cancel for an older store subscription must not end a newer one."
SparesNewer(e) ==
  NextStatus(e) = "cancelled" /\ OtherRef(RevokeRef(e)) /\ row.status # "cancelled"

FindToRevoke(x) ==
  LET e == EventOf(x)
      next == IF row # NoRow
              THEN IF SparesNewer(e) THEN AfterWrite(e) ELSE "write"
              ELSE IF RevokeRef(e) # NoRef THEN "write" ELSE AfterWrite(e)
  IN /\ At(x, "find") /\ exec[x].op = "revoke"
     /\ Becomes(x, [exec[x] EXCEPT !.read = row, !.pc = next])
     /\ UNCHANGED <<row, payments, orphans, seen, history>>

\* Only the row of the same store subscription, and not once it is cancelled;
\* a changed event that finds none and says it is paid for activates it.
FindToSync(x) ==
  LET e == EventOf(x)
      synced == row # NoRow /\ ~OtherRef(Ref[e]) /\ row.status # "cancelled"
      next == CASE synced -> [exec[x] EXCEPT !.read = row, !.pc = "write"]
                [] ~synced /\ Kind[e] = "changed" /\ StoreStatus[e] \in Granted ->
                     [exec[x] EXCEPT !.op = "activate"]
                [] OTHER -> [exec[x] EXCEPT !.pc = "answer"]
  IN /\ At(x, "find") /\ exec[x].op = "sync"
     /\ Becomes(x, next)
     /\ UNCHANGED <<row, payments, orphans, seen, history>>

\* The row the handler writes: an update of the fields it names, or a new one.
Written(x) ==
  LET e == EventOf(x)
      renamed == exec[x].op = "activate" /\ Ref[e] # NoRef
  IN IF exec[x].read = NoRow
     THEN [status |-> NextStatus(e), ref |-> Ref[e]]
     ELSE [row EXCEPT !.status = NextStatus(e), !.ref = IF renamed THEN Ref[e] ELSE @]

Write(x) ==
  /\ At(x, "write")
  /\ exec[x].read = NoRow => row = NoRow
  /\ row' = Written(x)
  /\ AfterEffect(x, [exec[x] EXCEPT !.pc = AfterWrite(EventOf(x)), !.read = NoRow])
  /\ UNCHANGED <<payments, orphans, seen, history>>

\* Another handler has created the row: duplicate key.
CreateFails(x) ==
  /\ At(x, "write")
  /\ exec[x].read = NoRow /\ row # NoRow
  /\ Goes(x, "threw")
  /\ UNCHANGED <<row, payments, orphans, seen, history>>

Report(x) ==
  /\ At(x, "report")
  /\ orphans' = orphans \union {EventOf(x)}
  /\ AfterEffect(x, [exec[x] EXCEPT !.pc = "answer"])
  /\ UNCHANGED <<row, payments, seen, history>>

-----------------------------------------------------------------------------
Handle(x) ==
  \/ Record(x) \/ Dedupe(x) \/ RecordThrows(x)
  \/ FindPayment(x) \/ FindToActivate(x) \/ CreatePayment(x)
  \/ FindToRevoke(x) \/ FindToSync(x)
  \/ Write(x) \/ CreateFails(x) \/ Report(x)
  \/ Throw(x) \/ Forget(x) \/ ForgetFails(x) \/ Answer(x)

Next == \E x \in Deliveries : Deliver(x) \/ Handle(x) \/ Crash(x)

Spec == Init /\ [][Next]_vars

-----------------------------------------------------------------------------
(* Properties. *)

\* An event the store was told has arrived (and will not send again) has been
\* applied or is being applied, except where its handler died or could not
\* forget it, or where a retry was answered as a duplicate of a handler that
\* then threw.
AckedEventsAreApplied ==
  \A e \in acked \ lost :
    e \in applied \/ \E x \in Deliveries : EventOf(x) = e /\ Holds(x)

\* A payment with a store payment id is recorded twice only when two handlers
\* looked for it before either recorded it: retries, replays and a second event
\* about the same payment do no harm.  One without an id is recorded again only
\* when a handler threw after it had recorded it.
PaymentsRecordedOnce ==
  \A c \in Charges : payments[c] > 1 => c \in together \union redone
    /\ (c \in Referenced => c \in together)

\* The handler whose step this is writes from a row that is no longer there.
Stale(x) == At(x, "write") /\ exec[x].read # row

\* A cancelled subscription comes back only through a purchase under another
\* ref or none, through a failed payment or a pause, whose events name no
\* subscription, or through a handler that read the row before the cancel.
CancelledIsNotRevived ==
  [][row # NoRow /\ row.status = "cancelled" /\ row'.status # "cancelled" =>
       \E x \in Deliveries :
         /\ At(x, "write") /\ exec'[x] # exec[x]
         /\ \/ Stale(x)
            \/ Kind[EventOf(x)] \in {"failed", "paused"}
            \/ exec[x].op = "activate" /\ (Ref[EventOf(x)] = NoRef \/ row'.ref # row.ref)]_vars

\* A running subscription is ended only by a cancel or a lost dispute of its
\* own, by one that leaves open which, or by a handler that read the row before
\* this subscription was bought.
CancelSparesNewer ==
  [][row # NoRow /\ row.status # "cancelled" /\ row'.status = "cancelled" =>
       \E x \in Deliveries :
         /\ At(x, "write") /\ exec'[x] # exec[x]
         /\ Stale(x) \/ row.ref \in {NoRef, Ref[EventOf(x)]} \/ Ref[EventOf(x)] = NoRef]_vars
=============================================================================
