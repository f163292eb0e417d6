----------------------------- MODULE BillingProofs -----------------------------
(***************************************************************************)
(* Proofs about Billing, for any events, any number of deliveries and any  *)
(* interleaving of their handlers.                                         *)
(***************************************************************************)
EXTENDS Billing, TLAPS

-----------------------------------------------------------------------------
(* What a handler's position says about its event and the row it read. *)

\* h is the state of a handler of event e.
Fits(e, h) ==
  /\ h.op = "activate" => Kind[e] = "paid" \/ (Kind[e] = "changed" /\ StoreStatus[e] \in Granted)
  /\ h.op = "sync" => Kind[e] \in {"changed", "resumed"}
  /\ h.op = "revoke" => Kind[e] \in {"ended", "disputed", "failed", "paused"}
  /\ h.pc = "payment" => Kind[e] = "paid" /\ h.op = "activate"
  /\ h.pc = "charge" => ~h.recorded /\ Kind[e] = "paid" /\ ChargeOf[e] # NoCharge
  /\ h.pc \in {"charge", "write"} => h.op # "none"
  /\ h.charged => h.pc \in {"write", "report", "answer", "threw"} /\ ChargeOf[e] # NoCharge

\* What the handler about to write knows of the row it read.
ReadFits(e, h) ==
  h.pc \in {"charge", "write"} =>
    /\ h.op = "activate" /\ h.read # NoRow /\ h.read.status = "cancelled"
         => Ref[e] = NoRef \/ h.read.ref # Ref[e]
    /\ h.op = "sync" => h.read # NoRow /\ h.read.status # "cancelled"
    /\ h.op = "revoke" /\ h.read # NoRow /\ h.read.status # "cancelled"
         /\ NextStatus(e) = "cancelled"
         => h.read.ref \in {NoRef, Ref[e]} \/ Ref[e] = NoRef

Handlers == \A x \in Deliveries : Fits(EventOf(x), exec[x]) /\ ReadFits(EventOf(x), exec[x])

\* Rows are never deleted.
RowStays == \A x \in Deliveries : exec[x].read # NoRow => row # NoRow

Inv == BillTypeOK /\ Handlers /\ RowStays

LEMMA DeliveryEvents == \A x \in Deliveries : EventOf(x) \in Events
BY DEF Deliveries, EventOf

LEMMA NextStatuses == ASSUME NEW e \in Events PROVE NextStatus(e) \in Statuses
BY BillingConstants DEF NextStatus, Statuses, Kinds

LEMMA IdleFits == ASSUME NEW e \in Events
                  PROVE /\ Idle \in Exec /\ Fits(e, Idle) /\ ReadFits(e, Idle)
                        /\ Ended \in Exec /\ Fits(e, Ended) /\ ReadFits(e, Ended)
BY DEF Idle, Ended, Exec, Fits, ReadFits

LEMMA BegunFits == ASSUME NEW e \in Events
                   PROVE Begun(e) \in Exec /\ Fits(e, Begun(e)) /\ ReadFits(e, Begun(e))
<1>1. Kind[e] \in Kinds
  BY BillingConstants
<1> QED BY <1>1 DEF Begun, Idle, Exec, Fits, ReadFits, Kinds

\* A row that is written is a row, and what was read before is kept.
LEMMA WrittenType ==
  ASSUME Inv, NEW x \in Deliveries, At(x, "write"), exec[x].read = NoRow => row = NoRow
  PROVE Written(x) \in Row
<1>1. EventOf(x) \in Events /\ Ref[EventOf(x)] \in Refs \union {NoRef}
  BY DeliveryEvents, BillingConstants
<1>2. NextStatus(EventOf(x)) \in Statuses
  BY <1>1, NextStatuses
<1>3. exec[x].read # NoRow => row \in Row
  BY DEF Inv, RowStays, BillTypeOK
<1> QED BY <1>1, <1>2, <1>3 DEF Written, Row

-----------------------------------------------------------------------------
(* The next state of a handler, whatever it does. *)

Moves(x) ==
  \E h \in Exec :
    /\ Fits(EventOf(x), h) /\ ReadFits(EventOf(x), h)
    /\ h.read \in {exec[x].read, NoRow, row}
    /\ exec' = [exec EXCEPT ![x] = h]

LEMMA ThrewFits ==
  ASSUME NEW e \in Events, NEW h \in Exec, Fits(e, h)
  PROVE LET t == [h EXCEPT !.pc = "threw"]
        IN t \in Exec /\ Fits(e, t) /\ ReadFits(e, t)
BY DEF Exec, Fits, ReadFits

LEMMA AfterEffectMoves ==
  ASSUME NEW x \in Deliveries, NEW h \in Exec, Fits(EventOf(x), h), ReadFits(EventOf(x), h),
         h.read \in {exec[x].read, NoRow, row}, AfterEffect(x, h)
  PROVE Moves(x)
<1> DEFINE t == [h EXCEPT !.pc = "threw"]
<1>1. t \in Exec /\ Fits(EventOf(x), t) /\ ReadFits(EventOf(x), t)
  BY ThrewFits, DeliveryEvents
<1>2. t.read = h.read
  BY DEF Exec
<1>3. CASE Becomes(x, h)
  BY <1>3 DEF Becomes, Moves
<1>4. CASE exec' = [exec EXCEPT ![x] = t]
  BY <1>1, <1>2, <1>4 DEF Moves
<1> QED BY <1>3, <1>4 DEF AfterEffect

LEMMA HandlerMoves ==
  ASSUME Inv, NEW x \in Deliveries, Deliver(x) \/ Handle(x) \/ Crash(x)
  PROVE Moves(x)
<1> DEFINE e == EventOf(x)
           h0 == exec[x]
<1>1. h0 \in Exec /\ Fits(e, h0) /\ ReadFits(e, h0) /\ e \in Events /\ row \in Row \union {NoRow}
  BY DeliveryEvents DEF Inv, Handlers, BillTypeOK
<1>2. Ended \in Exec /\ Fits(e, Ended) /\ ReadFits(e, Ended) /\ Ended.read = NoRow
  BY <1>1, IdleFits DEF Ended, Idle
<1>3. ASSUME exec' = [exec EXCEPT ![x] = Ended] PROVE Moves(x)
  BY <1>2, <1>3 DEF Moves
<1>4. CASE Deliver(x)
  <2> DEFINE h == [h0 EXCEPT !.pc = "record"]
  <2>1. h \in Exec /\ Fits(e, h) /\ ReadFits(e, h) /\ h.read = h0.read
    BY <1>1, <1>4 DEF Exec, Fits, ReadFits, Deliver, At
  <2> QED BY <1>4, <2>1 DEF Deliver, Goes, Becomes, Moves
<1>5. CASE Record(x)
  <2>1. Begun(e) \in Exec /\ Fits(e, Begun(e)) /\ ReadFits(e, Begun(e))
    BY <1>1, BegunFits
  <2>2. Begun(e).read = NoRow
    BY DEF Begun, Idle
  <2> QED BY <1>5, <2>1, <2>2 DEF Record, Becomes, Moves
<1>6. CASE Dedupe(x) \/ RecordThrows(x) \/ Forget(x) \/ ForgetFails(x) \/ Answer(x) \/ Crash(x)
  BY <1>3, <1>6 DEF Dedupe, RecordThrows, Forget, ForgetFails, Catches, Answer, Crash, Becomes
<1>7. CASE FindPayment(x)
  <2> DEFINE f == ChargeOf[e] \in Referenced /\ payments[ChargeOf[e]] > 0
             h == [h0 EXCEPT !.pc = "find", !.recorded = f]
  <2>1. f \in BOOLEAN /\ exec' = [exec EXCEPT ![x] = h]
    BY <1>7 DEF FindPayment, Becomes
  <2> HIDE DEF f
  <2>2. h \in Exec /\ Fits(e, h) /\ ReadFits(e, h) /\ h.read = h0.read
    BY <1>1, <1>7, <2>1 DEF Exec, Fits, ReadFits, FindPayment, At
  <2> QED BY <2>1, <2>2 DEF Moves
<1>8. CASE FindToActivate(x)
  <2> DEFINE p == IF Revives(x) THEN "answer" ELSE IF Charging(x) THEN "charge" ELSE "write"
             h == [h0 EXCEPT !.read = row, !.pc = p]
  <2>1. exec' = [exec EXCEPT ![x] = h] /\ h0.op = "activate" /\ h0.pc = "find"
    BY <1>8 DEF FindToActivate, Becomes, At
  <2>2. h \in Exec
    BY <1>1 DEF Exec
  <2>3. Fits(e, h)
    BY <1>1, <2>1 DEF Exec, Fits, Charging
  <2>4. ReadFits(e, h)
    BY <1>1, <2>1 DEF Exec, ReadFits, Revives
  <2> QED BY <2>1, <2>2, <2>3, <2>4 DEF Moves, Exec
<1>9. CASE CreatePayment(x)
  <2> DEFINE h == [h0 EXCEPT !.pc = "write", !.charged = TRUE]
  <2>1. h \in Exec /\ Fits(e, h) /\ ReadFits(e, h) /\ h.read = h0.read
    BY <1>1, <1>9 DEF Exec, Fits, ReadFits, CreatePayment, At
  <2> QED BY <1>9, <2>1, AfterEffectMoves DEF CreatePayment
<1>10. CASE FindToRevoke(x)
  <2> DEFINE p == IF row # NoRow THEN IF SparesNewer(e) THEN AfterWrite(e) ELSE "write"
                  ELSE IF RevokeRef(e) # NoRef THEN "write" ELSE AfterWrite(e)
             h == [h0 EXCEPT !.read = row, !.pc = p]
  <2>1. exec' = [exec EXCEPT ![x] = h] /\ h0.op = "revoke" /\ h0.pc = "find"
    BY <1>10 DEF FindToRevoke, Becomes, At
  <2>2. p \in {"report", "answer", "write"}
    BY DEF AfterWrite
  <2>3. h \in Exec
    BY <1>1, <2>2 DEF Exec
  <2>4. Fits(e, h)
    BY <1>1, <2>1, <2>2 DEF Exec, Fits
  <2>5. ReadFits(e, h)
    <3>1. p = "write" /\ row # NoRow => ~SparesNewer(e)
      BY <2>2 DEF AfterWrite
    <3>2. ~SparesNewer(e) /\ row.status # "cancelled" /\ NextStatus(e) = "cancelled"
            => row.ref \in {NoRef, Ref[e]} \/ Ref[e] = NoRef
      BY DEF SparesNewer, OtherRef, RevokeRef
    <3>3. h.read = row /\ h.op = "revoke" /\ h.pc = p
      BY <1>1, <2>1 DEF Exec
    <3> HIDE DEF h, p
    <3> QED BY <2>2, <3>1, <3>2, <3>3 DEF ReadFits
  <2>6. h.read = row
    BY <1>1 DEF Exec
  <2> HIDE DEF h
  <2> QED BY <2>1, <2>3, <2>4, <2>5, <2>6 DEF Moves
<1>11. CASE FindToSync(x)
  <2>1. h0.op = "sync" /\ h0.pc = "find"
    BY <1>11 DEF FindToSync, At
  <2>2. CASE exec' = [exec EXCEPT ![x] = [h0 EXCEPT !.read = row, !.pc = "write"]]
             /\ row # NoRow /\ row.status # "cancelled"
    <3> DEFINE h == [h0 EXCEPT !.read = row, !.pc = "write"]
    <3>1. h \in Exec /\ Fits(e, h) /\ ReadFits(e, h) /\ h.read = row
      BY <1>1, <2>1, <2>2 DEF Exec, Fits, ReadFits
    <3> QED BY <2>2, <3>1 DEF Moves
  <2>3. CASE exec' = [exec EXCEPT ![x] = [h0 EXCEPT !.op = "activate"]]
             /\ Kind[e] = "changed" /\ StoreStatus[e] \in Granted
    <3> DEFINE h == [h0 EXCEPT !.op = "activate"]
    <3>1. h \in Exec /\ Fits(e, h) /\ ReadFits(e, h) /\ h.read = h0.read
      BY <1>1, <2>1, <2>3 DEF Exec, Fits, ReadFits
    <3> QED BY <2>3, <3>1 DEF Moves
  <2>4. CASE exec' = [exec EXCEPT ![x] = [h0 EXCEPT !.pc = "answer"]]
    <3> DEFINE h == [h0 EXCEPT !.pc = "answer"]
    <3>1. h \in Exec /\ Fits(e, h) /\ ReadFits(e, h) /\ h.read = h0.read
      BY <1>1, <2>1 DEF Exec, Fits, ReadFits
    <3> QED BY <2>4, <3>1 DEF Moves
  <2> QED BY <1>11, <2>2, <2>3, <2>4 DEF FindToSync, Becomes
<1>12. CASE Write(x)
  <2> DEFINE h == [h0 EXCEPT !.pc = AfterWrite(e), !.read = NoRow]
  <2>1. AfterWrite(e) \in {"report", "answer"}
    BY DEF AfterWrite
  <2>2. h \in Exec /\ Fits(e, h) /\ ReadFits(e, h) /\ h.read = NoRow
    BY <1>1, <1>12, <2>1 DEF Exec, Fits, ReadFits, Write, At
  <2> QED BY <1>12, <2>2, AfterEffectMoves DEF Write
<1>13. CASE CreateFails(x) \/ Throw(x)
  <2> DEFINE h == [h0 EXCEPT !.pc = "threw"]
  <2>1. h \in Exec /\ Fits(e, h) /\ ReadFits(e, h)
    BY <1>1, ThrewFits
  <2>2. h.read = h0.read
    BY <1>1 DEF Exec
  <2> QED BY <1>13, <2>1, <2>2 DEF CreateFails, Throw, Goes, Becomes, Moves
<1>14. CASE Report(x)
  <2> DEFINE h == [h0 EXCEPT !.pc = "answer"]
  <2>1. h \in Exec /\ Fits(e, h) /\ ReadFits(e, h) /\ h.read = h0.read
    BY <1>1, <1>14 DEF Exec, Fits, ReadFits, Report, At
  <2> QED BY <1>14, <2>1, AfterEffectMoves DEF Report
<1> QED BY <1>4, <1>5, <1>6, <1>7, <1>8, <1>9, <1>10, <1>11, <1>12, <1>13, <1>14 DEF Handle

-----------------------------------------------------------------------------
(* The inductive invariant. *)

LEMMA InitInv == Init => Inv
<1> SUFFICES ASSUME Init PROVE Inv
  OBVIOUS
<1>1. \A x \in Deliveries : Fits(EventOf(x), Idle) /\ ReadFits(EventOf(x), Idle) /\ Idle \in Exec
  BY DeliveryEvents, IdleFits
<1>2. exec \in [Deliveries -> Exec]
  <2>1. \A x \in Deliveries : Idle \in Exec
    BY <1>1
  <2> QED BY <2>1 DEF Init
<1>3. BillTypeOK
  BY <1>2 DEF Init, BillTypeOK
<1>4. Handlers
  BY <1>1 DEF Init, Handlers
<1>5. RowStays
  BY DEF Init, RowStays, Idle
<1> QED BY <1>3, <1>4, <1>5 DEF Inv

LEMMA MovesKeepHandlers ==
  ASSUME Inv, NEW x \in Deliveries, Moves(x), row # NoRow => row' # NoRow
  PROVE exec' \in [Deliveries -> Exec] /\ Handlers' /\ RowStays'
<1> PICK h \in Exec :
      /\ Fits(EventOf(x), h) /\ ReadFits(EventOf(x), h)
      /\ h.read \in {exec[x].read, NoRow, row}
      /\ exec' = [exec EXCEPT ![x] = h]
  BY DEF Moves
<1>1. exec \in [Deliveries -> Exec]
  BY DEF Inv, BillTypeOK
<1>2. \A y \in Deliveries : exec'[y] = IF y = x THEN h ELSE exec[y]
  BY <1>1
<1>3. exec' \in [Deliveries -> Exec]
  BY <1>1
<1>4. Handlers'
  BY <1>2 DEF Inv, Handlers, Fits, ReadFits, NextStatus
<1>5. RowStays'
  BY <1>2 DEF Inv, RowStays
<1> QED BY <1>3, <1>4, <1>5

LEMMA StepInv ==
  ASSUME Inv, NEW x \in Deliveries, Deliver(x) \/ Handle(x) \/ Crash(x)
  PROVE Inv'
<1> DEFINE e == EventOf(x)
<1>1. e \in Events /\ exec[x] \in Exec /\ Fits(e, exec[x])
  BY DeliveryEvents DEF Inv, BillTypeOK, Handlers
<1>2. row' \in Row \union {NoRow} /\ (row # NoRow => row' # NoRow)
  <2>1. CASE Write(x)
    <3>1. Written(x) \in Row
      BY <2>1, WrittenType DEF Write
    <3> QED BY <2>1, <3>1, BillingConstants DEF Write
  <2>2. CASE ~Write(x)
    <3>1. row' = row
      BY <2>2 DEF Deliver, Handle, Crash, Record, Dedupe, RecordThrows, FindPayment,
         FindToActivate, CreatePayment, FindToRevoke, FindToSync, CreateFails, Report,
         Throw, Forget, ForgetFails, Catches, Answer
    <3> QED BY <3>1 DEF Inv, BillTypeOK
  <2> QED BY <2>1, <2>2
<1>3. exec' \in [Deliveries -> Exec] /\ Handlers' /\ RowStays'
  BY <1>2, HandlerMoves, MovesKeepHandlers
<1>4. payments' \in [Charges -> Nat]
  <2>1. CASE CreatePayment(x)
    <3>1. ChargeOf[e] \in Charges
      BY <1>1, <2>1, BillingConstants DEF CreatePayment, At, Fits
    <3> QED BY <2>1, <3>1 DEF CreatePayment, Inv, BillTypeOK
  <2>2. CASE ~CreatePayment(x)
    <3>1. payments' = payments
      BY <2>2 DEF Deliver, Handle, Crash, Record, Dedupe, RecordThrows, FindPayment,
         FindToActivate, Write, FindToRevoke, FindToSync, CreateFails, Report,
         Throw, Forget, ForgetFails, Catches, Answer
    <3> QED BY <3>1 DEF Inv, BillTypeOK
  <2> QED BY <2>1, <2>2
<1>5. together' \in SUBSET Charges
  <2>1. together' = together \/ (together' = together \union {ChargeOf[e]} /\ ChargeOf[e] \in Referenced)
    BY DEF Deliver, Handle, Crash, Record, Dedupe, RecordThrows, FindPayment,
         FindToActivate, CreatePayment, Write, FindToRevoke, FindToSync, CreateFails, Report,
         Throw, Forget, ForgetFails, Catches, Answer, history
  <2> QED BY <2>1, BillingConstants DEF Inv, BillTypeOK
<1>6. orphans' \in SUBSET Events
  <2>1. orphans' \in {orphans, orphans \union {e}}
    BY DEF Deliver, Handle, Crash, Record, Dedupe, RecordThrows, FindPayment,
         FindToActivate, CreatePayment, Write, FindToRevoke, FindToSync, CreateFails, Report,
         Throw, Forget, ForgetFails, Catches, Answer
  <2> QED BY <1>1, <2>1 DEF Inv, BillTypeOK
<1>7. faults' \in Nat
  BY DEF Deliver, Handle, Crash, Record, Dedupe, RecordThrows, FindPayment,
         FindToActivate, CreatePayment, Write, FindToRevoke, FindToSync, CreateFails, Report,
         Throw, Forget, ForgetFails, Catches, Answer, Fault, Becomes, Goes, AfterEffect,
         Inv, BillTypeOK
<1>8. seen' \in SUBSET Events /\ acked' \in SUBSET Events
        /\ applied' \in SUBSET Events /\ lost' \in SUBSET Events
  BY <1>1 DEF Deliver, Handle, Crash, Record, Dedupe, RecordThrows, FindPayment,
         FindToActivate, CreatePayment, Write, FindToRevoke, FindToSync, CreateFails, Report,
         Throw, Forget, ForgetFails, Catches, Answer, history, Inv, BillTypeOK
<1>9. redone' \in SUBSET Charges
  <2>1. redone' = redone \/ (redone' = redone \union {ChargeOf[e]} /\ exec[x].charged)
    BY DEF Deliver, Handle, Crash, Record, Dedupe, RecordThrows, FindPayment,
         FindToActivate, CreatePayment, Write, FindToRevoke, FindToSync, CreateFails, Report,
         Throw, Forget, ForgetFails, Catches, Answer, history
  <2>2. exec[x].charged => ChargeOf[e] \in Charges
    BY <1>1, BillingConstants DEF Fits
  <2> QED BY <2>1, <2>2 DEF Inv, BillTypeOK
<1> QED BY <1>2, <1>3, <1>4, <1>5, <1>6, <1>7, <1>8, <1>9 DEF Inv, BillTypeOK

LEMMA NextInv == Inv /\ [Next]_vars => Inv'
<1> SUFFICES ASSUME Inv, [Next]_vars PROVE Inv'
  OBVIOUS
<1>1. CASE Next
  BY <1>1, StepInv DEF Next
<1>2. CASE UNCHANGED vars
  BY <1>2 DEF vars, history, Inv, BillTypeOK, Handlers, RowStays
<1> QED BY <1>1, <1>2

THEOREM InvHolds == Spec => []Inv
BY InitInv, NextInv, PTL DEF Spec

\* Rows, handlers and counts stay of their types, for any events.
THEOREM BillTypeCorrect == Spec => []BillTypeOK
<1>1. Inv => BillTypeOK
  BY DEF Inv
<1> QED BY <1>1, InvHolds, PTL

-----------------------------------------------------------------------------
(* What a write may do to the row. *)

\* Only Write changes the row, and the handler that writes moves on.
LEMMA RowWriters ==
  ASSUME Inv, Next, row' # row
  PROVE \E x \in Deliveries :
          /\ At(x, "write") /\ exec'[x] # exec[x]
          /\ row' = Written(x)
          /\ exec[x].read = NoRow => row = NoRow
<1>1. PICK x \in Deliveries : Deliver(x) \/ Handle(x) \/ Crash(x)
  BY DEF Next
<1>2. Write(x)
  BY <1>1 DEF Deliver, Handle, Crash, Record, Dedupe, RecordThrows, FindPayment,
     FindToActivate, CreatePayment, FindToRevoke, FindToSync, CreateFails, Report,
     Throw, Forget, ForgetFails, Catches, Answer
<1>3. exec'[x].pc \in {"report", "answer", "threw"} /\ exec[x].pc = "write"
  <2>1. exec \in [Deliveries -> Exec]
    BY DEF Inv, BillTypeOK
  <2> DEFINE h1 == [exec[x] EXCEPT !.pc = AfterWrite(EventOf(x)), !.read = NoRow]
             h2 == [h1 EXCEPT !.pc = "threw"]
  <2>2. \A h \in {h1, h2} : h.pc \in {"report", "answer", "threw"}
    BY <2>1 DEF Exec, AfterWrite
  <2>3. exec[x].pc = "write" /\ (exec' = [exec EXCEPT ![x] = h1] \/ exec' = [exec EXCEPT ![x] = h2])
    BY <1>2 DEF Write, At, AfterEffect, Becomes
  <2> HIDE DEF h1, h2
  <2> QED BY <2>1, <2>2, <2>3
<1> QED BY <1>2, <1>3 DEF Write

\* "never revived by a late or replayed start event", and how far that goes.
THEOREM CancelledStays == Spec => CancelledIsNotRevived
<1> DEFINE Guarded ==
      row # NoRow /\ row.status = "cancelled" /\ row'.status # "cancelled" =>
       \E x \in Deliveries :
         /\ At(x, "write") /\ exec'[x] # exec[x]
         /\ \/ Stale(x)
            \/ Kind[EventOf(x)] \in {"failed", "paused"}
            \/ exec[x].op = "activate" /\ (Ref[EventOf(x)] = NoRef \/ row'.ref # row.ref)
<1>1. Inv /\ [Next]_vars => [Guarded]_vars
  <2> SUFFICES ASSUME Inv, Next, row # NoRow, row.status = "cancelled",
                      row'.status # "cancelled"
               PROVE Guarded
    OBVIOUS
  <2>1. PICK x \in Deliveries :
          /\ At(x, "write") /\ exec'[x] # exec[x]
          /\ row' = Written(x)
          /\ exec[x].read = NoRow => row = NoRow
    BY RowWriters
  <2> DEFINE e == EventOf(x)
             h == exec[x]
  <2>2. e \in Events /\ h \in Exec /\ Fits(e, h) /\ ReadFits(e, h) /\ row \in Row
    BY DeliveryEvents DEF Inv, BillTypeOK, Handlers
  <2>3. h.op \in {"activate", "sync", "revoke"}
    BY <2>1, <2>2 DEF At, Fits, Exec
  <2>4. row'.status = NextStatus(e)
    BY <2>1, <2>2 DEF Written, Row
  <2>5. CASE h.read # row
    BY <2>1, <2>5 DEF Stale
  <2>6. CASE h.read = row /\ h.op = "activate"
    <3>1. Ref[e] = NoRef \/ row.ref # Ref[e]
      BY <2>1, <2>2, <2>6 DEF ReadFits, At
    <3>2. Ref[e] # NoRef => row'.ref = Ref[e]
      BY <2>1, <2>2, <2>6 DEF Written, Row
    <3> QED BY <2>1, <2>6, <3>1, <3>2
  <2>7. CASE h.read = row /\ h.op = "sync"
    BY <2>1, <2>2, <2>7 DEF ReadFits, At
  <2>8. CASE h.read = row /\ h.op = "revoke"
    <3>1. Kind[e] \in {"failed", "paused"}
      BY <2>2, <2>4, <2>8 DEF Fits, NextStatus
    <3> QED BY <2>1, <3>1
  <2> QED BY <2>3, <2>5, <2>6, <2>7, <2>8
<1> QED BY <1>1, InvHolds, PTL DEF Spec, CancelledIsNotRevived

\* "A cancel for an older store subscription must not end a newer one", and how
\* far that goes.
THEOREM CancelEndsItsOwn == Spec => CancelSparesNewer
<1> DEFINE Spared ==
      row # NoRow /\ row.status # "cancelled" /\ row'.status = "cancelled" =>
       \E x \in Deliveries :
         /\ At(x, "write") /\ exec'[x] # exec[x]
         /\ Stale(x) \/ row.ref \in {NoRef, Ref[EventOf(x)]} \/ Ref[EventOf(x)] = NoRef
<1>1. Inv /\ [Next]_vars => [Spared]_vars
  <2> SUFFICES ASSUME Inv, Next, row # NoRow, row.status # "cancelled",
                      row'.status = "cancelled"
               PROVE Spared
    OBVIOUS
  <2>1. PICK x \in Deliveries :
          /\ At(x, "write") /\ exec'[x] # exec[x]
          /\ row' = Written(x)
          /\ exec[x].read = NoRow => row = NoRow
    BY RowWriters
  <2> DEFINE e == EventOf(x)
             h == exec[x]
  <2>2. e \in Events /\ h \in Exec /\ Fits(e, h) /\ ReadFits(e, h) /\ row \in Row
    BY DeliveryEvents DEF Inv, BillTypeOK, Handlers
  <2>3. NextStatus(e) = "cancelled"
    BY <2>1, <2>2 DEF Written, Row
  <2>4. CASE h.read # row
    BY <2>1, <2>4 DEF Stale
  <2>5. CASE h.read = row
    <3>1. Kind[e] \in {"ended", "disputed"}
      BY <2>2, <2>3, BillingConstants DEF NextStatus, Kinds
    <3>2. h.op = "revoke"
      BY <2>1, <2>2, <3>1 DEF Fits, At, Exec
    <3>3. row.ref \in {NoRef, Ref[e]} \/ Ref[e] = NoRef
      BY <2>1, <2>2, <2>3, <2>5, <3>2 DEF ReadFits, At
    <3> QED BY <2>1, <3>3
  <2> QED BY <2>4, <2>5
<1> QED BY <1>1, InvHolds, PTL DEF Spec, CancelSparesNewer

-----------------------------------------------------------------------------
(* Recorded events and their handlers. *)

\* A handler past the record has its event on record, and is the only one.
Recorded ==
  /\ \A x \in Deliveries : Holds(x) => EventOf(x) \in seen
  /\ \A x, y \in Deliveries : Holds(x) /\ Holds(y) /\ EventOf(x) = EventOf(y) => x = y

\* What is on record, or was answered, is applied, in work or lost.
Accounted ==
  \A e \in (seen \union acked) \ lost :
    e \in applied \/ \E x \in Deliveries : EventOf(x) = e /\ Holds(x)

\* The steps in the middle of a handler: it keeps its event on record.
Middle(x) ==
  \/ FindPayment(x) \/ FindToActivate(x) \/ CreatePayment(x) \/ FindToRevoke(x)
  \/ FindToSync(x) \/ Write(x) \/ CreateFails(x) \/ Report(x) \/ Throw(x)

LEMMA MiddleHolds ==
  ASSUME Inv, NEW x \in Deliveries, Middle(x)
  PROVE /\ UNCHANGED <<seen, acked, applied, lost, redone>>
        /\ Holds(x) /\ exec' = [exec EXCEPT ![x] = exec'[x]]
        /\ exec'[x].pc \in {"find", "charge", "write", "report", "answer", "threw"}
<1>1. exec \in [Deliveries -> Exec]
  BY DEF Inv, BillTypeOK
<1>2. UNCHANGED <<seen, acked, applied, lost, redone>>
  BY DEF Middle, FindPayment, FindToActivate, CreatePayment, FindToRevoke, FindToSync,
     Write, CreateFails, Report, Throw, history
<1>3. Holds(x)
  BY DEF Middle, FindPayment, FindToActivate, CreatePayment, FindToRevoke, FindToSync,
     Write, CreateFails, Report, Throw, Holds, Underway, At
<1> DEFINE P == {"find", "charge", "write", "report", "answer", "threw"}
<1>0. ASSUME NEW h \in Exec, h.pc \in P, exec' = [exec EXCEPT ![x] = h]
      PROVE exec' = [exec EXCEPT ![x] = exec'[x]] /\ exec'[x].pc \in P
  BY <1>0, <1>1
<1>a. ASSUME NEW h \in Exec, h.pc \in P, AfterEffect(x, h)
      PROVE exec' = [exec EXCEPT ![x] = exec'[x]] /\ exec'[x].pc \in P
  <2>1. CASE Becomes(x, h)
    BY <1>a, <1>0, <2>1 DEF Becomes
  <2>2. CASE exec' = [exec EXCEPT ![x] = [h EXCEPT !.pc = "threw"]]
    <3>1. [h EXCEPT !.pc = "threw"] \in Exec /\ [h EXCEPT !.pc = "threw"].pc \in P
      BY DEF Exec
    <3> QED BY <1>0, <2>2, <3>1
  <2> QED BY <1>a, <2>1, <2>2 DEF AfterEffect
<1>b. exec[x] \in Exec
  BY <1>1
<1>4. CASE FindPayment(x) \/ FindToActivate(x) \/ FindToRevoke(x) \/ Write(x)
  <2>1. CASE FindPayment(x)
    BY <1>1, <1>2, <1>3, <1>b, <2>1 DEF FindPayment, Becomes, Exec
  <2>2. CASE FindToActivate(x) \/ FindToRevoke(x)
    <3>1. \E p \in {"answer", "charge", "write", "report"} :
            exec' = [exec EXCEPT ![x] = [exec[x] EXCEPT !.read = row, !.pc = p]]
      BY <2>2 DEF FindToActivate, FindToRevoke, Becomes, AfterWrite
    <3>2. row \in Row \union {NoRow}
      BY DEF Inv, BillTypeOK
    <3>3. \A p \in {"answer", "charge", "write", "report"} :
            [exec[x] EXCEPT !.read = row, !.pc = p] \in Exec
      BY <1>b, <3>2 DEF Exec
    <3> QED BY <1>1, <1>2, <1>3, <1>b, <3>1, <3>3 DEF Exec
  <2>3. CASE Write(x)
    <3> DEFINE h == [exec[x] EXCEPT !.pc = AfterWrite(EventOf(x)), !.read = NoRow]
    <3>1. h \in Exec /\ h.pc \in P
      BY <1>b DEF AfterWrite, Exec
    <3>2. AfterEffect(x, h)
      BY <2>3 DEF Write
    <3> HIDE DEF h
    <3> QED BY <1>2, <1>3, <1>a, <3>1, <3>2
  <2> QED BY <1>4, <2>1, <2>2, <2>3
<1>5. CASE FindToSync(x)
  <2>1. exec[x].pc = "find"
    BY <1>5 DEF FindToSync, At
  <2>2. \E h \in {[exec[x] EXCEPT !.read = row, !.pc = "write"],
                  [exec[x] EXCEPT !.op = "activate"], [exec[x] EXCEPT !.pc = "answer"]} :
          exec' = [exec EXCEPT ![x] = h]
    BY <1>5 DEF FindToSync, Becomes
  <2>3. [exec[x] EXCEPT !.op = "activate"] \in Exec /\ [exec[x] EXCEPT !.op = "activate"].pc = "find"
    BY <1>b, <2>1 DEF Exec
  <2>4. [exec[x] EXCEPT !.pc = "answer"] \in Exec /\ [exec[x] EXCEPT !.pc = "answer"].pc = "answer"
    BY <1>b DEF Exec
  <2>5. row \in Row \union {NoRow}
    BY DEF Inv, BillTypeOK
  <2>6. /\ [exec[x] EXCEPT !.read = row, !.pc = "write"] \in Exec
        /\ [exec[x] EXCEPT !.read = row, !.pc = "write"].pc = "write"
    BY <1>b, <2>5 DEF Exec
  <2>7. \A h \in {[exec[x] EXCEPT !.read = row, !.pc = "write"],
                  [exec[x] EXCEPT !.op = "activate"], [exec[x] EXCEPT !.pc = "answer"]} :
          h \in Exec /\ h.pc \in P
    BY <2>3, <2>4, <2>6
  <2>8. exec' = [exec EXCEPT ![x] = exec'[x]] /\ exec'[x].pc \in P
    BY <1>0, <2>2, <2>7
  <2> QED BY <1>2, <1>3, <2>8
<1>6. CASE CreatePayment(x) \/ CreateFails(x) \/ Report(x) \/ Throw(x)
  <2>1. CASE CreatePayment(x)
    <3> DEFINE h == [exec[x] EXCEPT !.pc = "write", !.charged = TRUE]
    <3>1. h \in Exec /\ h.pc \in P
      BY <1>b DEF Exec
    <3>2. AfterEffect(x, h)
      BY <2>1 DEF CreatePayment
    <3> HIDE DEF h
    <3> QED BY <1>2, <1>3, <1>a, <3>1, <3>2
  <2>2. CASE Report(x)
    <3> DEFINE h == [exec[x] EXCEPT !.pc = "answer"]
    <3>1. h \in Exec /\ h.pc \in P
      BY <1>b DEF Exec
    <3>2. AfterEffect(x, h)
      BY <2>2 DEF Report
    <3> HIDE DEF h
    <3> QED BY <1>2, <1>3, <1>a, <3>1, <3>2
  <2>3. CASE CreateFails(x) \/ Throw(x)
    BY <1>1, <1>2, <1>3, <1>b, <2>3 DEF CreateFails, Throw, Goes, Becomes, Exec
  <2> QED BY <1>6, <2>1, <2>2, <2>3
<1> QED BY <1>4, <1>5, <1>6 DEF Middle

\* The steps that start and end a handler, as they bear on the records.
LEMMA EndSteps ==
  ASSUME Inv, Recorded, NEW x \in Deliveries, Deliver(x) \/ Handle(x) \/ Crash(x), ~Middle(x)
  PROVE \/ /\ ~Holds(x) /\ exec' = [exec EXCEPT ![x] = exec'[x]]
           /\ exec'[x].pc \in {"record", "done"}
           /\ seen \subseteq seen' /\ seen' \subseteq seen \union lost'
           /\ acked' \subseteq acked \union seen
           /\ applied' = applied /\ lost \subseteq lost' /\ redone' = redone
        \/ Record(x)
        \/ /\ Holds(x) /\ exec' = [exec EXCEPT ![x] = Ended]
           /\ seen' \subseteq seen /\ seen \subseteq seen' \union {EventOf(x)}
           /\ acked \subseteq acked' /\ acked' \subseteq acked \union {EventOf(x)}
           /\ applied \subseteq applied' /\ lost \subseteq lost' /\ redone \subseteq redone'
           /\ EventOf(x) \in applied' \union lost' \/ EventOf(x) \notin seen' \union acked'
           /\ EventOf(x) \notin seen' /\ exec[x].charged => ChargeOf[EventOf(x)] \in redone'
<1>1. exec \in [Deliveries -> Exec]
  BY DEF Inv, BillTypeOK
<1>2. CASE Deliver(x)
  BY <1>1, <1>2 DEF Deliver, Goes, Becomes, Holds, Underway, At, Exec, history
<1>3. CASE Dedupe(x) \/ RecordThrows(x)
  BY <1>1, <1>3 DEF Dedupe, RecordThrows, Becomes, Holds, At, Ended, Idle
<1>4. CASE Forget(x) \/ ForgetFails(x)
  BY <1>1, <1>4 DEF Forget, ForgetFails, Catches, Holds, Underway, At
<1>5. CASE Answer(x)
  <2>1. Holds(x) /\ EventOf(x) \in seen
    BY <1>5 DEF Answer, Holds, Underway, At, Recorded
  <2> QED BY <1>5, <2>1 DEF Answer, Becomes
<1>6. CASE Crash(x)
  <2>1. CASE Holds(x)
    <3>1. EventOf(x) \in seen
      BY <2>1 DEF Recorded
    <3> QED BY <1>6, <2>1, <3>1 DEF Crash
  <2>2. CASE ~Holds(x)
    BY <1>1, <1>6, <2>2 DEF Crash, Ended, Idle
  <2> QED BY <2>1, <2>2
<1> QED BY <1>2, <1>3, <1>4, <1>5, <1>6 DEF Handle, Middle

LEMMA RecordHolds ==
  ASSUME Inv, NEW x \in Deliveries, Record(x)
  PROVE /\ ~Holds(x) /\ exec' = [exec EXCEPT ![x] = Begun(EventOf(x))]
        /\ Begun(EventOf(x)).pc \in {"payment", "find", "report"}
        /\ ~Begun(EventOf(x)).charged /\ ~Begun(EventOf(x)).recorded
        /\ EventOf(x) \notin seen /\ seen' = seen \union {EventOf(x)}
        /\ UNCHANGED <<acked, applied, lost, redone, together, payments>>
BY DEF Record, Holds, At, Becomes, Begun, Idle, history

LEMMA RecordsInit == Init => Recorded /\ Accounted
BY DEF Init, Recorded, Accounted, Holds, Underway, At, Idle

LEMMA RecordsStep ==
  ASSUME Inv, Recorded, Accounted, NEW x \in Deliveries, Deliver(x) \/ Handle(x) \/ Crash(x)
  PROVE Recorded' /\ Accounted'
<1> DEFINE H(y) == exec'[y].pc \notin {"idle", "done", "record"}
           e == EventOf(x)
<1>1. \A y \in Deliveries : (Holds(y))' <=> H(y)
  BY DEF Holds, Underway, At
<1>2. exec \in [Deliveries -> Exec]
  BY DEF Inv, BillTypeOK
<1>3. CASE Middle(x)
  <2>1. /\ UNCHANGED <<seen, acked, applied, lost>>
        /\ Holds(x) /\ H(x) /\ exec' = [exec EXCEPT ![x] = exec'[x]]
    BY <1>3, MiddleHolds
  <2>2. \A y \in Deliveries : H(y) <=> Holds(y)
    BY <1>2, <2>1 DEF Holds, Underway, At
  <2> HIDE DEF H
  <2> QED BY <1>1, <2>1, <2>2 DEF Recorded, Accounted
<1>4. CASE Record(x)
  <2>1. /\ ~Holds(x) /\ H(x) /\ e \notin seen /\ seen' = seen \union {e}
        /\ UNCHANGED <<acked, applied, lost>>
    BY <1>2, <1>4, RecordHolds
  <2>2. \A y \in Deliveries \ {x} : H(y) <=> Holds(y)
    BY <1>2, <1>4, RecordHolds DEF Holds, Underway, At
  <2> HIDE DEF H
  <2>3. \A y \in Deliveries : Holds(y) => EventOf(y) # e
    BY <2>1 DEF Recorded
  <2>4. Recorded'
    BY <1>1, <2>1, <2>2, <2>3 DEF Recorded
  <2>5. Accounted'
    BY <1>1, <2>1, <2>2 DEF Accounted
  <2> QED BY <2>4, <2>5
<1>5. CASE /\ ~Holds(x) /\ exec' = [exec EXCEPT ![x] = exec'[x]]
           /\ exec'[x].pc \in {"record", "done"}
           /\ seen \subseteq seen' /\ seen' \subseteq seen \union lost'
           /\ acked' \subseteq acked \union seen
           /\ applied' = applied /\ lost \subseteq lost'
  <2>1. \A y \in Deliveries : H(y) <=> Holds(y)
    BY <1>2, <1>5 DEF Holds, Underway, At
  <2> HIDE DEF H
  <2>2. Recorded'
    BY <1>1, <1>5, <2>1 DEF Recorded
  <2>3. Accounted'
    BY <1>1, <1>5, <2>1 DEF Accounted
  <2> QED BY <2>2, <2>3
<1>6. CASE /\ Holds(x) /\ exec' = [exec EXCEPT ![x] = Ended]
           /\ seen' \subseteq seen /\ seen \subseteq seen' \union {e}
           /\ acked \subseteq acked' /\ acked' \subseteq acked \union {e}
           /\ applied \subseteq applied' /\ lost \subseteq lost'
           /\ e \in applied' \union lost' \/ e \notin seen' \union acked'
  <2>1. ~H(x) /\ \A y \in Deliveries \ {x} : H(y) <=> Holds(y)
    BY <1>2, <1>6 DEF Holds, Underway, At, Ended, Idle
  <2> HIDE DEF H
  <2>2. \A y \in Deliveries \ {x} : Holds(y) => EventOf(y) # e
    BY <1>6 DEF Recorded
  <2>3. Recorded'
    BY <1>1, <1>6, <2>1, <2>2 DEF Recorded
  <2>4. ASSUME NEW f \in (seen' \union acked') \ lost'
        PROVE f \in applied' \/ \E y \in Deliveries : EventOf(y) = f /\ H(y)
    BY <1>6, <2>1, <2>4 DEF Accounted
  <2> QED BY <1>1, <2>3, <2>4 DEF Accounted
<1> QED BY <1>3, <1>4, <1>5, <1>6, EndSteps

\* What the store was told has arrived is applied, in work, or lost in one of
\* the named ways.
THEOREM AckedAreApplied == Spec => []AckedEventsAreApplied
<1> DEFINE I == Inv /\ Recorded /\ Accounted
<1>1. Init => I
  BY InitInv, RecordsInit
<1>2. I /\ [Next]_vars => I'
  <2> SUFFICES ASSUME I, [Next]_vars PROVE I'
    OBVIOUS
  <2>1. Inv'
    BY NextInv
  <2>2. CASE Next
    BY <2>1, <2>2, RecordsStep DEF Next
  <2>3. CASE UNCHANGED vars
    BY <2>1, <2>3 DEF vars, history, Recorded, Accounted, Holds, Underway, At
  <2> QED BY <2>2, <2>3
<1>3. I => AckedEventsAreApplied
  BY DEF Accounted, AckedEventsAreApplied
<1> QED BY <1>1, <1>2, <1>3, PTL DEF Spec

-----------------------------------------------------------------------------
(* Payments. *)

Once ==
  /\ \A c \in Charges : payments[c] > 0 => \E e \in Events : ChargeOf[e] = c
  /\ \A c \in Referenced \ together :
       /\ payments[c] <= 1
       /\ \A x \in Deliveries :
            AboutToCharge(x) /\ ChargeOf[EventOf(x)] = c => payments[c] = 0
       /\ \A x, y \in Deliveries :
            /\ AboutToCharge(x) /\ ChargeOf[EventOf(x)] = c
            /\ AboutToCharge(y) /\ ChargeOf[EventOf(y)] = c
            => x = y
  /\ \A e \in Events :
       ChargeOf[e] \in Charges \ (Referenced \union redone) /\ payments[ChargeOf[e]] > 0 =>
         /\ payments[ChargeOf[e]] = 1 /\ e \in seen
         /\ \A x \in Deliveries : EventOf(x) = e /\ Holds(x) => exec[x].charged

LEMMA InitOnce == Init => Once
BY BillingConstants DEF Init, Once, AboutToCharge, Idle

\* Steps that neither look for a payment nor record one.
LEMMA OtherSteps ==
  ASSUME Inv, NEW x \in Deliveries, Deliver(x) \/ Handle(x) \/ Crash(x),
         ~CreatePayment(x), ~FindPayment(x)
  PROVE /\ payments' = payments /\ together' = together /\ redone \subseteq redone'
        /\ \A y \in Deliveries : AboutToCharge(y)' => AboutToCharge(y)
        /\ Middle(x) => exec'[x].charged = exec[x].charged
<1>1. exec \in [Deliveries -> Exec] /\ Fits(EventOf(x), exec[x])
  BY DEF Inv, BillTypeOK, Handlers
<1>2. /\ payments' = payments /\ together' = together /\ redone \subseteq redone'
  BY DEF Deliver, Handle, Crash, Record, Dedupe, RecordThrows, FindToActivate, Write,
     FindToRevoke, FindToSync, CreateFails, Report, Throw, Forget, ForgetFails, Catches,
     Answer, history
<1>3. ASSUME NEW h \in Exec, exec' = [exec EXCEPT ![x] = h], h.charged = exec[x].charged,
             h.pc \in {"find", "charge"} => exec[x].pc = "find" /\ h.recorded = exec[x].recorded
      PROVE /\ \A y \in Deliveries : AboutToCharge(y)' => AboutToCharge(y)
            /\ exec'[x].charged = exec[x].charged
  BY <1>1, <1>3 DEF AboutToCharge, Charging
<1> DEFINE Kept == \A y \in Deliveries : AboutToCharge(y)' => AboutToCharge(y)
<1>4. CASE ~Middle(x) /\ ~Record(x)
  <2>1. \E h \in Exec : exec' = [exec EXCEPT ![x] = h] /\ h.pc \in {"record", "done"}
    <3>1. CASE Deliver(x)
      <4>1. [exec[x] EXCEPT !.pc = "record"] \in Exec
        BY <1>1 DEF Exec
      <4>2. exec' = [exec EXCEPT ![x] = [exec[x] EXCEPT !.pc = "record"]]
        BY <3>1 DEF Deliver, Goes, Becomes
      <4>3. [exec[x] EXCEPT !.pc = "record"].pc = "record"
        BY <1>1 DEF Exec
      <4> QED BY <4>1, <4>2, <4>3
    <3>2. CASE exec' = [exec EXCEPT ![x] = Ended]
      <4>1. Ended \in Exec /\ Ended.pc = "done"
        BY IdleFits, DeliveryEvents DEF Ended, Idle
      <4> QED BY <3>2, <4>1
    <3> QED BY <1>4, <3>1, <3>2 DEF Handle, Middle, Crash, Dedupe, RecordThrows, Forget,
          ForgetFails, Catches, Answer, Becomes
  <2>2. Kept
    BY <1>1, <2>1 DEF AboutToCharge, Charging
  <2> QED BY <1>2, <1>4, <2>2
<1>5. CASE Record(x)
  <2>1. exec' = [exec EXCEPT ![x] = Begun(EventOf(x))] /\ ~Middle(x)
    BY <1>5 DEF Record, Becomes, Middle, At, CreatePayment, FindPayment, FindToActivate,
       FindToRevoke, FindToSync, Write, CreateFails, Report, Throw
  <2>2. Begun(EventOf(x)).pc \in {"find", "charge"} => Kind[EventOf(x)] # "paid"
    BY DEF Begun, Idle
  <2>3. Kept
    BY <1>1, <2>1, <2>2 DEF AboutToCharge, Charging
  <2> QED BY <1>2, <2>1, <2>3
<1>6. CASE FindToActivate(x) \/ FindToRevoke(x) \/ FindToSync(x)
  <2>1. exec[x].pc = "find"
    BY <1>6 DEF FindToActivate, FindToRevoke, FindToSync, At
  <2>2. row \in Row \union {NoRow} /\ exec[x] \in Exec
    BY <1>1 DEF Inv, BillTypeOK
  <2>3. PICK p \in {"answer", "charge", "write", "report", "find"} :
          \/ exec' = [exec EXCEPT ![x] = [exec[x] EXCEPT !.read = row, !.pc = p]]
          \/ exec' = [exec EXCEPT ![x] = [exec[x] EXCEPT !.op = "activate"]]
          \/ exec' = [exec EXCEPT ![x] = [exec[x] EXCEPT !.pc = p]]
    BY <1>6 DEF FindToActivate, FindToRevoke, FindToSync, Becomes, AfterWrite
  <2>4. \E h \in Exec : /\ exec' = [exec EXCEPT ![x] = h]
                        /\ h.charged = exec[x].charged /\ h.recorded = exec[x].recorded
    <3> DEFINE h1 == [exec[x] EXCEPT !.read = row, !.pc = p]
               h2 == [exec[x] EXCEPT !.op = "activate"]
               h3 == [exec[x] EXCEPT !.pc = p]
    <3>1. \A h \in {h1, h2, h3} :
            h \in Exec /\ h.charged = exec[x].charged /\ h.recorded = exec[x].recorded
      BY <2>2 DEF Exec
    <3> HIDE DEF h1, h2, h3
    <3>2. exec' = [exec EXCEPT ![x] = h1] \/ exec' = [exec EXCEPT ![x] = h2]
            \/ exec' = [exec EXCEPT ![x] = h3]
      BY <2>3 DEF h1, h2, h3
    <3> QED BY <3>1, <3>2
  <2> QED BY <1>2, <1>3, <2>1, <2>4
<1>7. CASE Write(x) \/ CreateFails(x) \/ Report(x) \/ Throw(x)
  <2>1. exec[x] \in Exec
    BY <1>1
  <2>2. PICK p \in {"report", "answer", "threw"} :
          \/ exec' = [exec EXCEPT ![x] = [exec[x] EXCEPT !.pc = p]]
          \/ exec' = [exec EXCEPT ![x] = [exec[x] EXCEPT !.pc = p, !.read = NoRow]]
    <3>1. [[exec[x] EXCEPT !.pc = "answer"] EXCEPT !.pc = "threw"]
            = [exec[x] EXCEPT !.pc = "threw"]
      BY <2>1 DEF Exec
    <3>2. [[exec[x] EXCEPT !.pc = AfterWrite(EventOf(x)), !.read = NoRow] EXCEPT !.pc = "threw"]
            = [exec[x] EXCEPT !.pc = "threw", !.read = NoRow]
      BY <2>1 DEF Exec
    <3>3. AfterWrite(EventOf(x)) \in {"report", "answer"}
      BY DEF AfterWrite
    <3> QED BY <1>7, <3>1, <3>2, <3>3 DEF Write, CreateFails, Report, Throw, AfterEffect,
          Becomes, Goes
  <2>3. \E h \in Exec : /\ exec' = [exec EXCEPT ![x] = h] /\ h.charged = exec[x].charged
                        /\ h.pc \notin {"find", "charge"}
    <3> DEFINE h1 == [exec[x] EXCEPT !.pc = p]
               h2 == [exec[x] EXCEPT !.pc = p, !.read = NoRow]
    <3>1. \A h \in {h1, h2} :
            h \in Exec /\ h.charged = exec[x].charged /\ h.pc \notin {"find", "charge"}
      BY <2>1 DEF Exec
    <3> HIDE DEF h1, h2
    <3>2. exec' = [exec EXCEPT ![x] = h1] \/ exec' = [exec EXCEPT ![x] = h2]
      BY <2>2 DEF h1, h2
    <3> QED BY <3>1, <3>2
  <2> QED BY <1>2, <1>3, <2>3
<1> QED BY <1>4, <1>5, <1>6, <1>7 DEF Middle

LEMMA OnceStep ==
  ASSUME Inv, Recorded, Once, NEW x \in Deliveries, Deliver(x) \/ Handle(x) \/ Crash(x),
         Recorded'
  PROVE Once'
<1> DEFINE e == EventOf(x)
           c == ChargeOf[e]
<1>1. /\ exec \in [Deliveries -> Exec] /\ payments \in [Charges -> Nat]
      /\ e \in Events /\ c \in Charges \union {NoCharge}
      /\ Fits(e, exec[x])
  BY DeliveryEvents, BillingConstants DEF Inv, BillTypeOK, Handlers
<1>2. CASE FindPayment(x)
  <2> DEFINE found == c \in Referenced /\ payments[c] > 0
             h == [exec[x] EXCEPT !.pc = "find", !.recorded = found]
  <2>1. /\ exec' = [exec EXCEPT ![x] = h] /\ UNCHANGED <<payments, seen, redone>>
        /\ together' = IF c \in Referenced /\ ~found /\ Rivals(x) # {}
                       THEN together \union {c} ELSE together
        /\ exec[x].pc = "payment"
    BY <1>2 DEF FindPayment, Becomes, At
  <2>2. h.pc = "find" /\ h.recorded = found /\ h.charged = exec[x].charged
    BY <1>1 DEF Exec
  <2> HIDE DEF h, found
  <2>3. /\ \A y \in Deliveries \ {x} : AboutToCharge(y)' <=> AboutToCharge(y)
        /\ AboutToCharge(x)' => ~found
        /\ exec'[x].charged = exec[x].charged
    BY <1>1, <2>1, <2>2 DEF AboutToCharge, Charging
  <2>4. ASSUME NEW d \in Referenced \ together'
        PROVE /\ payments[d] <= 1
              /\ \A y \in Deliveries : AboutToCharge(y)' /\ ChargeOf[EventOf(y)] = d => payments[d] = 0
              /\ \A y, z \in Deliveries :
                   /\ AboutToCharge(y)' /\ ChargeOf[EventOf(y)] = d
                   /\ AboutToCharge(z)' /\ ChargeOf[EventOf(z)] = d
                   => y = z
    <3>1. d \notin together /\ d \in Charges
      BY <2>1, <2>4, BillingConstants
    <3>2. c = d /\ ~found => payments[d] = 0 /\ Rivals(x) = {}
      BY <1>1, <2>1, <2>4, <3>1 DEF found
    <3>3. c = d /\ ~found => \A y \in Deliveries \ {x} :
            ~(AboutToCharge(y) /\ ChargeOf[EventOf(y)] = d)
      BY <3>2 DEF Rivals
    <3> QED BY <2>3, <3>1, <3>2, <3>3 DEF Once
  <2>5. \A y \in Deliveries : /\ (Holds(y))' <=> Holds(y)
                              /\ exec'[y].charged = exec[y].charged
    BY <1>1, <2>1, <2>2 DEF Holds, Underway, At
  <2> QED BY <2>1, <2>4, <2>5 DEF Once
<1>3. CASE CreatePayment(x)
  <2>1. /\ exec[x].pc = "charge" /\ AboutToCharge(x) /\ c \in Charges /\ ~exec[x].charged
    BY <1>1, <1>3 DEF CreatePayment, At, Fits, AboutToCharge, Charging
  <2>2. payments' = [payments EXCEPT ![c] = @ + 1] /\ UNCHANGED <<seen, together, redone>>
    BY <1>3 DEF CreatePayment, history
  <2>3. \E h \in Exec : /\ exec' = [exec EXCEPT ![x] = h]
                        /\ h.pc \in {"write", "threw"} /\ h.charged
    <3> DEFINE h1 == [exec[x] EXCEPT !.pc = "write", !.charged = TRUE]
               h2 == [h1 EXCEPT !.pc = "threw"]
    <3>1. \A h \in {h1, h2} : h \in Exec /\ h.pc \in {"write", "threw"} /\ h.charged
      <4>1. exec[x] \in Exec
        BY <1>1
      <4>2. h1 \in Exec /\ h1.pc = "write" /\ h1.charged
        BY <4>1 DEF Exec
      <4> HIDE DEF h1
      <4>3. h2 \in Exec /\ h2.pc = "threw" /\ h2.charged
        BY <4>2 DEF Exec
      <4> QED BY <4>2, <4>3
    <3>2. exec' = [exec EXCEPT ![x] = h1] \/ exec' = [exec EXCEPT ![x] = h2]
      BY <1>3 DEF CreatePayment, AfterEffect, Becomes
    <3> HIDE DEF h1, h2
    <3> QED BY <3>1, <3>2
  <2>4. /\ ~AboutToCharge(x)' /\ exec'[x].charged
        /\ \A y \in Deliveries \ {x} : AboutToCharge(y)' <=> AboutToCharge(y)
        /\ \A y \in Deliveries \ {x} : exec'[y] = exec[y]
    BY <1>1, <2>3 DEF AboutToCharge, Charging
  <2>5. Holds(x) /\ e \in seen
    BY <2>1 DEF Holds, Underway, At, Recorded
  <2>6. \A d \in Charges : payments'[d] > 0 => \E f \in Events : ChargeOf[f] = d
    BY <1>1, <2>1, <2>2 DEF Once
  <2>7. ASSUME NEW d \in Referenced \ together
        PROVE /\ payments'[d] <= 1
              /\ \A y \in Deliveries : AboutToCharge(y)' /\ ChargeOf[EventOf(y)] = d => payments'[d] = 0
              /\ \A y, z \in Deliveries :
                   /\ AboutToCharge(y)' /\ ChargeOf[EventOf(y)] = d
                   /\ AboutToCharge(z)' /\ ChargeOf[EventOf(z)] = d
                   => y = z
    <3>1. d \in Charges
      BY BillingConstants
    <3>2. c = d => payments[d] = 0
      BY <2>1, <2>7 DEF Once
    <3>3. c = d => payments'[d] = 1
      BY <1>1, <2>1, <2>2, <3>2
    <3>4. c = d => \A y \in Deliveries \ {x} : ~(AboutToCharge(y) /\ ChargeOf[EventOf(y)] = d)
      BY <2>1, <2>7 DEF Once
    <3>5. c # d => payments'[d] = payments[d]
      BY <1>1, <2>1, <2>2, <3>1
    <3> QED BY <2>4, <2>7, <3>3, <3>4, <3>5 DEF Once
  <2>8. ASSUME NEW f \in Events, ChargeOf[f] \in Charges \ (Referenced \union redone),
               payments'[ChargeOf[f]] > 0
        PROVE /\ payments'[ChargeOf[f]] = 1 /\ f \in seen
              /\ \A y \in Deliveries : EventOf(y) = f /\ (Holds(y))' => exec'[y].charged
    <3>1. CASE ChargeOf[f] = c
      <4>1. f = e
        BY <1>1, <2>1, <2>8, <3>1, BillingConstants
      <4>2. payments[c] = 0
        BY <1>1, <2>1, <2>5, <2>8, <4>1 DEF Once
      <4>3. payments'[c] = 1
        BY <1>1, <2>1, <2>2, <4>2
      <4>4. \A y \in Deliveries \ {x} : EventOf(y) = e => ~Holds(y)
        BY <2>5 DEF Recorded
      <4>5. \A y \in Deliveries \ {x} : EventOf(y) = e => ~(Holds(y))'
        BY <2>4, <4>4 DEF Holds, Underway, At
      <4> QED BY <2>4, <2>5, <4>1, <4>3, <4>5
    <3>2. CASE ChargeOf[f] # c
      <4>1. payments'[ChargeOf[f]] = payments[ChargeOf[f]] /\ f # e
        BY <1>1, <2>1, <2>2, <2>8, <3>2
      <4>2. \A y \in Deliveries : EventOf(y) = f => ((Holds(y))' <=> Holds(y)) /\ exec'[y] = exec[y]
        BY <2>4, <4>1 DEF Holds, Underway, At
      <4> QED BY <2>8, <4>1, <4>2 DEF Once
    <3> QED BY <3>1, <3>2
  <2> QED BY <2>2, <2>6, <2>7, <2>8 DEF Once
<1>4. CASE ~FindPayment(x) /\ ~CreatePayment(x)
  <2>1. /\ payments' = payments /\ together' = together /\ redone \subseteq redone'
        /\ \A y \in Deliveries : AboutToCharge(y)' => AboutToCharge(y)
        /\ Middle(x) => exec'[x].charged = exec[x].charged
    BY <1>4, OtherSteps
  <2>2. ASSUME NEW f \in Events, ChargeOf[f] \in Charges \ (Referenced \union redone'),
               payments[ChargeOf[f]] > 0
        PROVE /\ payments[ChargeOf[f]] = 1 /\ f \in seen'
              /\ \A y \in Deliveries : EventOf(y) = f /\ (Holds(y))' => exec'[y].charged
    <3>1. /\ payments[ChargeOf[f]] = 1 /\ f \in seen
          /\ \A y \in Deliveries : EventOf(y) = f /\ Holds(y) => exec[y].charged
      BY <2>1, <2>2 DEF Once
    <3>2. CASE Middle(x)
      <4>1. /\ seen' = seen /\ Holds(x) /\ exec' = [exec EXCEPT ![x] = exec'[x]]
        BY <3>2, MiddleHolds
      <4>2. \A y \in Deliveries : (Holds(y))' => Holds(y) /\ exec'[y].charged = exec[y].charged
        BY <1>1, <2>1, <3>2, <4>1 DEF Holds, Underway, At
      <4> QED BY <3>1, <4>1, <4>2
    <3>3. CASE Record(x)
      <4>1. f # e /\ seen \subseteq seen'
        BY <3>1, <3>3, RecordHolds
      <4>2. \A y \in Deliveries \ {x} : exec'[y] = exec[y]
        BY <1>1, <3>3, RecordHolds
      <4> QED BY <3>1, <4>1, <4>2 DEF Holds, Underway, At
    <3>4. CASE ~Holds(x) /\ exec' = [exec EXCEPT ![x] = exec'[x]]
               /\ exec'[x].pc \in {"record", "done"} /\ seen \subseteq seen'
      <4>1. \A y \in Deliveries : (Holds(y))' => Holds(y) /\ exec'[y] = exec[y]
        BY <1>1, <3>4 DEF Holds, Underway, At
      <4> QED BY <3>1, <3>4, <4>1
    <3>5. CASE /\ Holds(x) /\ exec' = [exec EXCEPT ![x] = Ended]
               /\ seen \subseteq seen' \union {e}
               /\ e \notin seen' /\ exec[x].charged => ChargeOf[e] \in redone'
      <4>1. \A y \in Deliveries : (Holds(y))' => Holds(y) /\ exec'[y] = exec[y]
        BY <1>1, <3>5 DEF Holds, Underway, At, Ended, Idle
      <4>2. f \in seen'
        BY <2>2, <3>1, <3>5
      <4> QED BY <3>1, <4>1, <4>2
    <3> QED BY <3>2, <3>3, <3>4, <3>5, EndSteps
  <2>3. \A d \in Referenced \ together' :
          /\ payments'[d] <= 1
          /\ \A y \in Deliveries : AboutToCharge(y)' /\ ChargeOf[EventOf(y)] = d => payments'[d] = 0
          /\ \A y, z \in Deliveries :
               /\ AboutToCharge(y)' /\ ChargeOf[EventOf(y)] = d
               /\ AboutToCharge(z)' /\ ChargeOf[EventOf(z)] = d
               => y = z
    BY <2>1 DEF Once
  <2>4. \A d \in Charges : payments'[d] > 0 => \E f \in Events : ChargeOf[f] = d
    BY <2>1 DEF Once
  <2> QED BY <2>1, <2>2, <2>3, <2>4 DEF Once
<1> QED BY <1>2, <1>3, <1>4

\* Retries, replays and second events do not record a payment again.
THEOREM PaymentsOnce == Spec => []PaymentsRecordedOnce
<1> DEFINE I == Inv /\ Recorded /\ Accounted /\ Once
<1>1. Init => I
  BY InitInv, RecordsInit, InitOnce
<1>2. I /\ [Next]_vars => I'
  <2> SUFFICES ASSUME I, [Next]_vars PROVE I'
    OBVIOUS
  <2>1. Inv'
    BY NextInv
  <2>2. CASE Next
    <3>1. PICK x \in Deliveries : Deliver(x) \/ Handle(x) \/ Crash(x)
      BY <2>2 DEF Next
    <3>2. Recorded' /\ Accounted'
      BY <3>1, RecordsStep
    <3> QED BY <2>1, <3>1, <3>2, OnceStep
  <2>3. CASE UNCHANGED vars
    BY <2>1, <2>3 DEF vars, history, Recorded, Accounted, Once, Holds, Underway, At,
       AboutToCharge, Charging
  <2> QED BY <2>2, <2>3
<1>3. I => PaymentsRecordedOnce
  <2> SUFFICES ASSUME I, NEW c \in Charges, payments[c] > 1
               PROVE c \in together \union redone /\ (c \in Referenced => c \in together)
    BY DEF PaymentsRecordedOnce
  <2>1. payments[c] \in Nat
    BY DEF Inv, BillTypeOK
  <2>2. c \in Referenced => c \in together
    BY <2>1 DEF Once
  <2>3. c \notin Referenced => c \in redone
    BY <2>1 DEF Once
  <2> QED BY <2>2, <2>3
<1> QED BY <1>1, <1>2, <1>3, PTL DEF Spec
=============================================================================
