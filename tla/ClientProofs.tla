----------------------------- MODULE ClientProofs -----------------------------
(***************************************************************************)
(* Theorems about the components in which a person's device or mailbox     *)
(* takes part: ClientRun, PageDriver, EmailTransfer, ExtensionSync and     *)
(* SharedContacts, for any number of runs, calls, users, syncs and         *)
(* requests, and any number of failures.                                   *)
(*                                                                         *)
(* Each has its invariant.  ClientInv: the order in which operations of    *)
(* one run stand in the ledger's queue, and that only the first of the     *)
(* queue has read.  DriverInv: types, since CallsSettleThemselves is       *)
(* inductive with them.                                                    *)
(* TransferInv: what a confirmation's position says of the links followed; *)
(* AgreedInv: which accepted link each confirmation goes back to.          *)
(* ExtInv: every ledger that is stored or about to be is a cut of the      *)
(* entries ever made, newest first.  ContactInv: rights and addresses in   *)
(* the stored array and in those about to be written over it.              *)
(***************************************************************************)
EXTENDS ClientRun, PageDriver, ExtensionSync, EmailTransfer, SharedContacts,
        SequenceTheorems, WellFoundedInduction, TLAPS

-----------------------------------------------------------------------------
(* The least and the greatest of a set of numbers. *)

LEMMA LeastExists ==
  ASSUME NEW S \in SUBSET Nat, S # {}
  PROVE  \E x \in S : \A y \in S : x <= y
<1> DEFINE R == OpToRel(<, Nat)
<1>1. IsWellFoundedOn(R, Nat)
  BY NatLessThanWellFounded
<1>2. \E x \in S : \A y \in S : <<y, x>> \notin R
  <2> HIDE DEF R
  <2> QED BY <1>1, WFMin
<1>3. PICK x \in S : \A y \in S : <<y, x>> \notin R
  BY <1>2
<1>4. \A y \in S : ~ (y < x)
  BY <1>3 DEF OpToRel
<1>5. x \in Nat /\ \A y \in S : y \in Nat
  BY <1>3
<1>6. \A y \in S : x <= y
  BY <1>4, <1>5
<1> QED BY <1>3, <1>6

LEMMA MaxOfBounded ==
  ASSUME NEW S \in SUBSET Nat, S # {}, NEW m \in Nat, \A x \in S : x <= m
  PROVE  Max(S) \in S /\ \A x \in S : x <= Max(S)
<1> DEFINE U == {k \in Nat : \A x \in S : x <= k}
<1>1. U # {} /\ U \in SUBSET Nat
  OBVIOUS
<1>2. PICK k \in U : \A j \in U : k <= j
  BY <1>1, LeastExists
<1>3. k \in S
  <2> SUFFICES ASSUME k \notin S PROVE FALSE
    OBVIOUS
  <2>1. k \in Nat /\ \A x \in S : x <= k /\ x # k /\ x \in Nat
    BY <1>2
  <2>2. PICK y \in S : TRUE
    OBVIOUS
  <2>3. k > 0
    BY <2>1, <2>2
  <2>4. k - 1 \in Nat /\ \A x \in S : x <= k - 1
    BY <2>1, <2>3
  <2> QED BY <2>1, <2>4, <1>2
<1>4. \A x \in S : k >= x
  BY <1>2
<1> QED BY <1>3, <1>4 DEF Max

-----------------------------------------------------------------------------
(* ClientRun: the queue of the ledger.                                     *)
(*                                                                         *)
(* A pipeline starts its entry once and concludes it once, and waits for   *)
(* both, so the stage it is in says which of the two is still to come.     *)

Pending(k, r) ==
  \E i \in 1 .. Len(ledgerOps) : ledgerOps[i].kind = k /\ ledgerOps[i].run = r

Concluding == {"reporting", "thrown", "record"}
Concluded == Concluding \union {"settling", "done"}

\* An operation that has not come to the head has not read, and the one at the
\* head has read what is stored, or nothing for a fault.
QueueInv ==
  \A i \in 1 .. Len(ledgerOps) :
    LET op == ledgerOps[i] IN
    /\ i # 1 => op.seen = Unread
    /\ op.kind # "clear" => op.seen \in {Unread, {}, stored}
    /\ op.kind = "start" => op.awaited /\ at[op.run] = "starting"
    /\ op.kind = "complete" =>
         op.awaited /\ op.status # "in_progress" /\ at[op.run] \in Concluding
    /\ op.kind = "complete" /\ op.seen \notin {Unread, stored} => op.run \in missed

OnceInv ==
  \A i, j \in 1 .. Len(ledgerOps) :
    /\ ledgerOps[i].kind \in {"start", "complete"}
    /\ ledgerOps[j].kind = ledgerOps[i].kind
    /\ ledgerOps[j].run = ledgerOps[i].run
    => i = j

\* A run whose entry is still to come has left no trace.
FreshInv ==
  \A r \in Runs :
    at[r] \in {"idle", "opening"} \/ Pending("start", r)
      => phased[r] = 0 /\ r \notin cleared /\ \A e \in stored : e.run # r

EntryInv ==
  /\ \A e, f \in stored : e.run = f.run => e = f
  /\ \A e \in stored :
       IF e.status = "in_progress"
       THEN at[e.run] \in Concluded => Pending("complete", e.run) \/ e.run \in missed
       ELSE /\ at[e.run] \in Concluded \union {"killed"}
            /\ ~ Pending("complete", e.run)

NumbersBounded == \E m \in Nat : \A e \in stored : e.nth <= m

ClientInv ==
  ClientTypeOK /\ QueueInv /\ OnceInv /\ FreshInv /\ EntryInv /\ NumbersBounded
    /\ EntriesKept

(* The operations on the queue, by index. *)

LEMMA QueueIndices ==
  ASSUME ledgerOps \in Seq(LedgerOps)
  PROVE  /\ Len(ledgerOps) \in Nat
         /\ DOMAIN ledgerOps = 1 .. Len(ledgerOps)
         /\ \A i \in 1 .. Len(ledgerOps) : ledgerOps[i] \in LedgerOps
         /\ ledgerOps # <<>> =>
              1 \in 1 .. Len(ledgerOps) /\ Head(ledgerOps) = ledgerOps[1]
BY LenProperties, ElementOfSeq, EmptySeq

LEMMA OpAppended ==
  ASSUME ledgerOps \in Seq(LedgerOps), NEW op \in LedgerOps, Enqueue(op)
  PROVE  /\ ledgerOps' \in Seq(LedgerOps)
         /\ Len(ledgerOps') = Len(ledgerOps) + 1
         /\ ledgerOps'[Len(ledgerOps) + 1] = op
         /\ \A i \in 1 .. Len(ledgerOps) : ledgerOps'[i] = ledgerOps[i]
         /\ \A k, r : Pending(k, r)' <=> Pending(k, r) \/ (op.kind = k /\ op.run = r)
<1>1. /\ ledgerOps' \in Seq(LedgerOps)
      /\ Len(ledgerOps') = Len(ledgerOps) + 1
      /\ ledgerOps'[Len(ledgerOps) + 1] = op
      /\ \A i \in 1 .. Len(ledgerOps) : ledgerOps'[i] = ledgerOps[i]
  BY AppendProperties DEF Enqueue
<1>2. Len(ledgerOps) \in Nat
  BY QueueIndices
<1>3. \A k, r : Pending(k, r) => Pending(k, r)'
  BY <1>1, <1>2 DEF Pending
<1>4. \A k, r : op.kind = k /\ op.run = r => Pending(k, r)'
  BY <1>1, <1>2 DEF Pending
<1>5. ASSUME NEW k, NEW r, Pending(k, r)'
      PROVE  Pending(k, r) \/ (op.kind = k /\ op.run = r)
  <2>1. PICK i \in 1 .. Len(ledgerOps') : ledgerOps'[i].kind = k /\ ledgerOps'[i].run = r
    BY <1>5 DEF Pending
  <2>2. CASE i = Len(ledgerOps) + 1
    BY <2>1, <2>2, <1>1
  <2>3. CASE i # Len(ledgerOps) + 1
    BY <2>1, <2>3, <1>1, <1>2 DEF Pending
  <2> QED BY <2>2, <2>3
<1> QED BY <1>1, <1>3, <1>4, <1>5

LEMMA OpDone ==
  ASSUME ledgerOps \in Seq(LedgerOps), ledgerOps # <<>>,
         ledgerOps' = Tail(ledgerOps)
  PROVE  /\ ledgerOps' \in Seq(LedgerOps)
         /\ Len(ledgerOps') = Len(ledgerOps) - 1
         /\ \A i \in 1 .. Len(ledgerOps') :
              i + 1 \in 1 .. Len(ledgerOps) /\ ledgerOps'[i] = ledgerOps[i + 1]
         /\ \A k, r : Pending(k, r)' => Pending(k, r)
         /\ \A k, r : Pending(k, r) =>
              Pending(k, r)' \/ (ledgerOps[1].kind = k /\ ledgerOps[1].run = r)
<1>1. /\ ledgerOps' \in Seq(LedgerOps)
      /\ Len(ledgerOps') = Len(ledgerOps) - 1
      /\ \A i \in 1 .. Len(ledgerOps') : ledgerOps'[i] = ledgerOps[i + 1]
  BY HeadTailProperties
<1>2. Len(ledgerOps) \in Nat
  BY QueueIndices
<1>3. \A i \in 1 .. Len(ledgerOps') : i + 1 \in 1 .. Len(ledgerOps)
  BY <1>1, <1>2
<1>4. \A k, r : Pending(k, r)' => Pending(k, r)
  BY <1>1, <1>3 DEF Pending
<1>5. ASSUME NEW k, NEW r, Pending(k, r)
      PROVE  Pending(k, r)' \/ (ledgerOps[1].kind = k /\ ledgerOps[1].run = r)
  <2>1. PICK i \in 1 .. Len(ledgerOps) : ledgerOps[i].kind = k /\ ledgerOps[i].run = r
    BY <1>5 DEF Pending
  <2>2. CASE i # 1
    <3>1. i - 1 \in 1 .. Len(ledgerOps') /\ ledgerOps'[i - 1] = ledgerOps[i]
      BY <2>2, <1>1, <1>2
    <3> QED BY <2>1, <3>1 DEF Pending
  <2> QED BY <2>1, <2>2
<1> QED BY <1>1, <1>3, <1>4, <1>5

LEMMA OpRead ==
  ASSUME ledgerOps \in Seq(LedgerOps), ledgerOps # <<>>,
         ledgerOps[1].kind # "clear", NEW S \in SUBSET Entries,
         ledgerOps' = [ledgerOps EXCEPT ![1].seen = S]
  PROVE  /\ ledgerOps' \in Seq(LedgerOps)
         /\ Len(ledgerOps') = Len(ledgerOps)
         /\ ledgerOps'[1].seen = S
         /\ \A i \in 1 .. Len(ledgerOps) :
              /\ i # 1 => ledgerOps'[i] = ledgerOps[i]
              /\ ledgerOps'[i].kind = ledgerOps[i].kind
              /\ ledgerOps'[i].kind # "clear" =>
                   /\ ledgerOps'[i].run = ledgerOps[i].run
                   /\ ledgerOps'[i].status = ledgerOps[i].status
                   /\ ledgerOps'[i].awaited = ledgerOps[i].awaited
         /\ \A k, r : k # "clear" => (Pending(k, r)' <=> Pending(k, r))
<1> DEFINE op == [ledgerOps[1] EXCEPT !.seen = S]
<1>1. 1 \in 1 .. Len(ledgerOps) /\ ledgerOps[1] \in LedgerOps
  BY QueueIndices
<1>2. /\ op \in LedgerOps /\ op.seen = S
      /\ op.kind = ledgerOps[1].kind /\ op.run = ledgerOps[1].run
      /\ op.status = ledgerOps[1].status /\ op.awaited = ledgerOps[1].awaited
  BY <1>1 DEF LedgerOps
<1>3. ledgerOps' = [ledgerOps EXCEPT ![1] = op]
  OBVIOUS
<1> HIDE DEF op
<1>4. /\ ledgerOps' \in Seq(LedgerOps)
      /\ Len(ledgerOps') = Len(ledgerOps)
      /\ \A i \in 1 .. Len(ledgerOps) :
           ledgerOps'[i] = IF i = 1 THEN op ELSE ledgerOps[i]
  BY <1>1, <1>2, <1>3, ExceptSeq
<1>5. \A i \in 1 .. Len(ledgerOps) :
        /\ ledgerOps'[i].kind = ledgerOps[i].kind
        /\ ledgerOps'[i].run = ledgerOps[i].run
        /\ ledgerOps'[i].status = ledgerOps[i].status
        /\ ledgerOps'[i].awaited = ledgerOps[i].awaited
  BY <1>2, <1>4
<1>6. \A k, r : Pending(k, r)' <=> Pending(k, r)
  BY <1>4, <1>5 DEF Pending
<1> QED BY <1>1, <1>2, <1>4, <1>5, <1>6

(* What an operation writes. *)

\* An entry after an operation that found it.
AmendedEntry(e, op) ==
  IF e.run # op.run THEN e
  ELSE IF op.kind = "phase" THEN [e EXCEPT !.phases = @ + 1]
  ELSE [e EXCEPT !.status = op.status]

LEMMA AmendedEntryIs ==
  ASSUME NEW e \in Entries, NEW op, op.status \in Status
  PROVE  LET f == AmendedEntry(e, op) IN
         /\ f \in Entries /\ f.run = e.run /\ f.nth = e.nth
         /\ e.run # op.run => f = e
         /\ e.run = op.run /\ op.kind = "phase" =>
              f.status = e.status /\ f.phases = e.phases + 1
         /\ e.run = op.run /\ op.kind # "phase" =>
              f.status = op.status /\ f.phases = e.phases
BY DEF AmendedEntry, Entries

NewEntry(S, r) ==
  [run |-> r, status |-> "in_progress", phases |-> 0,
   nth |-> 1 + Max({0} \union {e.nth : e \in S})]

LEMMA NewEntryIs ==
  ASSUME NEW S \in SUBSET Entries, NEW r \in Runs,
         NEW m \in Nat, \A e \in S : e.nth <= m
  PROVE  /\ NewEntry(S, r) \in Entries
         /\ NewEntry(S, r).nth <= m + 1
<1> DEFINE N == {0} \union {e.nth : e \in S}
<1>1. N \in SUBSET Nat /\ N # {} /\ \A x \in N : x <= m
  BY DEF Entries
<1>2. Max(N) \in N /\ Max(N) \in Nat /\ Max(N) <= m
  <2> HIDE DEF N
  <2>1. Max(N) \in N
    BY <1>1, MaxOfBounded
  <2> QED BY <2>1, <1>1
<1>3. NewEntry(S, r).nth = 1 + Max(N)
  BY DEF NewEntry
<1> HIDE DEF N
<1>4. NewEntry(S, r).nth \in Nat /\ NewEntry(S, r).nth <= m + 1
  BY <1>2, <1>3
<1> QED BY <1>4 DEF NewEntry, Entries, Status

LEMMA ResultIs ==
  ASSUME NEW S, NEW op, op.kind \in {"start", "phase", "complete"}
  PROVE  /\ op.kind = "start" =>
              Result(S, op) \subseteq S \union {NewEntry(S, op.run)}
         /\ op.kind # "start" /\ op.run \in RunsIn(S) =>
              Result(S, op) = {AmendedEntry(e, op) : e \in S}
         /\ op.kind # "start" /\ op.run \notin RunsIn(S) => Result(S, op) = stored
<1>1. Started(S, op.run) \subseteq S \union {NewEntry(S, op.run)}
  BY DEF Started, Newest, NewEntry
<1>2. Amended(S, op) = {AmendedEntry(e, op) : e \in S}
  BY DEF Amended, AmendedEntry
<1> QED BY <1>1, <1>2 DEF Result

LEMMA ResultTypes ==
  ASSUME stored \in SUBSET Entries, NEW S \in {{}, stored},
         NumbersBounded, NEW op \in LedgerOps, op.kind # "clear"
  PROVE  /\ Result(S, op) \in SUBSET Entries
         /\ \E m \in Nat : \A e \in Result(S, op) : e.nth <= m
<1>1. S \in SUBSET Entries
  OBVIOUS
<1>2. op.kind \in {"start", "phase", "complete"} /\ op.run \in Runs /\ op.status \in Status
  BY DEF LedgerOps
<1>3. PICK m \in Nat : \A e \in stored : e.nth <= m
  BY DEF NumbersBounded
<1>4. \A e \in stored : e.nth \in Nat
  BY DEF Entries
<1>5. CASE op.kind = "start"
  <2>1. NewEntry(S, op.run) \in Entries /\ NewEntry(S, op.run).nth <= m + 1
    BY <1>1, <1>2, <1>3, NewEntryIs
  <2>2. Result(S, op) \subseteq S \union {NewEntry(S, op.run)}
    BY <1>2, <1>5, ResultIs
  <2>3. \A e \in Result(S, op) : e \in Entries /\ e.nth <= m + 1
    BY <2>1, <2>2, <1>1, <1>3, <1>4
  <2> QED BY <2>3
<1>6. CASE op.kind # "start" /\ op.run \in RunsIn(S)
  <2>1. Result(S, op) = {AmendedEntry(e, op) : e \in S}
    BY <1>2, <1>6, ResultIs
  <2>2. \A e \in S : AmendedEntry(e, op) \in Entries /\ AmendedEntry(e, op).nth <= m
    BY <1>1, <1>2, <1>3, AmendedEntryIs
  <2> QED BY <2>1, <2>2
<1>7. CASE op.kind # "start" /\ op.run \notin RunsIn(S)
  BY <1>2, <1>3, <1>7, ResultIs
<1> QED BY <1>5, <1>6, <1>7

-----------------------------------------------------------------------------
(* ClientRun: the steps.  A step of a pipeline moves one run and may call  *)
(* one operation.                                                          *)

\* Run r moves to stage s and calls the operations in called.
Steps(r, s, called) ==
  /\ at' = [at EXCEPT ![r] = s]
  /\ IF called = {} THEN ledgerOps' = ledgerOps
     ELSE \E op \in called : called = {op} /\ Enqueue(op)
  /\ \A op \in called :
       /\ op.run = r /\ op.seen = Unread /\ op.kind # "clear"
       /\ op.kind = "start" => op.awaited /\ at[r] = "opening"
       /\ op.kind = "complete" =>
            /\ op.awaited /\ op.status # "in_progress"
            /\ s \in Concluding /\ at[r] \notin Concluded
  /\ at[r] # "killed" /\ s # "idle"
  /\ s = "opening" => at[r] = "idle"
  /\ s = "starting" <=> at[r] = "opening"
  /\ at[r] = "opening" => \E op \in called : op.kind = "start"
  /\ s \in Concluded /\ at[r] \notin Concluded => \E op \in called : op.kind = "complete"
  /\ at[r] \in Concluded => s \in Concluded

PipelineEffect(r) ==
  /\ warned' \in [Runs -> Nat]
  /\ UNCHANGED <<entryVars, faults, userVars>>
  /\ ~ Pending("start", r) /\ ~ Pending("complete", r)
  /\ \E s \in Stages : \E called \in SUBSET LedgerOps : Steps(r, s, called)

LEMMA StagesFollow ==
  \A a \in DOMAIN Follows :
    /\ a \in Stages \ {"idle", "opening", "killed"}
    /\ Follows[a] \in Stages \ {"idle", "opening", "starting"}
    /\ a # "upload" => (Follows[a] \in Concluded <=> a \in Concluded)
<1>1. DOMAIN Follows =
        {"starting", "extract", "narrow", "transform", "assets", "assetsFailed", "join",
         "validate", "rows", "upload", "record", "settling"}
  BY DEF Follows
<1>2. /\ Follows["starting"] = "extract" /\ Follows["extract"] = "narrow"
      /\ Follows["narrow"] = "transform" /\ Follows["transform"] = "assets"
      /\ Follows["assets"] = "join" /\ Follows["assetsFailed"] = "join"
      /\ Follows["join"] = "validate" /\ Follows["validate"] = "rows"
      /\ Follows["rows"] = "upload" /\ Follows["upload"] = "record"
      /\ Follows["record"] = "settling" /\ Follows["settling"] = "done"
  BY DEF Follows
<1> QED BY <1>1, <1>2 DEF Stages, Ended, Concluded, Concluding

LEMMA NotWaiting ==
  ASSUME ClientInv, NEW r, ~ Waits(r)
  PROVE  ~ Pending("start", r) /\ ~ Pending("complete", r)
<1>1. \A i \in 1 .. Len(ledgerOps) :
        ledgerOps[i].kind \in {"start", "complete"} => ledgerOps[i].awaited
  BY DEF ClientInv, QueueInv
<1>2. DOMAIN ledgerOps = 1 .. Len(ledgerOps)
  BY QueueIndices DEF ClientInv, ClientTypeOK
<1> QED BY <1>1, <1>2 DEF Waits, Pending

LEMMA GoesIs ==
  ASSUME ClientInv, NEW r \in Runs, NEW s \in Stages \ {"idle", "opening", "starting"},
         Goes(r, s), at[r] \notin {"idle", "opening", "killed"},
         s \in Concluded <=> at[r] \in Concluded
  PROVE  PipelineEffect(r)
<1> DEFINE phase == Op("phase", r, "in_progress", TRUE)
<1>1. /\ phase \in LedgerOps /\ phase.kind = "phase" /\ phase.run = r
      /\ phase.seen = Unread
  BY DEF Op, LedgerOps, Status
<1>2. /\ UNCHANGED <<entryVars, faults, userVars>> /\ warned' \in [Runs -> Nat]
      /\ ~ Pending("start", r) /\ ~ Pending("complete", r)
  BY NotWaiting DEF Goes, ClientInv, ClientTypeOK
<1>3. at' = [at EXCEPT ![r] = s] /\ (Enqueue(phase) \/ ledgerOps' = ledgerOps)
  BY DEF Goes, Enter
<1> HIDE DEF phase
<1>4. Steps(r, s, {phase}) \/ Steps(r, s, {})
  BY <1>1, <1>3 DEF Steps
<1> QED BY <1>1, <1>2, <1>4 DEF PipelineEffect

LEMMA RecordsIs ==
  ASSUME ClientInv, NEW r \in Runs, NEW s \in Concluding,
         NEW o \in {"success", "failed"}, Records(r, s, o),
         at[r] \notin Concluded \union {"idle", "opening", "killed"}
  PROVE  PipelineEffect(r)
<1> DEFINE complete == Op("complete", r, o, TRUE)
<1>1. /\ complete \in LedgerOps /\ complete.kind = "complete" /\ complete.run = r
      /\ complete.seen = Unread /\ complete.awaited /\ complete.status # "in_progress"
  BY DEF Op, LedgerOps, Status
<1>2. /\ UNCHANGED <<entryVars, faults, userVars>> /\ warned' \in [Runs -> Nat]
      /\ ~ Pending("start", r) /\ ~ Pending("complete", r)
  BY NotWaiting DEF Records, ClientInv, ClientTypeOK
<1>3. at' = [at EXCEPT ![r] = s] /\ Enqueue(complete)
  BY DEF Records
<1>4. s \in Stages \ {"idle", "opening", "starting"}
  BY DEF Concluding, Stages, Ended, Follows
<1> HIDE DEF complete
<1>5. Steps(r, s, {complete})
  BY <1>1, <1>3, <1>4 DEF Steps
<1> QED BY <1>1, <1>2, <1>4, <1>5 DEF PipelineEffect

LEMMA PipelineSteps ==
  ASSUME ClientInv, NEW r \in Runs, Pipeline(r)
  PROVE  PipelineEffect(r)
<1>1. ClientTypeOK
  BY DEF ClientInv
<1>2. \A s \in {"idle", "opening"} : at[r] = s =>
        ~ Pending("start", r) /\ ~ Pending("complete", r)
  BY DEF ClientInv, QueueInv, Pending, Concluding
<1>3. CASE Open(r)
  <2>1. /\ at[r] = "idle" /\ at' = [at EXCEPT ![r] = "opening"] /\ ledgerOps' = ledgerOps
        /\ UNCHANGED <<warned, entryVars, faults, userVars>>
    BY <1>3 DEF Open, Enter, Emitting
  <2>2. Steps(r, "opening", {})
    BY <2>1 DEF Steps, Concluded, Concluding
  <2> QED BY <1>1, <1>2, <2>1, <2>2 DEF PipelineEffect, Stages, ClientTypeOK
<1>4. CASE Start(r)
  <2> DEFINE start == Op("start", r, "in_progress", TRUE)
  <2>1. /\ at[r] = "opening" /\ at' = [at EXCEPT ![r] = "starting"] /\ Enqueue(start)
        /\ UNCHANGED <<warned, entryVars, faults, userVars>>
    BY <1>4 DEF Start
  <2>2. /\ start \in LedgerOps /\ start.kind = "start" /\ start.run = r
        /\ start.seen = Unread /\ start.awaited
    BY DEF Op, LedgerOps, Status
  <2> HIDE DEF start
  <2>3. Steps(r, "starting", {start})
    BY <2>1, <2>2 DEF Steps, Concluded, Concluding
  <2> QED BY <1>1, <1>2, <2>1, <2>2, <2>3 DEF PipelineEffect, Stages, Follows, ClientTypeOK
<1>5. CASE Unresolved(r)
  BY <1>5, GoesIs DEF Unresolved, Stages, Ended, Concluded, Concluding
<1>6. CASE Proceed(r)
  <2>1. at[r] \in DOMAIN Follows /\ at[r] # "upload" /\ Goes(r, Follows[at[r]])
    BY <1>6 DEF Proceed
  <2> QED BY <2>1, StagesFollow, GoesIs
<1>7. CASE AssetsFail(r)
  BY <1>7, GoesIs DEF AssetsFail, Stages, Follows, Concluded, Concluding
<1>8. CASE Warn(r)
  <2> DEFINE phase == Op("phase", r, "in_progress", FALSE)
  <2>1. /\ at[r] = "join" /\ at' = at /\ Enqueue(phase)
        /\ warned' = [warned EXCEPT ![r] = @ + 1] /\ ~ Waits(r)
        /\ UNCHANGED <<entryVars, faults, userVars>>
    BY <1>8 DEF Warn
  <2>2. phase \in LedgerOps /\ phase.kind = "phase" /\ phase.run = r /\ phase.seen = Unread
    BY DEF Op, LedgerOps, Status
  <2>3. at' = [at EXCEPT ![r] = "join"] /\ warned' \in [Runs -> Nat]
    BY <1>1, <2>1 DEF ClientTypeOK
  <2> HIDE DEF phase
  <2>4. Steps(r, "join", {phase})
    BY <2>1, <2>2, <2>3 DEF Steps, Concluded, Concluding
  <2> QED BY <2>1, <2>2, <2>3, <2>4, NotWaiting DEF PipelineEffect, Stages, Follows
<1>9. CASE Fail(r)
  <2>1. /\ at[r] \in Throwing
        /\ Records(r, "reporting", "failed") \/ Records(r, "thrown", "failed")
    BY <1>9 DEF Fail
  <2> QED BY <2>1, RecordsIs DEF Throwing, Concluded, Concluding
<1>10. CASE Upload(r)
  BY <1>10, RecordsIs DEF Upload, Concluded, Concluding
<1>11. CASE Report(r)
  BY <1>11, GoesIs DEF Report, Stages, Ended, Concluded, Concluding
<1> QED BY <1>3, <1>4, <1>5, <1>6, <1>7, <1>8, <1>9, <1>10, <1>11 DEF Pipeline

LEMMA PipelineKeepsInv ==
  ASSUME ClientInv, NEW r \in Runs, PipelineEffect(r)
  PROVE  ClientInv'
<1>1. PICK s \in Stages, called \in SUBSET LedgerOps : Steps(r, s, called)
  BY DEF PipelineEffect
<1>2. /\ UNCHANGED <<stored, phased, missed, faults, signedOut, cleared>>
      /\ warned' \in [Runs -> Nat]
      /\ ~ Pending("start", r) /\ ~ Pending("complete", r)
  BY DEF PipelineEffect, entryVars, userVars
<1>3. at' \in [Runs -> Stages] /\ at'[r] = s /\ \A q \in Runs : q # r => at'[q] = at[q]
  BY <1>1 DEF Steps, ClientInv, ClientTypeOK
<1>q. ledgerOps \in Seq(LedgerOps) /\ Len(ledgerOps) \in Nat
  BY QueueIndices DEF ClientInv, ClientTypeOK
<1>o. \A i \in 1 .. Len(ledgerOps) :
        ledgerOps[i] \in LedgerOps /\ (ledgerOps[i].kind # "clear" => ledgerOps[i].run \in Runs)
  BY <1>q, QueueIndices DEF LedgerOps
<1>4. CASE called = {}
  <2>1. ledgerOps' = ledgerOps
    BY <1>1, <1>4 DEF Steps
  <2>2. ~ (s \in Concluded /\ at[r] \notin Concluded) /\ s # "starting" /\ at[r] # "opening"
        /\ at[r] # "killed" /\ s # "idle" /\ (s = "opening" => at[r] = "idle")
        /\ (at[r] \in Concluded => s \in Concluded)
    BY <1>1, <1>4 DEF Steps
  <2>3. \A k, q : Pending(k, q)' <=> Pending(k, q)
    BY <2>1 DEF Pending
  <2>4. ClientTypeOK'
    BY <1>2, <1>3, <2>1 DEF ClientInv, ClientTypeOK
  <2>5. QueueInv'
    <3>1. \A i \in 1 .. Len(ledgerOps) :
            ledgerOps[i].kind \in {"start", "complete"} => ledgerOps[i].run # r
      BY <1>2 DEF Pending
    <3> QED BY <1>2, <1>3, <1>o, <2>1, <3>1 DEF ClientInv, QueueInv
  <2>6. OnceInv'
    BY <2>1 DEF ClientInv, OnceInv
  <2>7. FreshInv'
    BY <1>2, <1>3, <2>2, <2>3 DEF ClientInv, FreshInv
  <2>8. EntryInv'
    BY <1>2, <1>3, <2>2, <2>3 DEF ClientInv, ClientTypeOK, Entries, EntryInv
  <2>9. NumbersBounded' /\ EntriesKept'
    BY <1>2 DEF ClientInv, NumbersBounded, EntriesKept
  <2> QED BY <2>4, <2>5, <2>6, <2>7, <2>8, <2>9 DEF ClientInv
<1>5. CASE called # {}
  <2>1. PICK op \in LedgerOps : called = {op} /\ Enqueue(op)
    BY <1>1, <1>5 DEF Steps
  <2>2. /\ op.run = r /\ op.seen = Unread /\ op.kind # "clear"
        /\ op.kind = "start" => op.awaited /\ at[r] = "opening"
        /\ op.kind = "complete" =>
             /\ op.awaited /\ op.status # "in_progress"
             /\ s \in Concluding /\ at[r] \notin Concluded
        /\ at[r] # "killed" /\ s # "idle"
        /\ s = "opening" => at[r] = "idle"
        /\ s = "starting" <=> at[r] = "opening"
        /\ at[r] = "opening" => op.kind = "start"
        /\ s \in Concluded /\ at[r] \notin Concluded => op.kind = "complete"
        /\ at[r] \in Concluded => s \in Concluded
    BY <1>1, <2>1 DEF Steps
  <2>3. /\ ledgerOps' \in Seq(LedgerOps)
        /\ Len(ledgerOps') = Len(ledgerOps) + 1
        /\ ledgerOps'[Len(ledgerOps) + 1] = op
        /\ \A i \in 1 .. Len(ledgerOps) : ledgerOps'[i] = ledgerOps[i]
        /\ \A k, q : Pending(k, q)' <=> Pending(k, q) \/ (op.kind = k /\ op.run = q)
    BY <1>q, <2>1, OpAppended
  <2>4. ClientTypeOK'
    BY <1>2, <1>3, <2>3 DEF ClientInv, ClientTypeOK
  <2>n. \A i \in 1 .. Len(ledgerOps) :
          ledgerOps[i].kind \in {"start", "complete"} => ledgerOps[i].run # r
    BY <1>2 DEF Pending
  <2>5. QueueInv'
    <3> SUFFICES ASSUME NEW i \in 1 .. Len(ledgerOps')
                 PROVE  LET o == ledgerOps'[i] IN
                        /\ i # 1 => o.seen = Unread
                        /\ o.kind # "clear" => o.seen \in {Unread, {}, stored'}
                        /\ o.kind = "start" => o.awaited /\ at'[o.run] = "starting"
                        /\ o.kind = "complete" =>
                             o.awaited /\ o.status # "in_progress" /\ at'[o.run] \in Concluding
                        /\ o.kind = "complete" /\ o.seen \notin {Unread, stored'} => o.run \in missed'
      BY DEF QueueInv
    <3>1. CASE i = Len(ledgerOps) + 1
      BY <1>2, <1>3, <2>2, <2>3, <3>1
    <3>2. CASE i # Len(ledgerOps) + 1
      <4>1. i \in 1 .. Len(ledgerOps) /\ ledgerOps'[i] = ledgerOps[i]
        BY <1>q, <2>3, <3>2
      <4> QED BY <1>2, <1>3, <1>o, <2>n, <4>1 DEF ClientInv, QueueInv
    <3> QED BY <3>1, <3>2
  <2>6. OnceInv'
    <3> SUFFICES ASSUME NEW i \in 1 .. Len(ledgerOps'), NEW j \in 1 .. Len(ledgerOps'),
                        ledgerOps'[i].kind \in {"start", "complete"},
                        ledgerOps'[j].kind = ledgerOps'[i].kind,
                        ledgerOps'[j].run = ledgerOps'[i].run
                 PROVE  i = j
      BY DEF OnceInv
    <3>1. \A n \in 1 .. Len(ledgerOps') : n = Len(ledgerOps) + 1 \/ n \in 1 .. Len(ledgerOps)
      BY <1>q, <2>3
    <3>2. CASE i \in 1 .. Len(ledgerOps) /\ j \in 1 .. Len(ledgerOps)
      BY <2>3, <3>2 DEF ClientInv, OnceInv
    <3> QED BY <2>2, <2>3, <2>n, <3>1, <3>2
  <2>7. FreshInv'
    BY <1>2, <1>3, <2>2, <2>3 DEF ClientInv, FreshInv
  <2>8. EntryInv'
    <3>1. ASSUME NEW e \in stored
          PROVE  IF e.status = "in_progress"
                 THEN at'[e.run] \in Concluded =>
                        Pending("complete", e.run)' \/ e.run \in missed'
                 ELSE /\ at'[e.run] \in Concluded \union {"killed"}
                      /\ ~ Pending("complete", e.run)'
      <4>1. e.run \in Runs
        BY DEF ClientInv, ClientTypeOK, Entries
      <4>2. IF e.status = "in_progress"
            THEN at[e.run] \in Concluded => Pending("complete", e.run) \/ e.run \in missed
            ELSE /\ at[e.run] \in Concluded \union {"killed"}
                 /\ ~ Pending("complete", e.run)
        BY DEF ClientInv, EntryInv
      <4>3. CASE e.run = r
        BY <1>2, <1>3, <2>2, <2>3, <4>2, <4>3
      <4>4. CASE e.run # r
        BY <1>2, <1>3, <2>2, <2>3, <4>1, <4>2, <4>4
      <4> QED BY <4>3, <4>4
    <3> QED BY <1>2, <3>1 DEF ClientInv, EntryInv
  <2>9. NumbersBounded' /\ EntriesKept'
    BY <1>2 DEF ClientInv, NumbersBounded, EntriesKept
  <2> QED BY <2>4, <2>5, <2>6, <2>7, <2>8, <2>9 DEF ClientInv
<1> QED BY <1>4, <1>5

LEMMA ReadKeepsInv ==
  ASSUME ClientInv, Read
  PROVE  ClientInv'
<1>1. ledgerOps \in Seq(LedgerOps) /\ Len(ledgerOps) \in Nat /\ ledgerOps # <<>>
  BY QueueIndices DEF ClientInv, ClientTypeOK, Read
<1>2. 1 \in 1 .. Len(ledgerOps) /\ Head(ledgerOps) = ledgerOps[1]
      /\ ledgerOps[1].kind # "clear" /\ ledgerOps[1].seen = Unread
  BY <1>1, QueueIndices DEF Read
<1>3. UNCHANGED <<at, warned, stored, phased, signedOut, cleared>>
  BY DEF Read, userVars
<1>4. PICK S \in {{}, stored} :
        /\ ledgerOps' = [ledgerOps EXCEPT ![1].seen = S]
        /\ faults' \in Nat /\ missed' \in SUBSET Runs /\ missed \subseteq missed'
        /\ S = stored \/ (ledgerOps[1].kind = "complete" => ledgerOps[1].run \in missed')
  BY <1>1, <1>2, QueueIndices DEF Read, Missed, Fault, ClientInv, ClientTypeOK, LedgerOps
<1>5. S \in SUBSET Entries
  BY DEF ClientInv, ClientTypeOK
<1>6. /\ ledgerOps' \in Seq(LedgerOps)
      /\ Len(ledgerOps') = Len(ledgerOps)
      /\ ledgerOps'[1].seen = S
      /\ \A i \in 1 .. Len(ledgerOps) :
           /\ i # 1 => ledgerOps'[i] = ledgerOps[i]
           /\ ledgerOps'[i].kind = ledgerOps[i].kind
           /\ ledgerOps'[i].kind # "clear" =>
                /\ ledgerOps'[i].run = ledgerOps[i].run
                /\ ledgerOps'[i].status = ledgerOps[i].status
                /\ ledgerOps'[i].awaited = ledgerOps[i].awaited
      /\ \A k, r : k # "clear" => (Pending(k, r)' <=> Pending(k, r))
  BY <1>1, <1>2, <1>4, <1>5, OpRead
<1>7. ClientTypeOK'
  BY <1>3, <1>4, <1>6 DEF ClientInv, ClientTypeOK
<1>8. QueueInv'
  <2> SUFFICES ASSUME NEW i \in 1 .. Len(ledgerOps)
               PROVE  LET o == ledgerOps'[i] IN
                      /\ i # 1 => o.seen = Unread
                      /\ o.kind # "clear" => o.seen \in {Unread, {}, stored}
                      /\ o.kind = "start" => o.awaited /\ at[o.run] = "starting"
                      /\ o.kind = "complete" =>
                           o.awaited /\ o.status # "in_progress" /\ at[o.run] \in Concluding
                      /\ o.kind = "complete" /\ o.seen \notin {Unread, stored} => o.run \in missed'
    BY <1>3, <1>6 DEF QueueInv
  <2>1. CASE i = 1
    BY <1>2, <1>4, <1>6, <2>1 DEF ClientInv, QueueInv
  <2>2. CASE i # 1
    BY <1>4, <1>6, <2>2 DEF ClientInv, QueueInv
  <2> QED BY <2>1, <2>2
<1>9. OnceInv'
  BY <1>6 DEF ClientInv, OnceInv
<1>10. FreshInv'
  BY <1>3, <1>6 DEF ClientInv, FreshInv
<1>11. EntryInv'
  BY <1>3, <1>4, <1>6 DEF ClientInv, EntryInv
<1>12. NumbersBounded' /\ EntriesKept'
  BY <1>3 DEF ClientInv, NumbersBounded, EntriesKept
<1> QED BY <1>7, <1>8, <1>9, <1>10, <1>11, <1>12 DEF ClientInv

\* An operation leaves the queue and what is stored does not change.
LEMMA DroppedKeepsInv ==
  ASSUME ClientInv, ledgerOps # <<>>, ledgerOps' = Tail(ledgerOps),
         UNCHANGED <<at, warned, stored, signedOut, cleared>>,
         faults' \in Nat, phased' = phased,
         missed' \in SUBSET Runs, missed \subseteq missed',
         ledgerOps[1].kind = "complete" =>
           ledgerOps[1].run \in missed' \/ \A e \in stored : e.run # ledgerOps[1].run
  PROVE  ClientInv'
<1>1. ledgerOps \in Seq(LedgerOps) /\ Len(ledgerOps) \in Nat
  BY QueueIndices DEF ClientInv, ClientTypeOK
<1>2. /\ ledgerOps' \in Seq(LedgerOps)
      /\ Len(ledgerOps') = Len(ledgerOps) - 1
      /\ \A i \in 1 .. Len(ledgerOps') :
           i + 1 \in 1 .. Len(ledgerOps) /\ ledgerOps'[i] = ledgerOps[i + 1]
      /\ \A k, r : Pending(k, r)' => Pending(k, r)
      /\ \A k, r : Pending(k, r) =>
           Pending(k, r)' \/ (ledgerOps[1].kind = k /\ ledgerOps[1].run = r)
  BY <1>1, OpDone
<1>3. ClientTypeOK'
  BY <1>2 DEF ClientInv, ClientTypeOK
<1>4. QueueInv'
  <2> SUFFICES ASSUME NEW i \in 1 .. Len(ledgerOps')
               PROVE  LET o == ledgerOps'[i] IN
                      /\ i # 1 => o.seen = Unread
                      /\ o.kind # "clear" => o.seen \in {Unread, {}, stored}
                      /\ o.kind = "start" => o.awaited /\ at[o.run] = "starting"
                      /\ o.kind = "complete" =>
                           o.awaited /\ o.status # "in_progress" /\ at[o.run] \in Concluding
                      /\ o.kind = "complete" /\ o.seen \notin {Unread, stored} => o.run \in missed'
    BY DEF QueueInv
  <2>1. i + 1 \in 1 .. Len(ledgerOps) /\ i + 1 # 1 /\ ledgerOps'[i] = ledgerOps[i + 1]
    BY <1>1, <1>2
  <2> QED BY <2>1 DEF ClientInv, QueueInv
<1>5. OnceInv'
  <2> SUFFICES ASSUME NEW i \in 1 .. Len(ledgerOps'), NEW j \in 1 .. Len(ledgerOps'),
                      ledgerOps'[i].kind \in {"start", "complete"},
                      ledgerOps'[j].kind = ledgerOps'[i].kind,
                      ledgerOps'[j].run = ledgerOps'[i].run
               PROVE  i = j
    BY DEF OnceInv
  <2>1. i + 1 \in 1 .. Len(ledgerOps) /\ j + 1 \in 1 .. Len(ledgerOps)
        /\ ledgerOps'[i] = ledgerOps[i + 1] /\ ledgerOps'[j] = ledgerOps[j + 1]
    BY <1>2
  <2>2. i + 1 = j + 1
    BY <2>1 DEF ClientInv, OnceInv
  <2> QED BY <1>1, <1>2, <2>2
<1>6. FreshInv'
  BY <1>2 DEF ClientInv, FreshInv
<1>7. EntryInv'
  BY <1>2 DEF ClientInv, EntryInv
<1>8. NumbersBounded' /\ EntriesKept'
  BY DEF ClientInv, NumbersBounded, EntriesKept
<1> QED BY <1>3, <1>4, <1>5, <1>6, <1>7, <1>8 DEF ClientInv

\* The two ways in which an operation changes what is stored.
Wrote(op, S) ==
  /\ ledgerOps # <<>>
  /\ op = ledgerOps[1]
  /\ op.kind # "clear"
  /\ S = op.seen /\ S \in {{}, stored}
  /\ ledgerOps' = Tail(ledgerOps)
  /\ stored' = Result(S, op)
  /\ phased' = IF op.kind = "phase" /\ op.run \in RunsIn(S)
               THEN [phased EXCEPT ![op.run] = @ + 1] ELSE phased
  /\ UNCHANGED <<at, warned, signedOut, cleared, faults, missed>>

LEMMA WroteQueue ==
  ASSUME ClientInv, NEW op, NEW S, Wrote(op, S)
  PROVE  /\ ledgerOps \in Seq(LedgerOps) /\ Len(ledgerOps) \in Nat
         /\ 1 \in 1 .. Len(ledgerOps) /\ op \in LedgerOps
         /\ op.kind \in {"start", "phase", "complete"}
         /\ op.run \in Runs /\ op.status \in Status
         /\ S \in SUBSET Entries /\ S \subseteq stored
         /\ ClientTypeOK' /\ NumbersBounded' /\ OnceInv'
         /\ \A k \in {"start", "complete"} : \A r : Pending(k, r)' =>
              Pending(k, r) /\ ~ (op.kind = k /\ op.run = r)
         /\ \A k, r : Pending(k, r) => Pending(k, r)' \/ (op.kind = k /\ op.run = r)
         /\ QueueInv'
<1>1. /\ ledgerOps \in Seq(LedgerOps) /\ Len(ledgerOps) \in Nat
      /\ 1 \in 1 .. Len(ledgerOps) /\ op \in LedgerOps
  BY QueueIndices DEF ClientInv, ClientTypeOK, Wrote
<1>2. /\ op.kind \in {"start", "phase", "complete"} /\ op.run \in Runs /\ op.status \in Status
      /\ S \in SUBSET Entries /\ S \subseteq stored
  BY <1>1 DEF Wrote, LedgerOps, ClientInv, ClientTypeOK
<1>3. /\ ledgerOps' \in Seq(LedgerOps)
      /\ Len(ledgerOps') = Len(ledgerOps) - 1
      /\ \A i \in 1 .. Len(ledgerOps') :
           i + 1 \in 1 .. Len(ledgerOps) /\ ledgerOps'[i] = ledgerOps[i + 1]
      /\ \A k, r : Pending(k, r)' => Pending(k, r)
      /\ \A k, r : Pending(k, r) => Pending(k, r)' \/ (op.kind = k /\ op.run = r)
  BY <1>1, OpDone DEF Wrote
<1>4. stored' \in SUBSET Entries /\ NumbersBounded'
  BY <1>1, <1>2, ResultTypes DEF Wrote, ClientInv, ClientTypeOK, NumbersBounded
<1>5. phased' \in [Runs -> Nat]
  BY <1>2 DEF Wrote, ClientInv, ClientTypeOK
<1>6. ClientTypeOK'
  BY <1>3, <1>4, <1>5 DEF Wrote, ClientInv, ClientTypeOK
<1>7. OnceInv'
  <2> SUFFICES ASSUME NEW i \in 1 .. Len(ledgerOps'), NEW j \in 1 .. Len(ledgerOps'),
                      ledgerOps'[i].kind \in {"start", "complete"},
                      ledgerOps'[j].kind = ledgerOps'[i].kind,
                      ledgerOps'[j].run = ledgerOps'[i].run
               PROVE  i = j
    BY DEF OnceInv
  <2>1. i + 1 = j + 1
    <3>1. PICK a, b \in 1 .. Len(ledgerOps) :
             /\ a = i + 1 /\ ledgerOps'[i] = ledgerOps[a]
             /\ b = j + 1 /\ ledgerOps'[j] = ledgerOps[b]
      BY <1>3
    <3>2. OnceInv
      BY DEF ClientInv
    <3>3. a = b
      BY <3>1, <3>2 DEF OnceInv
    <3> QED BY <3>1, <3>3
  <2> QED BY <1>1, <1>3, <2>1
<1>8. ASSUME NEW k \in {"start", "complete"}, NEW r, Pending(k, r)',
             op.kind = k, op.run = r
      PROVE  FALSE
  <2>1. PICK i \in 1 .. Len(ledgerOps') : ledgerOps'[i].kind = k /\ ledgerOps'[i].run = r
    BY <1>8 DEF Pending
  <2>2. i + 1 = 1
    BY <1>1, <1>3, <1>8, <2>1 DEF ClientInv, OnceInv, Wrote
  <2> QED BY <1>1, <1>3, <2>2
<1>9. QueueInv'
  <2> SUFFICES ASSUME NEW i \in 1 .. Len(ledgerOps')
               PROVE  LET o == ledgerOps'[i] IN
                      /\ i # 1 => o.seen = Unread
                      /\ o.kind # "clear" => o.seen \in {Unread, {}, stored'}
                      /\ o.kind = "start" => o.awaited /\ at[o.run] = "starting"
                      /\ o.kind = "complete" =>
                           o.awaited /\ o.status # "in_progress" /\ at[o.run] \in Concluding
                      /\ o.kind = "complete" /\ o.seen \notin {Unread, stored'} => o.run \in missed
    BY DEF QueueInv, Wrote
  <2>1. i + 1 \in 1 .. Len(ledgerOps) /\ i + 1 # 1 /\ ledgerOps'[i] = ledgerOps[i + 1]
    <3>1. i + 1 \in 1 .. Len(ledgerOps) /\ ledgerOps'[i] = ledgerOps[i + 1]
      BY <1>3
    <3>2. i + 1 # 1
      OBVIOUS
    <3> QED BY <3>1, <3>2
  <2>2. ledgerOps[i + 1].seen = Unread
    BY <2>1 DEF ClientInv, QueueInv
  <2> QED BY <2>1, <2>2 DEF ClientInv, QueueInv
<1> QED BY <1>1, <1>2, <1>3, <1>4, <1>6, <1>7, <1>8, <1>9

LEMMA StartWrittenKeepsInv ==
  ASSUME ClientInv, NEW op, NEW S, Wrote(op, S), op.kind = "start"
  PROVE  ClientInv'
<1> DEFINE new == NewEntry(S, op.run)
<1>1. /\ op.run \in Runs /\ S \in SUBSET Entries /\ S \subseteq stored
      /\ ClientTypeOK' /\ NumbersBounded' /\ OnceInv' /\ QueueInv'
      /\ \A k \in {"start", "complete"} : \A r : Pending(k, r)' =>
           Pending(k, r) /\ ~ (op.kind = k /\ op.run = r)
      /\ \A r : Pending("complete", r) => Pending("complete", r)'
  BY WroteQueue
<1>2. \A e \in stored' : e \in S \/ e = new
  BY ResultIs DEF Wrote
<1>3. new.run = op.run /\ new.status = "in_progress" /\ new.phases = 0
  BY DEF NewEntry
<1>4. /\ UNCHANGED <<at, phased, cleared, missed>>
      /\ at[op.run] = "starting" /\ Pending("start", op.run)
  BY WroteQueue DEF Wrote, ClientInv, QueueInv, Pending
<1>5. phased[op.run] = 0 /\ op.run \notin cleared /\ \A e \in stored : e.run # op.run
  BY <1>1, <1>4 DEF ClientInv, FreshInv
<1> HIDE DEF new
<1>6. FreshInv'
  BY <1>1, <1>2, <1>3, <1>4 DEF ClientInv, FreshInv
<1>7. EntryInv'
  BY <1>1, <1>2, <1>3, <1>4, <1>5 DEF ClientInv, EntryInv, Concluded, Concluding
<1>8. EntriesKept'
  BY <1>1, <1>2, <1>3, <1>4, <1>5 DEF ClientInv, EntriesKept
<1> QED BY <1>1, <1>6, <1>7, <1>8 DEF ClientInv

LEMMA AmendedKeepsInv ==
  ASSUME ClientInv, NEW op, NEW S, Wrote(op, S), op.kind # "start", op.run \in RunsIn(S)
  PROVE  ClientInv'
<1>1. /\ op.run \in Runs /\ op.status \in Status
      /\ op.kind \in {"phase", "complete"}
      /\ ClientTypeOK' /\ NumbersBounded' /\ OnceInv' /\ QueueInv'
      /\ \A k \in {"start", "complete"} : \A r : Pending(k, r)' =>
           Pending(k, r) /\ ~ (op.kind = k /\ op.run = r)
      /\ \A r : Pending("complete", r) =>
           Pending("complete", r)' \/ (op.kind = "complete" /\ op.run = r)
      /\ 1 \in 1 .. Len(ledgerOps)
  BY WroteQueue
<1>2. S = stored
  BY DEF Wrote, RunsIn
<1>3. stored' = {AmendedEntry(e, op) : e \in stored}
  BY <1>1, <1>2, ResultIs DEF Wrote
<1>4. /\ UNCHANGED <<at, cleared, missed>>
      /\ phased' = IF op.kind = "phase" THEN [phased EXCEPT ![op.run] = @ + 1] ELSE phased
  BY DEF Wrote
<1>5. stored \in SUBSET Entries /\ phased \in [Runs -> Nat]
  BY DEF ClientInv, ClientTypeOK
<1>6. \A e \in stored :
        LET f == AmendedEntry(e, op) IN
        /\ f.run = e.run /\ e.run \in Runs
        /\ e.run # op.run => f = e
        /\ e.run = op.run /\ op.kind = "phase" =>
             f.status = e.status /\ f.phases = e.phases + 1
        /\ e.run = op.run /\ op.kind # "phase" =>
             f.status = op.status /\ f.phases = e.phases
  BY <1>1, <1>5, AmendedEntryIs DEF Entries
<1>7. ASSUME NEW f \in stored'
      PROVE  \E e \in stored : f = AmendedEntry(e, op)
  BY <1>3
<1>8. FreshInv'
  BY <1>1, <1>4, <1>5, <1>6, <1>7 DEF ClientInv, FreshInv, RunsIn, Wrote
<1>9. op.kind = "complete" => op.status # "in_progress" /\ at[op.run] \in Concluding
  BY <1>1 DEF ClientInv, QueueInv, Wrote
<1>10. EntryInv'
  <2>1. ASSUME NEW f \in stored', NEW g \in stored', f.run = g.run
        PROVE  f = g
    BY <1>6, <1>7, <2>1 DEF ClientInv, EntryInv
  <2>2. ASSUME NEW f \in stored'
        PROVE  IF f.status = "in_progress"
               THEN at[f.run] \in Concluded =>
                      Pending("complete", f.run)' \/ f.run \in missed
               ELSE /\ at[f.run] \in Concluded \union {"killed"}
                    /\ ~ Pending("complete", f.run)'
    <3>1. PICK e \in stored : f = AmendedEntry(e, op)
      BY <1>7
    <3>2. IF e.status = "in_progress"
          THEN at[e.run] \in Concluded => Pending("complete", e.run) \/ e.run \in missed
          ELSE /\ at[e.run] \in Concluded \union {"killed"}
               /\ ~ Pending("complete", e.run)
      BY DEF ClientInv, EntryInv
    <3> QED BY <1>1, <1>6, <1>9, <3>1, <3>2 DEF Concluded
  <2> QED BY <1>4, <2>1, <2>2 DEF EntryInv
<1>11. EntriesKept'
  BY <1>1, <1>4, <1>5, <1>6, <1>7 DEF ClientInv, EntriesKept
<1> QED BY <1>1, <1>8, <1>10, <1>11 DEF ClientInv

LEMMA WriteKeepsInv ==
  ASSUME ClientInv, Write
  PROVE  ClientInv'
<1> DEFINE op == ledgerOps[1]
<1>1. ledgerOps # <<>> /\ Head(ledgerOps) = op /\ op \in LedgerOps
      /\ 1 \in 1 .. Len(ledgerOps) /\ op.seen # Unread
  BY QueueIndices DEF ClientInv, ClientTypeOK, Write
<1>2. op.kind # "clear" /\ op.seen \in {{}, stored} /\ op.run \in Runs
      /\ op.kind \in {"start", "phase", "complete"}
      /\ (op.kind = "complete" => op.seen = stored \/ op.run \in missed)
  BY <1>1 DEF LedgerOps, ClientInv, QueueInv
<1>3. ledgerOps' = Tail(ledgerOps) /\ UNCHANGED <<at, warned, signedOut, cleared>>
  BY <1>1 DEF Write, AfterRejection, userVars
<1> HIDE DEF op
<1>4. CASE Wrote(op, op.seen) /\ op.kind = "start"
  BY <1>4, StartWrittenKeepsInv
<1>5. CASE Wrote(op, op.seen) /\ op.kind # "start" /\ op.run \in RunsIn(op.seen)
  BY <1>5, AmendedKeepsInv
<1>6. CASE Wrote(op, op.seen) /\ op.kind # "start" /\ op.run \notin RunsIn(op.seen)
  <2>1. stored' = stored /\ phased' = phased /\ faults' = faults /\ missed' = missed
    BY <1>2, <1>6, ResultIs DEF Wrote
  <2>2. op.kind = "complete" => op.run \in missed' \/ \A e \in stored : e.run # op.run
    BY <1>2, <1>6, <2>1 DEF RunsIn
  <2> QED BY <1>1, <1>3, <2>1, <2>2, DroppedKeepsInv DEF op, ClientInv, ClientTypeOK
<1>7. CASE ~ Wrote(op, op.seen)
  <2>1. Fault /\ missed' = Missed(op) /\ UNCHANGED <<stored, phased>>
    BY <1>1, <1>2, <1>3, <1>7 DEF Write, Wrote, op
  <2>2. /\ faults' \in Nat /\ missed' \in SUBSET Runs /\ missed \subseteq missed'
        /\ op.kind = "complete" => op.run \in missed'
    BY <1>2, <2>1 DEF Fault, Missed, ClientInv, ClientTypeOK
  <2> QED BY <1>1, <1>3, <2>1, <2>2, DroppedKeepsInv DEF op
<1> QED BY <1>4, <1>5, <1>6, <1>7

LEMMA ClearKeepsInv ==
  ASSUME ClientInv, Clear
  PROVE  ClientInv'
<1>1. /\ ledgerOps \in Seq(LedgerOps) /\ Len(ledgerOps) \in Nat
      /\ 1 \in 1 .. Len(ledgerOps) /\ ledgerOps # <<>>
      /\ ledgerOps[1].kind = "clear"
      /\ ledgerOps' = Tail(ledgerOps)
      /\ UNCHANGED <<at, warned, signedOut, phased, missed>>
  BY QueueIndices DEF ClientInv, ClientTypeOK, Clear, AfterRejection
<1>2. CASE UNCHANGED <<stored, cleared>>
  BY <1>1, <1>2, DroppedKeepsInv DEF Clear, Fault, ClientInv, ClientTypeOK
<1>3. CASE stored' = {} /\ cleared' = cleared \union RunsIn(stored) /\ UNCHANGED faults
  <2>1. cleared' \in SUBSET Runs
    BY <1>3 DEF RunsIn, ClientInv, ClientTypeOK, Entries
  <2>2. /\ ledgerOps' \in Seq(LedgerOps)
        /\ Len(ledgerOps') = Len(ledgerOps) - 1
        /\ \A i \in 1 .. Len(ledgerOps') :
             i + 1 \in 1 .. Len(ledgerOps) /\ ledgerOps'[i] = ledgerOps[i + 1]
        /\ \A k, r : Pending(k, r)' => Pending(k, r)
    BY <1>1, OpDone
  <2>3. ClientTypeOK'
    BY <1>1, <1>3, <2>1, <2>2 DEF ClientInv, ClientTypeOK
  <2>4. QueueInv'
    <3> SUFFICES ASSUME NEW i \in 1 .. Len(ledgerOps')
                 PROVE  LET o == ledgerOps'[i] IN
                        /\ i # 1 => o.seen = Unread
                        /\ o.kind # "clear" => o.seen \in {Unread, {}, stored'}
                        /\ o.kind = "start" => o.awaited /\ at[o.run] = "starting"
                        /\ o.kind = "complete" =>
                             o.awaited /\ o.status # "in_progress" /\ at[o.run] \in Concluding
                        /\ o.kind = "complete" /\ o.seen \notin {Unread, stored'} => o.run \in missed
      BY <1>1 DEF QueueInv
    <3>1. i + 1 \in 1 .. Len(ledgerOps) /\ i + 1 # 1 /\ ledgerOps'[i] = ledgerOps[i + 1]
      BY <1>1, <2>2
    <3>2. ledgerOps[i + 1].seen = Unread
      BY <3>1 DEF ClientInv, QueueInv
    <3> QED BY <3>1, <3>2 DEF ClientInv, QueueInv
  <2>5. OnceInv'
    <3> SUFFICES ASSUME NEW i \in 1 .. Len(ledgerOps'), NEW j \in 1 .. Len(ledgerOps'),
                        ledgerOps'[i].kind \in {"start", "complete"},
                        ledgerOps'[j].kind = ledgerOps'[i].kind,
                        ledgerOps'[j].run = ledgerOps'[i].run
                 PROVE  i = j
      BY DEF OnceInv
    <3>1. i + 1 = j + 1
      <4>1. PICK a, b \in 1 .. Len(ledgerOps) :
             /\ a = i + 1 /\ ledgerOps'[i] = ledgerOps[a]
             /\ b = j + 1 /\ ledgerOps'[j] = ledgerOps[b]
        BY <2>2
      <4>2. OnceInv
        BY DEF ClientInv
      <4>3. a = b
        BY <4>1, <4>2 DEF OnceInv
      <4> QED BY <4>1, <4>3
    <3> QED BY <1>1, <2>2, <3>1
  <2>6. FreshInv'
    BY <1>1, <1>3, <2>2 DEF ClientInv, FreshInv, RunsIn
  <2>7. EntryInv' /\ NumbersBounded' /\ EntriesKept'
    BY <1>3 DEF EntryInv, NumbersBounded, EntriesKept
  <2> QED BY <2>3, <2>4, <2>5, <2>6, <2>7 DEF ClientInv
<1> QED BY <1>2, <1>3 DEF Clear

LEMMA SignOutKeepsInv ==
  ASSUME ClientInv, SignOut
  PROVE  ClientInv'
<1> DEFINE op == [kind |-> "clear", seen |-> Unread]
<1>1. op \in LedgerOps /\ op.kind = "clear" /\ op.seen = Unread
  BY DEF LedgerOps
<1>2. Enqueue(op) /\ UNCHANGED <<at, warned, cleared, stored, phased, missed, faults>>
      /\ signedOut' \in Nat
  BY DEF SignOut, entryVars, ClientInv, ClientTypeOK
<1> HIDE DEF op
<1>3. ledgerOps \in Seq(LedgerOps) /\ Len(ledgerOps) \in Nat
  BY QueueIndices DEF ClientInv, ClientTypeOK
<1>4. /\ ledgerOps' \in Seq(LedgerOps)
      /\ Len(ledgerOps') = Len(ledgerOps) + 1
      /\ ledgerOps'[Len(ledgerOps) + 1] = op
      /\ \A i \in 1 .. Len(ledgerOps) : ledgerOps'[i] = ledgerOps[i]
      /\ \A k, r : k # "clear" => (Pending(k, r)' <=> Pending(k, r))
  BY <1>1, <1>2, <1>3, OpAppended
<1>5. \A i \in 1 .. Len(ledgerOps') : i = Len(ledgerOps) + 1 \/ i \in 1 .. Len(ledgerOps)
  BY <1>3, <1>4
<1>6. ClientTypeOK'
  BY <1>2, <1>4 DEF ClientInv, ClientTypeOK
<1>7. QueueInv'
  <2> SUFFICES ASSUME NEW i \in 1 .. Len(ledgerOps')
               PROVE  LET o == ledgerOps'[i] IN
                      /\ i # 1 => o.seen = Unread
                      /\ o.kind # "clear" => o.seen \in {Unread, {}, stored}
                      /\ o.kind = "start" => o.awaited /\ at[o.run] = "starting"
                      /\ o.kind = "complete" =>
                           o.awaited /\ o.status # "in_progress" /\ at[o.run] \in Concluding
                      /\ o.kind = "complete" /\ o.seen \notin {Unread, stored} => o.run \in missed
    BY <1>2 DEF QueueInv
  <2>1. CASE i = Len(ledgerOps) + 1
    BY <1>1, <1>4, <2>1
  <2>2. CASE i \in 1 .. Len(ledgerOps)
    BY <1>4, <2>2 DEF ClientInv, QueueInv
  <2> QED BY <1>5, <2>1, <2>2
<1>8. OnceInv'
  BY <1>1, <1>4, <1>5 DEF ClientInv, OnceInv
<1>9. FreshInv'
  BY <1>2, <1>4 DEF ClientInv, FreshInv
<1>10. EntryInv'
  BY <1>2, <1>4 DEF ClientInv, EntryInv
<1>11. NumbersBounded' /\ EntriesKept'
  BY <1>2 DEF ClientInv, NumbersBounded, EntriesKept
<1> QED BY <1>6, <1>7, <1>8, <1>9, <1>10, <1>11 DEF ClientInv

LEMMA KillKeepsInv ==
  ASSUME ClientInv, Kill
  PROVE  ClientInv'
<1>1. /\ ledgerOps' = <<>> /\ Len(ledgerOps') = 0 /\ ledgerOps' \in Seq(LedgerOps)
      /\ UNCHANGED <<warned, stored, phased, missed, signedOut, cleared>> /\ faults' \in Nat
  BY EmptySeq DEF Kill, entryVars, userVars, Fault, ClientInv, ClientTypeOK
<1>2. \A k, r : ~ Pending(k, r)'
  BY <1>1 DEF Pending
<1>3. \A r \in Runs :
        /\ at'[r] = "killed" \/ (at'[r] = at[r] /\ ~ Waits(r))
        /\ at'[r] \in Stages
        /\ at'[r] = at[r] => at[r] \in Ended \union {"idle"}
  BY DEF Kill, Stages, Ended, ClientInv, ClientTypeOK
<1>4. ClientTypeOK'
  BY <1>1, <1>3 DEF Kill, ClientInv, ClientTypeOK
<1>5. QueueInv' /\ OnceInv'
  BY <1>1 DEF QueueInv, OnceInv
<1>6. FreshInv'
  BY <1>1, <1>2, <1>3 DEF ClientInv, FreshInv
<1>7. \A r : ~ Waits(r) => ~ Pending("complete", r)
  BY NotWaiting
<1>8. EntryInv'
  BY <1>1, <1>2, <1>3, <1>7
     DEF ClientInv, ClientTypeOK, Entries, EntryInv, Ended, Concluded, Concluding
<1>9. NumbersBounded' /\ EntriesKept'
  BY <1>1 DEF ClientInv, NumbersBounded, EntriesKept
<1> QED BY <1>4, <1>5, <1>6, <1>8, <1>9 DEF ClientInv

-----------------------------------------------------------------------------
(* ClientRun: the theorems. *)

LEMMA ClientInitInv == ClientInit => ClientInv
<1> SUFFICES ASSUME ClientInit PROVE ClientInv
  OBVIOUS
<1>1. ClientTypeOK
  BY EmptySeq DEF ClientInit, ClientTypeOK, Stages
<1>2. Len(ledgerOps) = 0 /\ stored = {} /\ cleared = {} /\ phased = [r \in Runs |-> 0]
  BY EmptySeq DEF ClientInit
<1>3. QueueInv /\ OnceInv /\ FreshInv /\ EntryInv /\ NumbersBounded /\ EntriesKept
  BY <1>2 DEF QueueInv, OnceInv, FreshInv, EntryInv, NumbersBounded, EntriesKept
<1> QED BY <1>1, <1>3 DEF ClientInv

LEMMA ClientNextInv == ClientInv /\ [ClientNext]_clientVars => ClientInv'
<1> SUFFICES ASSUME ClientInv, [ClientNext]_clientVars PROVE ClientInv'
  OBVIOUS
<1>1. CASE Read
  BY <1>1, ReadKeepsInv
<1>2. CASE Write
  BY <1>2, WriteKeepsInv
<1>3. CASE Clear
  BY <1>3, ClearKeepsInv
<1>4. CASE \E r \in Runs : Pipeline(r)
  BY <1>4, PipelineSteps, PipelineKeepsInv
<1>5. CASE SignOut
  BY <1>5, SignOutKeepsInv
<1>6. CASE Kill
  BY <1>6, KillKeepsInv
<1>7. CASE UNCHANGED clientVars
  <2>1. UNCHANGED <<at, warned, ledgerOps, stored, phased, missed, faults, signedOut, cleared>>
    BY <1>7 DEF clientVars, entryVars, userVars
  <2>2. ClientTypeOK' /\ QueueInv' /\ OnceInv'
    BY <2>1 DEF ClientInv, ClientTypeOK, QueueInv, OnceInv
  <2>3. FreshInv' /\ EntryInv'
    BY <2>1 DEF ClientInv, FreshInv, EntryInv, Pending
  <2>4. NumbersBounded' /\ EntriesKept'
    BY <2>1 DEF ClientInv, NumbersBounded, EntriesKept
  <2> QED BY <2>2, <2>3, <2>4 DEF ClientInv
<1> QED BY <1>1, <1>2, <1>3, <1>4, <1>5, <1>6, <1>7 DEF ClientNext, LedgerNext

\* The queue of the ledger, the entries stored and the pipelines agree in every
\* behaviour (RunLedger, runClientScrape).
THEOREM ClientInvAlways == ClientSpec => []ClientInv
<1> QED BY ClientInitInv, ClientNextInv, PTL DEF ClientSpec

\* The ledger and its queue keep their types (RunLedger, runClientScrape).
THEOREM ClientTypeCorrect == ClientSpec => []ClientTypeOK
<1>1. ClientInv => ClientTypeOK
  BY DEF ClientInv
<1> QED BY <1>1, ClientInvAlways, PTL

\* However many pipelines, warnings and sign-outs share the ledger, an entry has
\* every phase that was written for it, and what a sign-out cleared stays away
\* (RunLedger._queue, clear).
THEOREM PhasesAreKept == ClientSpec => []EntriesKept
<1>1. ClientInv => EntriesKept
  BY DEF ClientInv
<1> QED BY <1>1, ClientInvAlways, PTL

\* A pipeline that ended does not leave its entry in progress, unless the
\* operation that records the end failed (runClientScrape, completeRun).
THEOREM EndsAreRecorded == ClientSpec => []EndIsRecorded
<1>1. ClientInv => EndIsRecorded
  <2> SUFFICES ASSUME ClientInv, NEW e \in stored, e.status = "in_progress",
                      at[e.run] \in {"done", "thrown"}, e.run \notin missed
               PROVE  Waits(e.run)
    BY DEF EndIsRecorded
  <2>1. Pending("complete", e.run)
    BY DEF ClientInv, EntryInv, Concluded, Concluding
  <2>2. PICK i \in 1 .. Len(ledgerOps) :
          ledgerOps[i].kind = "complete" /\ ledgerOps[i].run = e.run
    BY <2>1 DEF Pending
  <2>3. ledgerOps[i].awaited
    BY <2>2 DEF ClientInv, QueueInv
  <2>4. DOMAIN ledgerOps = 1 .. Len(ledgerOps)
    BY QueueIndices DEF ClientInv, ClientTypeOK
  <2> QED BY <2>2, <2>3, <2>4 DEF Waits
<1> QED BY <1>1, ClientInvAlways, PTL

LEMMA EndStaysWritten ==
  ASSUME ClientInv, [ClientNext]_clientVars, NEW e \in stored, NEW f \in stored',
         e.run = f.run, e.status # "in_progress"
  PROVE  f.status = e.status
<1>1. ~ Pending("start", e.run) /\ ~ Pending("complete", e.run) /\ e \in Entries
  <2>1. e \in Entries /\ e.run \in Runs
    BY DEF ClientInv, ClientTypeOK, Entries
  <2> QED BY <2>1 DEF ClientInv, EntryInv, FreshInv
<1>2. CASE f \in stored
  BY <1>2 DEF ClientInv, EntryInv
<1>3. CASE f \notin stored
  <2>1. stored' # stored /\ stored' # {}
    BY <1>3
  <2>2. Write
    BY <2>1 DEF ClientNext, LedgerNext, Read, Clear, Pipeline, Open, Start, Unresolved, Proceed,
                AssetsFail, Warn, Fail, Upload, Report, Goes, Records, SignOut, Kill,
                entryVars, userVars, clientVars
  <2> DEFINE op == ledgerOps[1]
  <2>3. /\ op \in LedgerOps /\ 1 \in 1 .. Len(ledgerOps) /\ op.seen # Unread
        /\ stored' = Result(op.seen, op)
    BY <2>1, <2>2, QueueIndices DEF ClientInv, ClientTypeOK, Write
  <2>4. /\ op.kind \in {"start", "phase", "complete"} /\ op.seen \in {{}, stored}
        /\ op.run \in Runs /\ op.status \in Status
    BY <2>3 DEF LedgerOps, ClientInv, QueueInv
  <2>5. ~ (op.kind \in {"start", "complete"} /\ op.run = e.run)
    BY <1>1, <2>3 DEF Pending
  <2> HIDE DEF op
  <2>6. CASE op.kind = "start"
    <3>1. f \in op.seen \/ f = NewEntry(op.seen, op.run)
      BY <2>3, <2>4, <2>6, ResultIs
    <3>2. NewEntry(op.seen, op.run).run = op.run
      BY DEF NewEntry
    <3> QED BY <1>3, <2>4, <2>5, <2>6, <3>1, <3>2
  <2>7. CASE op.kind # "start" /\ op.run \in RunsIn(op.seen)
    <3>1. PICK g \in op.seen : f = AmendedEntry(g, op)
      BY <2>3, <2>4, <2>7, ResultIs
    <3>2. g \in stored /\ g \in Entries
      BY <2>4 DEF ClientInv, ClientTypeOK
    <3>3. f.run = g.run /\ (g.run # op.run => f = g)
          /\ (g.run = op.run /\ op.kind = "phase" => f.status = g.status)
      BY <2>4, <3>1, <3>2, AmendedEntryIs
    <3>4. g = e
      BY <3>2, <3>3 DEF ClientInv, EntryInv
    <3> QED BY <2>4, <2>5, <2>7, <3>3, <3>4
  <2>8. CASE op.kind # "start" /\ op.run \notin RunsIn(op.seen)
    BY <2>1, <2>3, <2>4, <2>8, ResultIs
  <2> QED BY <2>6, <2>7, <2>8
<1> QED BY <1>2, <1>3

\* Once an entry says how its run ended, no operation still on its way changes
\* that (RunLedger._queue: operations used to resurrect completed runs).
THEOREM EndsAreFinal == ClientSpec => EndIsFinal
<1>1. ClientInv /\ [ClientNext]_clientVars =>
        [\A e \in stored, f \in stored' :
           e.run = f.run /\ e.status # "in_progress" => f.status = e.status]_clientVars
  BY EndStaysWritten
<1> QED BY <1>1, ClientInvAlways, PTL DEF ClientSpec, EndIsFinal

-----------------------------------------------------------------------------
(* PageDriver.  The invariant is the property beside the types: the map    *)
(* and the outcome of a call always change together.                       *)

DriverInv == DriverTypeOK /\ CallsSettleThemselves

LEMMA OutcomeSettles ==
  ASSUME DriverTypeOK, NEW w \in Waiters,
         NEW o \in {"unasked", "waiting", "timedOut", "threw", "loaded"} \union Calls,
         Settles(w, o)
  PROVE  /\ outcome' \in [Waiters -> {"unasked", "waiting", "timedOut", "threw", "loaded"}
                                     \union Calls]
         /\ outcome'[w] = o
         /\ \A v \in Waiters : v # w => outcome'[v] = outcome[v]
BY DEF DriverTypeOK, Settles

\* A step that settles call c and takes it from the map.
LEMMA CallSettled ==
  ASSUME DriverInv, NEW c \in Calls,
         NEW o \in {"timedOut", c}, Settles(c, o), pendingEvals' = pendingEvals \ {c}
  PROVE  CallsSettleThemselves'
<1>1. /\ outcome'[c] = o
      /\ \A v \in Calls : v # c => outcome'[v] = outcome[v]
  BY OutcomeSettles DEF DriverInv, Waiters
<1> QED BY <1>1, PageDriverConstants DEF DriverInv, CallsSettleThemselves

LEMMA DriverNextInv == DriverInv /\ [DriverNext]_driverVars => DriverInv'
<1> SUFFICES ASSUME DriverInv, [DriverNext]_driverVars PROVE DriverInv'
  OBVIOUS
<1>t. DriverTypeOK /\ CallsSettleThemselves
  BY DEF DriverInv
<1>c. /\ Calls \subseteq Waiters /\ Gotos \subseteq Waiters
      /\ \A g \in Gotos : g \notin Calls
  BY PageDriverConstants DEF Waiters
<1>1. CASE Commit \/ FinishLoad \/ SiteNavigates
  <2>1. UNCHANGED <<pendingEvals, outcome>>
    BY <1>1 DEF Commit, FinishLoad, SiteNavigates
  <2>2. DriverTypeOK'
    <3>1. CASE Commit
      BY <3>1, <1>t DEF Commit, DriverTypeOK
    <3>2. CASE FinishLoad
      <4>1. /\ loadEnds' = loadEnds + 1 /\ loading' = FALSE
            /\ UNCHANGED <<attached, heading, siteMoves, inPage, posted,
                           pendingEvals, loadResolvers, outcome>>
        BY <3>2, <1>t, Zenon DEF FinishLoad, DriverTypeOK
      <4>2. loadEnds \in Nat
        BY <1>t DEF DriverTypeOK
      <4>3. loadEnds' = loadEnds + 1
        BY <4>1
      <4>4. loadEnds' \in Nat
        BY <4>2, <4>3
      <4> QED BY <1>t, <4>1, <4>4 DEF DriverTypeOK
    <3>3. CASE SiteNavigates
      BY <3>3, <1>t DEF SiteNavigates, DriverTypeOK
    <3> QED BY <1>1, <3>1, <3>2, <3>3
  <2> QED BY <1>t, <2>1, <2>2 DEF DriverInv, CallsSettleThemselves
<1>2. CASE HandleLoadEnd
  <2>1. \A c \in Calls : outcome'[c] = outcome[c]
    BY <1>2, <1>t, <1>c DEF HandleLoadEnd, DriverTypeOK
  <2>2. DriverTypeOK'
    <3>1. outcome' \in [Waiters -> {"unasked", "waiting", "timedOut", "threw", "loaded"}
                                   \union Calls]
      BY <1>2, <1>t DEF HandleLoadEnd, DriverTypeOK
    <3> QED BY <1>2, <1>t, <3>1 DEF HandleLoadEnd, KeepsEvals, pageVars, DriverTypeOK
  <2>3. CallsSettleThemselves'
    BY <1>2, <1>t, <2>1 DEF HandleLoadEnd, KeepsEvals, CallsSettleThemselves
  <2> QED BY <2>2, <2>3 DEF DriverInv
<1>3. ASSUME NEW c \in Calls, Evaluate(c)
      PROVE  DriverInv'
  <2>1. /\ outcome' \in [Waiters -> {"unasked", "waiting", "timedOut", "threw", "loaded"}
                                    \union Calls]
        /\ outcome'[c] = "waiting"
        /\ \A v \in Waiters : v # c => outcome'[v] = outcome[v]
    BY <1>3, <1>t, <1>c, OutcomeSettles DEF Evaluate
  <2>2. DriverTypeOK'
    BY <1>3, <1>t, <2>1 DEF Evaluate, pageVars, DriverTypeOK
  <2>3. CallsSettleThemselves'
    BY <1>3, <1>t, <1>c, <2>1, PageDriverConstants DEF Evaluate, CallsSettleThemselves
  <2> QED BY <2>2, <2>3 DEF DriverInv
<1>4. ASSUME NEW c \in Calls, EvaluateUnattached(c)
      PROVE  DriverInv'
  <2>1. /\ outcome' \in [Waiters -> {"unasked", "waiting", "timedOut", "threw", "loaded"}
                                    \union Calls]
        /\ outcome'[c] = "threw"
        /\ \A v \in Waiters : v # c => outcome'[v] = outcome[v]
    BY <1>4, <1>t, <1>c, OutcomeSettles DEF EvaluateUnattached
  <2>2. DriverTypeOK'
    BY <1>4, <1>t, <2>1 DEF EvaluateUnattached, pageVars, DriverTypeOK
  <2>3. CallsSettleThemselves'
    BY <1>4, <1>t, <1>c, <2>1, PageDriverConstants
       DEF EvaluateUnattached, CallsSettleThemselves
  <2> QED BY <2>2, <2>3 DEF DriverInv
<1>5. ASSUME NEW c \in Calls, Post(c)
      PROVE  DriverInv'
  BY <1>5, <1>t DEF Post, pageVars, DriverTypeOK, DriverInv, CallsSettleThemselves
<1>6. ASSUME NEW c \in Calls, HandleMessage(c)
      PROVE  DriverInv'
  <2>1. CASE AddresseeOf(c) = {}
    BY <1>6, <1>t, <2>1 DEF HandleMessage, pageVars, DriverTypeOK, DriverInv,
                            CallsSettleThemselves
  <2>2. CASE AddresseeOf(c) # {}
    <3>1. pendingEvals' = pendingEvals \ {c} /\ Settles(c, c)
      BY <1>6, <2>2 DEF HandleMessage, AddresseeOf
    <3>2. outcome' \in [Waiters -> {"unasked", "waiting", "timedOut", "threw", "loaded"}
                                   \union Calls]
      BY <1>t, <1>c, <3>1, OutcomeSettles
    <3>3. DriverTypeOK'
      BY <1>6, <1>t, <3>1, <3>2 DEF HandleMessage, pageVars, DriverTypeOK
    <3> QED BY <3>1, <3>3, CallSettled DEF DriverInv
  <2> QED BY <2>1, <2>2
<1>7. ASSUME NEW c \in Calls, EvalTimeout(c)
      PROVE  DriverInv'
  <2>1. pendingEvals' = pendingEvals \ {c} /\ Settles(c, "timedOut")
    BY <1>7 DEF EvalTimeout
  <2>2. outcome' \in [Waiters -> {"unasked", "waiting", "timedOut", "threw", "loaded"}
                                 \union Calls]
    BY <1>t, <1>c, <2>1, OutcomeSettles
  <2>3. DriverTypeOK'
    BY <1>7, <1>t, <2>1, <2>2 DEF EvalTimeout, pageVars, DriverTypeOK
  <2> QED BY <2>1, <2>3, CallSettled DEF DriverInv
<1>8. ASSUME NEW g \in Gotos, Goto(g) \/ LoadTimeout(g)
      PROVE  DriverInv'
  <2>1. (Settles(g, "waiting") \/ Settles(g, "timedOut")) /\ pendingEvals' = pendingEvals
    BY <1>8 DEF Goto, LoadTimeout
  <2>2. /\ outcome' \in [Waiters -> {"unasked", "waiting", "timedOut", "threw", "loaded"}
                                    \union Calls]
        /\ \A c \in Calls : outcome'[c] = outcome[c]
    BY <1>t, <1>c, <2>1, OutcomeSettles
  <2>3. DriverTypeOK'
    BY <1>8, <1>t, <2>1, <2>2 DEF Goto, LoadTimeout, pageVars, DriverTypeOK
  <2> QED BY <1>t, <2>1, <2>2, <2>3 DEF DriverInv, CallsSettleThemselves
<1>9. CASE UNCHANGED driverVars
  BY <1>9, <1>t DEF driverVars, pageVars, DriverTypeOK, DriverInv, CallsSettleThemselves
<1> QED BY <1>1, <1>2, <1>3, <1>4, <1>5, <1>6, <1>7, <1>8, <1>9 DEF DriverNext

LEMMA DriverInitInv == DriverInit => DriverInv
<1> SUFFICES ASSUME DriverInit PROVE DriverInv
  OBVIOUS
<1>1. DriverTypeOK
  BY DEF DriverInit, DriverTypeOK
<1>2. CallsSettleThemselves
  BY PageDriverConstants DEF DriverInit, CallsSettleThemselves, Waiters
<1> QED BY <1>1, <1>2 DEF DriverInv

\* The driver's map, its lists and what is on the bridge keep their types
\* (WebViewPageDriver).
THEOREM DriverTypeCorrect == DriverSpec => []DriverTypeOK
<1>1. DriverInv => DriverTypeOK
  BY DEF DriverInv
<1> QED BY <1>1, DriverInitInv, DriverNextInv, PTL DEF DriverSpec

\* Whatever pages come and go, a call is settled by its own function or its own
\* timer, and waits exactly while it is in the map (_handleMessage, evaluate).
THEOREM CallsSettle == DriverSpec => []CallsSettleThemselves
<1>1. DriverInv => CallsSettleThemselves
  BY DEF DriverInv
<1> QED BY <1>1, DriverInitInv, DriverNextInv, PTL DEF DriverSpec

-----------------------------------------------------------------------------
(* EmailTransfer.                                                          *)
(*                                                                         *)
(* A pending transfer is its user's and was not withdrawn.  An accepted    *)
(* click is a confirmation, or still to become one, and as soon as both    *)
(* links were clicked there is a handler that will find both.              *)

RequestInv ==
  /\ \A u \in Users : request[u] # NoTransfer =>
       /\ wanted[request[u]].pc = "stored" /\ wanted[request[u]].user = u
       /\ request[u] \notin withdrawn
  /\ \A t \in withdrawn : wanted[t].pc = "stored"
  /\ \A t \in Transfers, s \in Sides : <<t, s>> \in clicked => wanted[t].pc = "stored"

CallOK(c) ==
  /\ c.pc \in {"read", "write"} => c.transfer # NoTransfer
  /\ c.pc \in {"read", "upsert"} => c.looked = {} /\ c.saw = {}
  /\ c.pc = "check" => c.looked # Sides

CallsInv == \A h \in Handlers : CallOK(calls[h])

\* Handler h is about to write what a click on side s says.
Confirming(h, u, s) ==
  calls[h].pc = "upsert" /\ calls[h].user = u /\ calls[h].side = s

\* Handler h completes the transfer of u, if both confirmations are there.
Completing(h, u) ==
  /\ calls[h].pc \in {"upsert", "check", "reread", "write"}
  /\ calls[h].user = u
  /\ calls[h].pc = "check" => calls[h].saw = calls[h].looked

\* The pending transfer of u, when nothing was thrown or swept away.
Undisturbed(u) == request[u] # NoTransfer /\ u \notin cutShort \union swept

ConfirmInv ==
  \A u \in Users : Undisturbed(u) =>
    /\ \A s \in Sides : <<request[u], s>> \in clicked =>
         <<u, s>> \in confirmations \/ \E h \in Handlers : Confirming(h, u, s)
    /\ (\A s \in Sides : <<request[u], s>> \in clicked) =>
         \E h \in Handlers : Completing(h, u)

TransferInv ==
  TransferTypeOK /\ RequestInv /\ CallsInv /\ ConfirmInv

(* The two ways in which a step changes a request or a handler. *)

Wanted == [pc : {"unasked", "asked", "checked", "stored", "refused"},
           user : Users, to : Emails]

LEMMA BecomesIs ==
  ASSUME TransferTypeOK, NEW t \in Transfers,
         NEW pc \in {"unasked", "asked", "checked", "stored", "refused"}, Becomes(t, pc)
  PROVE  /\ wanted' \in [Transfers -> Wanted]
         /\ wanted'[t].pc = pc
         /\ \A x \in Transfers :
              /\ wanted'[x].user = wanted[x].user /\ wanted'[x].to = wanted[x].to
              /\ x # t => wanted'[x] = wanted[x]
<1> DEFINE w == [wanted[t] EXCEPT !.pc = pc]
<1>1. wanted \in [Transfers -> Wanted]
  BY DEF TransferTypeOK, Wanted
<1>2. w \in Wanted /\ w.pc = pc /\ w.user = wanted[t].user /\ w.to = wanted[t].to
  BY <1>1 DEF Wanted
<1>3. wanted' = [wanted EXCEPT ![t] = w]
  BY DEF Becomes
<1> HIDE DEF w
<1> QED BY <1>1, <1>2, <1>3

LEMMA CallIs ==
  ASSUME TransferTypeOK, NEW h \in Handlers
  PROVE  /\ calls[h] = Idle <=> calls[h].pc = "idle"
         /\ calls[h] # Idle => calls[h] \in Call
         /\ calls[h] # Idle =>
              /\ calls[h].pc \in CallPcs /\ calls[h].user \in Users
              /\ calls[h].side \in Sides
              /\ calls[h].transfer \in Transfers \union {NoTransfer}
              /\ calls[h].looked \in SUBSET Sides /\ calls[h].saw \in SUBSET Sides
<1>1. calls[h] \in Call \union {Idle}
  BY DEF TransferTypeOK
<1>2. \A c \in Call : c.pc # "idle"
  BY DEF Call, CallPcs
<1> QED BY <1>1, <1>2 DEF Call, Idle

\* Handler h goes on as call c, and the others stay where they are.
Becoming(h, c) ==
  /\ calls' \in [Handlers -> Call \union {Idle}]
  /\ calls'[h] = c
  /\ \A g \in Handlers : g # h => calls'[g] = calls[g]

LEMMA MovesIs ==
  ASSUME TransferTypeOK, NEW h \in Handlers, calls[h] # Idle,
         NEW pc \in CallPcs, Moves(h, pc)
  PROVE  \E c \in Call :
           /\ Becoming(h, c)
           /\ c.pc = pc /\ c.user = calls[h].user /\ c.side = calls[h].side
           /\ c.transfer = calls[h].transfer
           /\ c.looked = calls[h].looked /\ c.saw = calls[h].saw
<1> DEFINE c == [calls[h] EXCEPT !.pc = pc]
<1>1. calls[h] \in Call
  BY CallIs
<1>2. /\ c \in Call /\ c.pc = pc /\ c.user = calls[h].user /\ c.side = calls[h].side
      /\ c.transfer = calls[h].transfer
      /\ c.looked = calls[h].looked /\ c.saw = calls[h].saw
  BY <1>1 DEF Call
<1>3. calls' = [calls EXCEPT ![h] = c]
  BY DEF Moves
<1> HIDE DEF c
<1>4. Becoming(h, c)
  BY <1>2, <1>3 DEF Becoming, TransferTypeOK
<1> QED BY <1>2, <1>4

LEMMA EndsIs ==
  ASSUME TransferTypeOK, NEW h \in Handlers, Ends(h)
  PROVE  Becoming(h, Idle)
BY DEF Ends, Becoming, TransferTypeOK

\* Handlers that stay where they are go on confirming and completing.
LEMMA OthersGoOn ==
  ASSUME NEW h, NEW c, Becoming(h, c)
  PROVE  \A g \in Handlers : \A u, s : g # h =>
           (Confirming(g, u, s)' <=> Confirming(g, u, s))
           /\ (Completing(g, u)' <=> Completing(g, u))
BY DEF Becoming, Confirming, Completing

LEMMA CallsInvKept ==
  ASSUME CallsInv, NEW h \in Handlers, NEW c, Becoming(h, c), CallOK(c)
  PROVE  CallsInv'
BY DEF Becoming, CallsInv

-----------------------------------------------------------------------------
(* EmailTransfer: asking for a transfer. *)

LEMMA AskKeepsInv ==
  ASSUME TransferInv, NEW t \in Transfers, Ask(t) \/ CheckAddress(t) \/ Expire(t)
  PROVE  TransferInv'
<1>1. TransferTypeOK
  BY DEF TransferInv
<1>2. UNCHANGED <<email, request, confirmations, calls, clicked, withdrawn, cutShort, swept,
                   agreed, raced>>
  BY DEF Ask, CheckAddress, Expire, docs
<1>3. /\ wanted' \in [Transfers -> Wanted]
      /\ \A x \in Transfers :
           /\ wanted'[x].user = wanted[x].user
           /\ wanted[x].pc = "stored" => wanted'[x].pc = "stored"
  <2>1. CASE \E pc \in {"asked", "checked", "refused"} : Becomes(t, pc)
    BY <1>1, <2>1, BecomesIs DEF Ask, CheckAddress, Expire
  <2>2. CASE Expire(t)
    BY <1>1, <2>2 DEF Expire, TransferTypeOK, Wanted
  <2>3. CASE Ask(t) \/ CheckAddress(t)
    BY <2>1, <2>3 DEF Ask, CheckAddress
  <2> QED BY <2>2, <2>3
<1>4. expired' \in SUBSET Transfers
  BY <1>1 DEF Ask, CheckAddress, Expire, TransferTypeOK
<1>5. TransferTypeOK'
  BY <1>1, <1>2, <1>3, <1>4 DEF TransferTypeOK, Wanted
<1>6. RequestInv'
  BY <1>1, <1>2, <1>3 DEF TransferInv, RequestInv, TransferTypeOK
<1>7. CallsInv' /\ ConfirmInv'
  BY <1>2 DEF TransferInv, CallsInv, ConfirmInv, Undisturbed, Confirming, Completing
<1> QED BY <1>5, <1>6, <1>7 DEF TransferInv

LEMMA StoreKeepsInv ==
  ASSUME TransferInv, NEW t \in Transfers, StoreRequest(t)
  PROVE  TransferInv'
<1> DEFINE u == wanted[t].user
<1>1. TransferTypeOK /\ RequestInv /\ u \in Users
  BY DEF TransferInv, TransferTypeOK
<1>2. /\ wanted[t].pc = "checked" /\ Becomes(t, "stored")
      /\ request' = [request EXCEPT ![u] = t]
      /\ withdrawn' = withdrawn \union ({request[u]} \ {NoTransfer})
      /\ UNCHANGED <<email, confirmations, expired, calls, clicked, cutShort, swept,
                   agreed, raced>>
  BY DEF StoreRequest
<1>3. /\ wanted' \in [Transfers -> Wanted]
      /\ wanted'[t].pc = "stored"
      /\ \A x \in Transfers :
           /\ wanted'[x].user = wanted[x].user
           /\ x # t => wanted'[x] = wanted[x]
  BY <1>1, <1>2, BecomesIs
<1> HIDE DEF u
<1>4. /\ request' \in [Users -> Transfers \union {NoTransfer}]
      /\ request'[u] = t /\ \A v \in Users : v # u => request'[v] = request[v]
  BY <1>1, <1>2 DEF TransferTypeOK
<1>5. withdrawn' \in SUBSET Transfers
  BY <1>1, <1>2 DEF TransferTypeOK
<1>6. TransferTypeOK'
  BY <1>1, <1>2, <1>3, <1>4, <1>5 DEF TransferTypeOK, Wanted
<1>7. t \notin withdrawn /\ \A v \in Users : request[v] # t
  BY <1>1, <1>2, TransferConstants DEF RequestInv
<1>8. \A x \in withdrawn' : wanted'[x].pc = "stored"
  BY <1>1, <1>2, <1>3, <1>5 DEF RequestInv, TransferTypeOK
<1>9. \A v \in Users : request'[v] # NoTransfer =>
        /\ wanted'[request'[v]].pc = "stored" /\ wanted'[request'[v]].user = v
        /\ request'[v] \notin withdrawn'
  <2> SUFFICES ASSUME NEW v \in Users, request'[v] # NoTransfer
               PROVE  /\ wanted'[request'[v]].pc = "stored" /\ wanted'[request'[v]].user = v
                      /\ request'[v] \notin withdrawn'
    OBVIOUS
  <2>1. CASE v = u
    BY <1>1, <1>2, <1>3, <1>4, <1>7, <2>1 DEF u
  <2>2. CASE v # u
    <3>1. /\ request[v] \in Transfers /\ request[v] # t
          /\ wanted[request[v]].pc = "stored" /\ wanted[request[v]].user = v
          /\ request[v] \notin withdrawn
      BY <1>1, <1>4, <1>7, <2>2 DEF RequestInv, TransferTypeOK
    <3>2. request[u] # NoTransfer => wanted[request[u]].user = u
      BY <1>1 DEF RequestInv
    <3> QED BY <1>2, <1>3, <1>4, <2>2, <3>1, <3>2
  <2> QED BY <2>1, <2>2
<1>10. RequestInv'
  BY <1>1, <1>2, <1>3, <1>8, <1>9 DEF RequestInv
<1>11. \A s \in Sides : <<t, s>> \notin clicked
  BY <1>1, <1>2 DEF RequestInv
<1>12. ConfirmInv'
  <2> SUFFICES ASSUME NEW v \in Users, Undisturbed(v)'
               PROVE  /\ \A s \in Sides : <<request'[v], s>> \in clicked' =>
                           <<v, s>> \in confirmations' \/ \E h \in Handlers : Confirming(h, v, s)'
                      /\ (\A s \in Sides : <<request'[v], s>> \in clicked') =>
                           \E h \in Handlers : Completing(h, v)'
    BY DEF ConfirmInv
  <2>1. CASE v = u
    BY <1>2, <1>4, <1>11, <2>1 DEF Sides
  <2>2. CASE v # u
    BY <1>2, <1>4, <2>2 DEF TransferInv, ConfirmInv, Undisturbed, Confirming, Completing
  <2> QED BY <2>1, <2>2
<1>13. CallsInv'
  BY <1>2 DEF TransferInv, CallsInv
<1> QED BY <1>6, <1>10, <1>12, <1>13 DEF TransferInv

-----------------------------------------------------------------------------
(* EmailTransfer: the handlers of clicks and cancellations. *)

\* A step of one handler that leaves the documents alone: it keeps what it had
\* to do, or leaves it to another handler, or is cut short.
LEMMA HandlerKeepsInv ==
  ASSUME TransferInv, NEW h \in Handlers, NEW c, Becoming(h, c), CallOK(c),
         UNCHANGED <<docs, expired, wanted, clicked, withdrawn, swept, agreed, raced>>,
         cutShort \subseteq cutShort', cutShort' \subseteq Users,
         \A u \in Users \ cutShort' :
           /\ \A s \in Sides : ~ Confirming(h, u, s)
           /\ /\ Undisturbed(u) /\ Completing(h, u)
              /\ \A s \in Sides : <<request[u], s>> \in clicked
              => Completing(h, u)' \/ \E g \in Handlers : g # h /\ Completing(g, u)
  PROVE  TransferInv'
<1>1. UNCHANGED <<email, request, confirmations, expired, wanted, clicked, withdrawn, swept,
                 agreed, raced>>
  BY DEF docs
<1>2. TransferTypeOK'
  BY <1>1 DEF TransferInv, TransferTypeOK, Becoming
<1>3. RequestInv'
  BY <1>1 DEF TransferInv, RequestInv
<1>4. CallsInv'
  BY CallsInvKept DEF TransferInv
<1>5. ConfirmInv'
  <2> SUFFICES ASSUME NEW u \in Users, Undisturbed(u)'
               PROVE  /\ \A s \in Sides : <<request[u], s>> \in clicked =>
                           <<u, s>> \in confirmations \/ \E g \in Handlers : Confirming(g, u, s)'
                      /\ (\A s \in Sides : <<request[u], s>> \in clicked) =>
                           \E g \in Handlers : Completing(g, u)'
    BY <1>1 DEF ConfirmInv
  <2>1. Undisturbed(u) /\ u \in Users \ cutShort'
    BY <1>1 DEF Undisturbed
  <2>2. /\ \A s \in Sides : <<request[u], s>> \in clicked =>
             <<u, s>> \in confirmations \/ \E g \in Handlers : Confirming(g, u, s)
        /\ (\A s \in Sides : <<request[u], s>> \in clicked) =>
             \E g \in Handlers : Completing(g, u)
    BY <2>1 DEF TransferInv, ConfirmInv
  <2>3. \A g \in Handlers : g # h =>
          /\ \A s : Confirming(g, u, s)' <=> Confirming(g, u, s)
          /\ Completing(g, u)' <=> Completing(g, u)
    BY OthersGoOn
  <2> QED BY <2>1, <2>2, <2>3
<1> QED BY <1>2, <1>3, <1>4, <1>5 DEF TransferInv

LEMMA ArriveKeepsInv ==
  ASSUME TransferInv, NEW h \in Handlers,
         (\E t \in Transfers, s \in Sides : Click(h, t, s)) \/ (\E u \in Users : Cancel(h, u))
  PROVE  TransferInv'
<1>1. TransferTypeOK /\ calls[h] = Idle
  BY DEF TransferInv, Click, Cancel
<1>2. PICK c \in Call :
        /\ c.pc \in {"read", "withdraw"} /\ CallOK(c)
        /\ calls' = [calls EXCEPT ![h] = c]
  <2>1. CASE \E t \in Transfers, s \in Sides : Click(h, t, s)
    <3>1. PICK t \in Transfers, s \in Sides : Click(h, t, s)
      BY <2>1
    <3> DEFINE c == [pc |-> "read", user |-> wanted[t].user, side |-> s,
                     transfer |-> t, looked |-> {}, saw |-> {}]
    <3>2. c \in Call /\ c.pc = "read" /\ CallOK(c)
      BY <1>1, TransferConstants DEF TransferTypeOK, Call, CallPcs, CallOK
    <3>3. calls' = [calls EXCEPT ![h] = c]
      BY <3>1 DEF Click
    <3> HIDE DEF c
    <3> QED BY <3>2, <3>3
  <2>2. CASE \E u \in Users : Cancel(h, u)
    <3>1. PICK u \in Users : Cancel(h, u)
      BY <2>2
    <3> DEFINE c == [pc |-> "withdraw", user |-> u, side |-> "old",
                     transfer |-> NoTransfer, looked |-> {}, saw |-> {}]
    <3>2. c \in Call /\ c.pc = "withdraw" /\ CallOK(c)
      BY DEF Call, CallPcs, Sides, CallOK
    <3>3. calls' = [calls EXCEPT ![h] = c]
      BY <3>1 DEF Cancel
    <3> HIDE DEF c
    <3> QED BY <3>2, <3>3
  <2> QED BY <2>1, <2>2
<1>3. Becoming(h, c)
  BY <1>1, <1>2 DEF Becoming, TransferTypeOK
<1>4. UNCHANGED <<docs, expired, wanted, clicked, withdrawn, cutShort, swept,
                   agreed, raced>>
  BY DEF Click, Cancel
<1>5. \A u, s : ~ Confirming(h, u, s) /\ ~ Completing(h, u)
  BY <1>1 DEF Confirming, Completing, Idle
<1> QED BY <1>1, <1>2, <1>3, <1>4, <1>5, HandlerKeepsInv DEF TransferTypeOK

LEMMA RereadKeepsInv ==
  ASSUME TransferInv, NEW h \in Handlers, RereadUser(h)
  PROVE  TransferInv'
<1> DEFINE u == calls[h].user
<1>1. TransferTypeOK /\ calls[h].pc = "reread" /\ calls[h] \in Call
      /\ UNCHANGED <<docs, expired, wanted, clicked, withdrawn, cutShort, swept,
                   agreed, raced>>
  BY CallIs DEF TransferInv, RereadUser
<1>2. \A v, s : ~ Confirming(h, v, s)
  BY <1>1 DEF Confirming
<1>3. CASE request[u] = NoTransfer
  <2>1. Becoming(h, Idle)
    BY <1>1, <1>3, EndsIs DEF RereadUser
  <2>2. \A v \in Users : Undisturbed(v) => ~ Completing(h, v)
    BY <1>3 DEF Undisturbed, Completing
  <2> QED BY <1>1, <1>2, <2>1, <2>2, HandlerKeepsInv DEF Idle, CallOK, TransferTypeOK
<1>4. CASE request[u] # NoTransfer
  <2> DEFINE c == [calls[h] EXCEPT !.pc = "write", !.transfer = request[u]]
  <2>1. u \in Users /\ request[u] \in Transfers \union {NoTransfer}
    BY <1>1 DEF TransferTypeOK, Call
  <2>2. c \in Call /\ c.pc = "write" /\ c.user = u /\ CallOK(c)
    BY <1>1, <1>4, <2>1 DEF Call, CallPcs, CallOK
  <2>3. calls' = [calls EXCEPT ![h] = c]
    BY <1>4 DEF RereadUser
  <2> HIDE DEF c
  <2>4. Becoming(h, c)
    BY <1>1, <2>2, <2>3 DEF Becoming, TransferTypeOK
  <2>5. \A v \in Users : Completing(h, v) => Completing(h, v)'
    BY <2>2, <2>4 DEF Completing, Becoming
  <2> QED BY <1>1, <1>2, <2>2, <2>4, <2>5, HandlerKeepsInv DEF TransferTypeOK
<1> QED BY <1>3, <1>4

LEMMA ThrowKeepsInv ==
  ASSUME TransferInv, NEW h \in Handlers, Throw(h)
  PROVE  TransferInv'
<1>1. /\ TransferTypeOK /\ calls[h] # Idle /\ Becoming(h, Idle)
      /\ UNCHANGED <<docs, expired, wanted, clicked, withdrawn, swept, agreed, raced>>
  BY EndsIs DEF TransferInv, Throw
<1>2. calls[h].user \in Users
  BY <1>1, CallIs
<1>3. cutShort \subseteq cutShort' /\ cutShort' \subseteq Users
  BY <1>1, <1>2 DEF Throw, TransferTypeOK
<1>4. \A u \in Users \ cutShort' :
        ~ Completing(h, u) /\ \A s \in Sides : ~ Confirming(h, u, s)
  BY DEF Throw, Completing, Confirming
<1> QED BY <1>1, <1>3, <1>4, HandlerKeepsInv DEF Idle, CallOK

LEMMA LookKeepsInv ==
  ASSUME TransferInv, NEW h \in Handlers, NEW s \in Sides, Look(h, s)
  PROVE  TransferInv'
<1>0. PICK u : u = calls[h].user
  OBVIOUS
<1> DEFINE looked == calls[h].looked \union {s}
           saw == calls[h].saw \union {x \in {s} : <<u, x>> \in confirmations}
<1>1. TransferTypeOK /\ calls[h].pc = "check" /\ calls[h] \in Call /\ s \notin calls[h].looked
      /\ UNCHANGED <<docs, expired, wanted, clicked, withdrawn, cutShort, swept,
                   agreed, raced>>
  BY CallIs DEF TransferInv, Look
<1>2. \A v, x : ~ Confirming(h, v, x)
  BY <1>1 DEF Confirming
<1>3. u \in Users /\ looked \in SUBSET Sides /\ saw \in SUBSET Sides
  BY <1>0, <1>1 DEF Call
<1>4. ASSUME Undisturbed(u), Completing(h, u), \A x \in Sides : <<request[u], x>> \in clicked
      PROVE  saw = looked \/ \E g \in Handlers : g # h /\ Completing(g, u)
  <2>1. <<u, s>> \in confirmations \/ \E g \in Handlers : Confirming(g, u, s)
    BY <1>3, <1>4 DEF TransferInv, ConfirmInv
  <2>2. CASE <<u, s>> \in confirmations
    BY <1>1, <1>4, <2>2 DEF Completing
  <2>3. ASSUME NEW g \in Handlers, Confirming(g, u, s)
        PROVE  g # h /\ Completing(g, u)
    BY <1>2, <2>3 DEF Confirming, Completing
  <2> QED BY <2>1, <2>2, <2>3
<1>5. \A v \in Users : Completing(h, v) => v = u
  BY <1>0 DEF Completing
<1>6. CASE looked = Sides /\ saw # Sides
  <2>1. Becoming(h, Idle)
    BY <1>0, <1>1, <1>6, EndsIs DEF Look
  <2> QED BY <1>1, <1>2, <1>4, <1>5, <1>6, <2>1, HandlerKeepsInv DEF Idle, CallOK, TransferTypeOK
<1>7. CASE looked = Sides /\ saw = Sides
  <2> DEFINE c == [calls[h] EXCEPT !.pc = "reread", !.looked = {}, !.saw = {}]
  <2>1. c \in Call /\ c.pc = "reread" /\ c.user = u
    BY <1>0, <1>1 DEF Call, CallPcs
  <2>2. calls' = [calls EXCEPT ![h] = c]
    BY <1>0, <1>7 DEF Look
  <2> HIDE DEF c
  <2>3. Becoming(h, c)
    BY <1>1, <2>1, <2>2 DEF Becoming, TransferTypeOK
  <2>4. Completing(h, u)'
    BY <2>1, <2>3 DEF Completing, Becoming
  <2>5. \A v \in Users : Completing(h, v) => Completing(h, v)'
    BY <1>5, <2>4
  <2>6. CallOK(c)
    BY <2>1 DEF CallOK
  <2> QED BY <1>1, <1>2, <2>3, <2>5, <2>6, HandlerKeepsInv DEF TransferTypeOK
<1>8. CASE looked # Sides
  <2> DEFINE c == [calls[h] EXCEPT !.looked = looked, !.saw = saw]
  <2>1. c \in Call /\ c.pc = "check" /\ c.user = u /\ c.looked = looked /\ c.saw = saw
    BY <1>0, <1>1, <1>3 DEF Call, CallPcs
  <2>2. calls' = [calls EXCEPT ![h] = c]
    BY <1>0, <1>8 DEF Look
  <2> HIDE DEF c
  <2>3. Becoming(h, c)
    BY <1>1, <2>1, <2>2 DEF Becoming, TransferTypeOK
  <2>4. saw = looked => Completing(h, u)'
    BY <2>1, <2>3 DEF Completing, Becoming
  <2>5. \A v \in Users :
          /\ Undisturbed(v) /\ Completing(h, v)
          /\ \A x \in Sides : <<request[v], x>> \in clicked
          => Completing(h, v)' \/ \E g \in Handlers : g # h /\ Completing(g, v)
    BY <1>4, <1>5, <2>4
  <2>6. CallOK(c)
    BY <1>8, <2>1 DEF CallOK
  <2> QED BY <1>1, <1>2, <2>3, <2>5, <2>6, HandlerKeepsInv DEF TransferTypeOK
<1> QED BY <1>6, <1>7, <1>8

LEMMA ReadUserKeepsInv ==
  ASSUME TransferInv, NEW h \in Handlers, ReadUser(h)
  PROVE  TransferInv'
<1>0. PICK c : c = calls[h]
  OBVIOUS
<1>1. /\ TransferTypeOK /\ RequestInv /\ c.pc = "read" /\ c \in Call /\ calls[h] # Idle
      /\ UNCHANGED <<docs, expired, wanted, withdrawn, cutShort, swept, raced>>
  BY <1>0, CallIs DEF TransferInv, ReadUser
<1>2. /\ c.user \in Users /\ c.side \in Sides /\ c.transfer \in Transfers
      /\ \A v, s : ~ Confirming(h, v, s) /\ ~ Completing(h, v)
  BY <1>0, <1>1 DEF Call, TransferInv, CallsInv, CallOK, Confirming, Completing
<1>3. CASE UNCHANGED <<clicked, agreed>> /\ (Moves(h, "clear") \/ Ends(h))
  <2>1. PICK d : Becoming(h, d) /\ CallOK(d)
    <3>1. CASE Moves(h, "clear")
      BY <1>1, <3>1, MovesIs DEF CallPcs, CallOK
    <3>2. CASE Ends(h)
      BY <1>1, <3>2, EndsIs DEF Idle, CallOK
    <3> QED BY <1>3, <3>1, <3>2
  <2> QED BY <1>1, <1>2, <1>3, <2>1, HandlerKeepsInv DEF TransferTypeOK
<1>4. CASE /\ request[c.user] = c.transfer /\ Moves(h, "upsert")
           /\ clicked' = clicked \union {<<c.transfer, c.side>>}
           /\ agreed' = agreed \union {<<c.user, c.side>>}
  <2>1. PICK d \in Call :
          /\ Becoming(h, d)
          /\ d.pc = "upsert" /\ d.user = c.user /\ d.side = c.side /\ CallOK(d)
    BY <1>0, <1>1, <1>4, MovesIs DEF CallPcs, CallOK, TransferInv, CallsInv
  <2>2. UNCHANGED <<email, request, confirmations>>
    BY <1>1 DEF docs
  <2>3. TransferTypeOK'
    BY <1>1, <1>2, <1>4, <2>1, <2>2 DEF TransferTypeOK, Becoming
  <2>4. c.transfer # NoTransfer /\ wanted[c.transfer].pc = "stored"
        /\ \A v \in Users : v # c.user => request[v] # c.transfer
    BY <1>1, <1>2, <1>4, TransferConstants DEF RequestInv
  <2>5. RequestInv'
    BY <1>1, <1>4, <2>2, <2>4 DEF RequestInv
  <2>6. CallsInv'
    BY <2>1, CallsInvKept DEF TransferInv
  <2>7. ConfirmInv'
    <3> SUFFICES ASSUME NEW v \in Users, Undisturbed(v)'
                 PROVE  /\ \A s \in Sides : <<request[v], s>> \in clicked' =>
                             <<v, s>> \in confirmations \/ \E g \in Handlers : Confirming(g, v, s)'
                        /\ (\A s \in Sides : <<request[v], s>> \in clicked') =>
                             \E g \in Handlers : Completing(g, v)'
      BY <2>2 DEF ConfirmInv
    <3>1. Undisturbed(v)
      BY <1>1, <2>2 DEF Undisturbed
    <3>2. /\ \A s \in Sides : <<request[v], s>> \in clicked =>
               <<v, s>> \in confirmations \/ \E g \in Handlers : Confirming(g, v, s)
          /\ (\A s \in Sides : <<request[v], s>> \in clicked) =>
               \E g \in Handlers : Completing(g, v)
      BY <3>1 DEF TransferInv, ConfirmInv
    <3>3. \A g \in Handlers : g # h =>
            /\ \A s : Confirming(g, v, s)' <=> Confirming(g, v, s)
            /\ Completing(g, v)' <=> Completing(g, v)
      BY <2>1, OthersGoOn
    <3>4. CASE v = c.user
      <4>1. Confirming(h, v, c.side)' /\ Completing(h, v)'
        BY <2>1, <3>4 DEF Becoming, Confirming, Completing
      <4> QED BY <1>2, <1>4, <3>2, <3>3, <4>1
    <3>5. CASE v # c.user
      <4>1. \A s : <<request[v], s>> \in clicked' => <<request[v], s>> \in clicked
        BY <1>4, <2>4, <3>5
      <4> QED BY <1>2, <3>2, <3>3, <4>1
    <3> QED BY <3>4, <3>5
  <2> QED BY <2>3, <2>5, <2>6, <2>7 DEF TransferInv
<1> QED BY <1>0, <1>1, <1>3, <1>4 DEF ReadUser, TokenMatches

LEMMA ConfirmKeepsInv ==
  ASSUME TransferInv, NEW h \in Handlers, Confirm(h)
  PROVE  TransferInv'
<1>0. PICK c : c = calls[h]
  OBVIOUS
<1>1. /\ TransferTypeOK /\ c.pc = "upsert" /\ c \in Call /\ calls[h] # Idle
      /\ confirmations' = confirmations \union {<<c.user, c.side>>}
      /\ Moves(h, "check")
      /\ UNCHANGED <<email, request, expired, wanted, clicked, withdrawn, cutShort, swept,
                   agreed, raced>>
  BY <1>0, CallIs DEF TransferInv, Confirm, Marked
<1>2. PICK d \in Call :
        /\ Becoming(h, d) /\ d.pc = "check" /\ d.user = c.user
        /\ d.looked = {} /\ d.saw = {}
  BY <1>0, <1>1, MovesIs DEF CallPcs, CallOK, TransferInv, CallsInv
<1>3. c.user \in Users /\ c.side \in Sides
  BY <1>1 DEF Call
<1>4. TransferTypeOK'
  BY <1>1, <1>2, <1>3 DEF TransferTypeOK, Becoming
<1>5. CallsInv'
  BY <1>2, CallsInvKept DEF TransferInv, CallOK, Sides
<1>6. ConfirmInv'
  <2> SUFFICES ASSUME NEW v \in Users, Undisturbed(v)'
               PROVE  /\ \A s \in Sides : <<request[v], s>> \in clicked =>
                           \/ <<v, s>> \in confirmations'
                           \/ \E g \in Handlers : Confirming(g, v, s)'
                      /\ (\A s \in Sides : <<request[v], s>> \in clicked) =>
                           \E g \in Handlers : Completing(g, v)'
    BY <1>1 DEF ConfirmInv
  <2>1. Undisturbed(v)
    BY <1>1 DEF Undisturbed
  <2>2. /\ \A s \in Sides : <<request[v], s>> \in clicked =>
             <<v, s>> \in confirmations \/ \E g \in Handlers : Confirming(g, v, s)
        /\ (\A s \in Sides : <<request[v], s>> \in clicked) =>
             \E g \in Handlers : Completing(g, v)
    BY <2>1 DEF TransferInv, ConfirmInv
  <2>3. \A g \in Handlers : g # h =>
          /\ \A s : Confirming(g, v, s)' <=> Confirming(g, v, s)
          /\ Completing(g, v)' <=> Completing(g, v)
    BY <1>2, OthersGoOn
  <2>4. \A s : Confirming(h, v, s) => <<v, s>> \in confirmations'
    BY <1>0, <1>1 DEF Confirming
  <2>5. Completing(h, v) => Completing(h, v)'
    BY <1>0, <1>2 DEF Completing, Becoming
  <2> QED BY <1>1, <2>2, <2>3, <2>4, <2>5
<1>7. RequestInv'
  BY <1>1 DEF TransferInv, RequestInv
<1> QED BY <1>4, <1>5, <1>6, <1>7 DEF TransferInv

\* The steps that take the request out of the user document of u.
LEMMA RemovalKeepsInv ==
  ASSUME TransferInv, NEW h \in Handlers, NEW c, Becoming(h, c), CallOK(c),
         NEW u \in Users, request' = [request EXCEPT ![u] = NoTransfer],
         withdrawn \subseteq withdrawn',
         withdrawn' \subseteq withdrawn \union ({request[u]} \ {NoTransfer}),
         UNCHANGED <<confirmations, expired, wanted, clicked, cutShort, swept,
                     agreed, raced>>,
         email' \in [Users -> Emails],
         \A v \in Users \ {u} : ~ Completing(h, v) /\ \A s : ~ Confirming(h, v, s)
  PROVE  TransferInv'
<1>1. TransferTypeOK /\ RequestInv /\ ConfirmInv
  BY DEF TransferInv
<1>2. /\ request' \in [Users -> Transfers \union {NoTransfer}]
      /\ request'[u] = NoTransfer
      /\ \A v \in Users : v # u => request'[v] = request[v]
  BY <1>1 DEF TransferTypeOK
<1>3. TransferTypeOK'
  BY <1>1, <1>2 DEF TransferTypeOK, Becoming
<1>4. request[u] # NoTransfer =>
        /\ request[u] \in Transfers /\ wanted[request[u]].pc = "stored"
        /\ wanted[request[u]].user = u
  BY <1>1 DEF RequestInv, TransferTypeOK
<1>5. RequestInv'
  <2>1. \A v \in Users : request'[v] # NoTransfer =>
          /\ wanted[request'[v]].pc = "stored" /\ wanted[request'[v]].user = v
          /\ request'[v] \notin withdrawn'
    BY <1>1, <1>2, <1>4 DEF RequestInv
  <2>2. \A t \in withdrawn' : wanted[t].pc = "stored"
    BY <1>1, <1>4 DEF RequestInv
  <2> QED BY <1>1, <2>1, <2>2 DEF RequestInv
<1>6. CallsInv'
  BY CallsInvKept DEF TransferInv
<1>7. ConfirmInv'
  <2> SUFFICES ASSUME NEW v \in Users, Undisturbed(v)'
               PROVE  /\ \A s \in Sides : <<request'[v], s>> \in clicked =>
                           <<v, s>> \in confirmations \/ \E g \in Handlers : Confirming(g, v, s)'
                      /\ (\A s \in Sides : <<request'[v], s>> \in clicked) =>
                           \E g \in Handlers : Completing(g, v)'
    BY DEF ConfirmInv
  <2>1. v # u /\ Undisturbed(v) /\ request'[v] = request[v]
    BY <1>2 DEF Undisturbed
  <2>2. /\ \A s \in Sides : <<request[v], s>> \in clicked =>
             <<v, s>> \in confirmations \/ \E g \in Handlers : Confirming(g, v, s)
        /\ (\A s \in Sides : <<request[v], s>> \in clicked) =>
             \E g \in Handlers : Completing(g, v)
    BY <1>1, <2>1 DEF ConfirmInv
  <2>3. \A g \in Handlers : g # h =>
          /\ \A s : Confirming(g, v, s)' <=> Confirming(g, v, s)
          /\ Completing(g, v)' <=> Completing(g, v)
    BY OthersGoOn
  <2> QED BY <2>1, <2>2, <2>3
<1> QED BY <1>3, <1>5, <1>6, <1>7 DEF TransferInv

LEMMA RemoveKeepsInv ==
  ASSUME TransferInv, NEW h \in Handlers,
         ClearRequest(h) \/ Withdraw(h) \/ WriteEmail(h)
  PROVE  TransferInv'
<1>0. PICK u : u = calls[h].user
  OBVIOUS
<1>1. /\ TransferTypeOK /\ calls[h].pc \in {"clear", "withdraw", "write"} /\ calls[h] # Idle
      /\ calls[h] \in Call /\ u \in Users
  BY <1>0, CallIs DEF TransferInv, ClearRequest, Withdraw, WriteEmail, Idle
<1>2. /\ request' = [request EXCEPT ![u] = NoTransfer]
      /\ withdrawn \subseteq withdrawn'
      /\ withdrawn' \subseteq withdrawn \union ({request[u]} \ {NoTransfer})
      /\ UNCHANGED <<confirmations, expired, wanted, clicked, cutShort, swept,
                   agreed, raced>>
      /\ Ends(h) \/ Moves(h, "clean")
  BY <1>0 DEF ClearRequest, Withdraw, WriteEmail, NoRequest
<1>3. \A v \in Users \ {u} : ~ Completing(h, v) /\ \A s : ~ Confirming(h, v, s)
  BY <1>0 DEF Completing, Confirming
<1>4. PICK c : Becoming(h, c) /\ CallOK(c)
  <2>1. CASE Ends(h)
    BY <1>1, <2>1, EndsIs DEF Idle, CallOK
  <2>2. CASE Moves(h, "clean")
    BY <1>1, <2>2, MovesIs DEF CallPcs, CallOK
  <2> QED BY <1>2, <2>1, <2>2
<1>5. email' \in [Users -> Emails]
  <2>1. CASE ClearRequest(h) \/ Withdraw(h)
    BY <1>1, <2>1 DEF ClearRequest, Withdraw, TransferTypeOK
  <2>2. CASE WriteEmail(h)
    <3>1. calls[h].transfer \in Transfers
      BY <1>1, <2>2 DEF WriteEmail, TransferInv, CallsInv, CallOK, Call
    <3> QED BY <1>1, <2>2, <3>1 DEF WriteEmail, TransferTypeOK
  <2> QED BY <2>1, <2>2
<1> QED BY <1>1, <1>2, <1>3, <1>4, <1>5, RemovalKeepsInv

LEMMA DeleteKeepsInv ==
  ASSUME TransferInv, NEW h \in Handlers, DeleteConfirmations(h)
  PROVE  TransferInv'
<1>0. PICK u : u = calls[h].user
  OBVIOUS
<1>1. /\ TransferTypeOK /\ calls[h].pc = "clean" /\ calls[h] \in Call /\ u \in Users
      /\ confirmations' = confirmations \ ({u} \X Sides)
      /\ swept' = swept \union {v \in {u} : request[v] # NoTransfer}
      /\ UNCHANGED <<email, request, expired, wanted, clicked, withdrawn, cutShort>>
      /\ agreed' = agreed \ ({u} \X Sides)
      /\ raced' = raced \union {v \in {u} : Overtakes(h)}
  BY <1>0, CallIs DEF TransferInv, DeleteConfirmations, NotOf
<1>2. Becoming(h, Idle) /\ CallOK(Idle)
  BY <1>1, EndsIs DEF DeleteConfirmations, Idle, CallOK
<1>3. TransferTypeOK'
  BY <1>1, <1>2 DEF TransferTypeOK, Becoming
<1>4. CallsInv'
  BY <1>2, CallsInvKept DEF TransferInv
<1>5. ConfirmInv'
  <2> SUFFICES ASSUME NEW v \in Users, Undisturbed(v)'
               PROVE  /\ \A s \in Sides : <<request[v], s>> \in clicked =>
                           \/ <<v, s>> \in confirmations'
                           \/ \E g \in Handlers : Confirming(g, v, s)'
                      /\ (\A s \in Sides : <<request[v], s>> \in clicked) =>
                           \E g \in Handlers : Completing(g, v)'
    BY <1>1 DEF ConfirmInv
  <2>1. v # u /\ Undisturbed(v)
    BY <1>1 DEF Undisturbed
  <2>2. /\ \A s \in Sides : <<request[v], s>> \in clicked =>
             <<v, s>> \in confirmations \/ \E g \in Handlers : Confirming(g, v, s)
        /\ (\A s \in Sides : <<request[v], s>> \in clicked) =>
             \E g \in Handlers : Completing(g, v)
    BY <2>1 DEF TransferInv, ConfirmInv
  <2>3. \A g \in Handlers : g # h =>
          /\ \A s : Confirming(g, v, s)' <=> Confirming(g, v, s)
          /\ Completing(g, v)' <=> Completing(g, v)
    BY <1>2, OthersGoOn
  <2>4. ~ Completing(h, v) /\ \A s : ~ Confirming(h, v, s)
    BY <1>1 DEF Completing, Confirming
  <2> QED BY <1>1, <2>1, <2>2, <2>3, <2>4
<1>6. RequestInv'
  BY <1>1 DEF TransferInv, RequestInv
<1> QED BY <1>3, <1>4, <1>5, <1>6 DEF TransferInv

-----------------------------------------------------------------------------
(* EmailTransfer: the theorems. *)

LEMMA TransferInitInv == TransferInit => TransferInv
<1> SUFFICES ASSUME TransferInit PROVE TransferInv
  OBVIOUS
<1>1. \A h \in Handlers : calls[h] = Idle
  BY DEF TransferInit
<1>2. TransferTypeOK
  BY TransferConstants DEF TransferInit, TransferTypeOK
<1>3. RequestInv /\ ConfirmInv
  BY DEF TransferInit, RequestInv, ConfirmInv, Undisturbed
<1>4. CallsInv
  BY <1>1 DEF CallsInv, CallOK, Idle
<1> QED BY <1>2, <1>3, <1>4 DEF TransferInv

LEMMA TransferNextInv == TransferInv /\ [TransferNext]_transferVars => TransferInv'
<1> SUFFICES ASSUME TransferInv, [TransferNext]_transferVars PROVE TransferInv'
  OBVIOUS
<1>1. ASSUME NEW t \in Transfers, Ask(t) \/ CheckAddress(t) \/ StoreRequest(t) \/ Expire(t)
      PROVE  TransferInv'
  BY <1>1, AskKeepsInv, StoreKeepsInv
<1>2. ASSUME NEW h \in Handlers,
             \/ \E t \in Transfers, s \in Sides : Click(h, t, s)
             \/ \E u \in Users : Cancel(h, u)
      PROVE  TransferInv'
  BY <1>2, ArriveKeepsInv
<1>3. ASSUME NEW h \in Handlers, \E s \in Sides : Look(h, s)
      PROVE  TransferInv'
  BY <1>3, LookKeepsInv
<1>4. ASSUME NEW h \in Handlers,
             ReadUser(h) \/ Confirm(h) \/ RereadUser(h) \/ DeleteConfirmations(h) \/ Throw(h)
      PROVE  TransferInv'
  BY <1>4, ReadUserKeepsInv, ConfirmKeepsInv, RereadKeepsInv, DeleteKeepsInv, ThrowKeepsInv
<1>5. ASSUME NEW h \in Handlers, ClearRequest(h) \/ Withdraw(h) \/ WriteEmail(h)
      PROVE  TransferInv'
  BY <1>5, RemoveKeepsInv
<1>6. CASE UNCHANGED transferVars
  <2>1. UNCHANGED <<email, request, confirmations, expired, wanted, calls, clicked, withdrawn,
                    cutShort, swept, agreed, raced>>
    BY <1>6 DEF transferVars, docs
  <2>2. TransferTypeOK' /\ RequestInv' /\ CallsInv'
    BY <2>1 DEF TransferInv, TransferTypeOK, RequestInv, CallsInv, CallOK
  <2>3. ConfirmInv'
    BY <2>1 DEF TransferInv, ConfirmInv, Undisturbed, Confirming, Completing
  <2> QED BY <2>2, <2>3 DEF TransferInv
<1> QED BY <1>1, <1>2, <1>3, <1>4, <1>5, <1>6 DEF TransferNext

\* The stored transfers, the links followed and the confirmations under way agree
\* in every behaviour (EmailTransferService).
THEOREM TransferInvAlways == TransferSpec => []TransferInv
<1> QED BY TransferInitInv, TransferNextInv, PTL DEF TransferSpec

\* The documents of a transfer and the requests in progress keep their types
\* (EmailTransferService).
THEOREM TransferTypeCorrect == TransferSpec => []TransferTypeOK
<1>1. TransferInv => TransferTypeOK
  BY DEF TransferInv
<1> QED BY <1>1, TransferInvAlways, PTL

\* A pending transfer whose two links were accepted has a handler at work, unless
\* one threw or a clean-up took a confirmation (checkAndCompleteTransfer).
THEOREM ConfirmationsAreHandled == TransferSpec => []ConfirmedIsHandled
<1>1. TransferInv => ConfirmedIsHandled
  <2> SUFFICES ASSUME TransferInv, NEW u \in Users, Undisturbed(u),
                      {request[u]} \X Sides \subseteq clicked
               PROVE  \E h \in Handlers : calls[h] # Idle /\ calls[h].user = u
    BY DEF ConfirmedIsHandled, Undisturbed
  <2>1. PICK h \in Handlers : Completing(h, u)
    BY DEF TransferInv, ConfirmInv
  <2> QED BY <2>1 DEF Completing, Idle
<1> QED BY <1>1, TransferInvAlways, PTL

LEMMA OnlyPendingIsTakenUp ==
  ASSUME TransferInv, [TransferNext]_transferVars, NEW h \in Handlers,
         calls'[h].pc = "write", calls[h].pc # "write"
  PROVE  calls'[h].transfer \notin withdrawn
<1>1. TransferTypeOK /\ calls' # calls
  BY DEF TransferInv
<1>2. PICK g \in Handlers : \/ \E t \in Transfers, s \in Sides : Click(g, t, s)
                            \/ \E s \in Sides : Look(g, s)
                            \/ \E u \in Users : Cancel(g, u)
                            \/ ReadUser(g) \/ ClearRequest(g) \/ Confirm(g) \/ RereadUser(g)
                            \/ WriteEmail(g) \/ DeleteConfirmations(g) \/ Throw(g) \/ Withdraw(g)
  BY <1>1 DEF TransferNext, Ask, CheckAddress, StoreRequest, Expire, transferVars
<1>3. TransferTypeOK /\ RequestInv /\ calls \in [Handlers -> Call \union {Idle}]
  BY DEF TransferInv, TransferTypeOK
<1>4. ASSUME NEW pc, pc # "write", Moves(g, pc)
      PROVE  FALSE
  BY <1>3, <1>4 DEF Moves, TransferTypeOK, Call, Idle
<1>5. ~ Ends(g)
  BY <1>3 DEF Ends, Idle
<1>6. \A t \in Transfers, s \in Sides : ~ Click(g, t, s)
  BY <1>3 DEF Click
<1>7. \A u \in Users : ~ Cancel(g, u)
  BY <1>3 DEF Cancel
<1>8. \A s \in Sides : ~ Look(g, s)
  <2> SUFFICES ASSUME NEW s \in Sides, Look(g, s) PROVE FALSE
    OBVIOUS
  <2>1. calls[g].pc = "check" /\ calls[g] \in Call
    BY <1>3, CallIs DEF Look
  <2>2. PICK d : calls' = [calls EXCEPT ![g] = d] /\ d.pc # "write"
    BY <2>1, <1>5 DEF Look, Call
  <2> QED BY <1>3, <2>2
<1>9. RereadUser(g)
  BY <1>2, <1>4, <1>5, <1>6, <1>7, <1>8
     DEF ReadUser, ClearRequest, Confirm, WriteEmail, DeleteConfirmations, Throw, Withdraw
<1>10. PICK u : u = calls[g].user
  OBVIOUS
<1>11. /\ request[u] # NoTransfer
       /\ calls' = [calls EXCEPT ![g].pc = "write", ![g].transfer = request[u]]
       /\ calls[g] \in Call /\ u \in Users
  BY <1>3, <1>5, <1>9, <1>10, CallIs DEF RereadUser, Idle
<1>12. h = g /\ calls'[h].transfer = request[u]
  BY <1>3, <1>11 DEF Call
<1> QED BY <1>3, <1>11, <1>12 DEF RequestInv

\* No confirmation takes up a transfer that was cancelled, replaced or cleared
\* before it read the user document again (completeTransfer).
THEOREM OnlyPendingIsWritten == TransferSpec => WithdrawnIsNotTakenUp
<1>1. TransferInv /\ [TransferNext]_transferVars =>
        [ \A h \in Handlers :
            calls'[h].pc = "write" /\ calls[h].pc # "write"
              => calls'[h].transfer \notin withdrawn ]_calls
  BY OnlyPendingIsTakenUp
<1> QED BY <1>1, TransferInvAlways, PTL DEF TransferSpec, WithdrawnIsNotTakenUp

-----------------------------------------------------------------------------
(* EmailTransfer: what an address is changed on.                           *)
(*                                                                         *)
(* A confirmation, or what a handler took from one, goes back to a link    *)
(* accepted since the clean-up, but for users whose clean-up overtook a    *)
(* handler.                                                                *)

\* Handler h has side s of user u in hand: accepted, or found confirmed.
InHand(h, u, s) ==
  /\ calls[h].user = u
  /\ \/ calls[h].pc = "upsert" /\ calls[h].side = s
     \/ calls[h].pc = "check" /\ s \in calls[h].saw
     \/ calls[h].pc \in {"reread", "write"}

AgreedInv ==
  \A u \in Users \ raced, s \in Sides :
    <<u, s>> \in confirmations \/ (\E h \in Handlers : InHand(h, u, s))
      => <<u, s>> \in agreed

\* A step of a handler that takes nothing in hand, and writes nothing down, but
\* what it had in hand, was written down, or is agreed by then.
LEMMA HandlerKeepsAgreed ==
  ASSUME AgreedInv, NEW h \in Handlers, NEW c, Becoming(h, c),
         agreed \subseteq agreed', UNCHANGED raced,
         \A u \in Users, s \in Sides :
           <<u, s>> \in confirmations' \/ InHand(h, u, s)'
             => <<u, s>> \in confirmations \union agreed' \/ InHand(h, u, s)
  PROVE  AgreedInv'
<1> SUFFICES ASSUME NEW u \in Users \ raced, NEW s \in Sides,
                    <<u, s>> \in confirmations' \/ \E g \in Handlers : InHand(g, u, s)'
             PROVE  <<u, s>> \in agreed'
  BY DEF AgreedInv
<1>1. \A g \in Handlers : g # h /\ InHand(g, u, s)' => InHand(g, u, s)
  BY DEF Becoming, InHand
<1>2. <<u, s>> \in confirmations \union agreed' \/ \E g \in Handlers : InHand(g, u, s)
  BY <1>1
<1> QED BY <1>2 DEF AgreedInv

LEMMA LookKeepsAgreed ==
  ASSUME TransferInv, AgreedInv, NEW h \in Handlers, NEW s \in Sides, Look(h, s)
  PROVE  AgreedInv'
<1>0. PICK u : u = calls[h].user
  OBVIOUS
<1> DEFINE looked == calls[h].looked \union {s}
           saw == calls[h].saw \union {x \in {s} : <<u, x>> \in confirmations}
<1>1. /\ TransferTypeOK /\ calls[h].pc = "check" /\ calls[h] \in Call
      /\ UNCHANGED <<confirmations, agreed, raced>>
  BY CallIs DEF TransferInv, Look, docs
<1>2. u \in Users /\ looked \in SUBSET Sides /\ saw \in SUBSET Sides
  BY <1>0, <1>1 DEF Call
<1>3. \A x \in saw : <<u, x>> \in confirmations \/ InHand(h, u, x)
  BY <1>0, <1>1 DEF InHand
<1>4. CASE looked = Sides /\ saw # Sides
  <2>1. Becoming(h, Idle)
    BY <1>0, <1>1, <1>4, EndsIs DEF Look
  <2>2. \A v, x : ~ InHand(h, v, x)'
    BY <2>1 DEF Becoming, InHand, Idle
  <2> QED BY <1>1, <2>1, <2>2, HandlerKeepsAgreed
<1>5. CASE ~ (looked = Sides /\ saw # Sides)
  <2> DEFINE c == IF looked = Sides
                  THEN [calls[h] EXCEPT !.pc = "reread", !.looked = {}, !.saw = {}]
                  ELSE [calls[h] EXCEPT !.looked = looked, !.saw = saw]
  <2>1. /\ c \in Call /\ c.user = u
        /\ \/ c.pc = "reread" /\ saw = Sides
           \/ c.pc = "check" /\ c.saw = saw
    BY <1>0, <1>1, <1>2, <1>5 DEF Call, CallPcs
  <2>2. calls' = [calls EXCEPT ![h] = c]
    BY <1>0, <1>5 DEF Look
  <2> HIDE DEF c
  <2>3. Becoming(h, c)
    BY <1>1, <2>1, <2>2 DEF Becoming, TransferTypeOK
  <2>4. \A v \in Users, x \in Sides : InHand(h, v, x)' => v = u /\ x \in saw
    BY <2>1, <2>3 DEF Becoming, InHand
  <2> QED BY <1>1, <1>3, <2>3, <2>4, HandlerKeepsAgreed
<1> QED BY <1>4, <1>5

LEMMA DeleteKeepsAgreed ==
  ASSUME TransferInv, AgreedInv, NEW h \in Handlers, DeleteConfirmations(h)
  PROVE  AgreedInv'
<1>0. PICK u : u = calls[h].user
  OBVIOUS
<1>1. /\ TransferTypeOK /\ CallsInv /\ calls[h].pc = "clean"
      /\ confirmations' = confirmations \ ({u} \X Sides)
      /\ agreed' = agreed \ ({u} \X Sides)
      /\ raced' = raced \union {v \in {u} : Overtakes(h)}
  BY <1>0 DEF TransferInv, DeleteConfirmations, NotOf
<1>2. Becoming(h, Idle)
  BY <1>1, EndsIs DEF DeleteConfirmations
<1> SUFFICES ASSUME NEW v \in Users \ raced', NEW s \in Sides,
                    <<v, s>> \in confirmations' \/ \E g \in Handlers : InHand(g, v, s)'
             PROVE  <<v, s>> \in agreed'
  BY DEF AgreedInv
<1>3. ASSUME NEW g \in Handlers, InHand(g, v, s)'
      PROVE  g # h /\ InHand(g, v, s)
  BY <1>2, <1>3 DEF Becoming, InHand, Idle
<1>4. v # u
  <2> SUFFICES ASSUME v = u PROVE FALSE
    OBVIOUS
  <2>1. ~ Overtakes(h) /\ <<v, s>> \notin confirmations'
    BY <1>1
  <2>2. PICK g \in Handlers : g # h /\ InHand(g, v, s)
    BY <1>3, <2>1
  <2>3. calls[g] # Idle /\ calls[g].user = calls[h].user
    BY <1>0, <2>2 DEF InHand, Idle
  <2>4. calls[g].pc \in {"upsert", "reread", "write"} \/ calls[g].saw # {}
    BY <2>2 DEF InHand
  <2> QED BY <2>1, <2>2, <2>3, <2>4 DEF Overtakes
<1>5. <<v, s>> \in agreed
  BY <1>1, <1>3 DEF AgreedInv
<1> QED BY <1>1, <1>4, <1>5

LEMMA StepKeepsAgreed ==
  TransferInv /\ AgreedInv /\ [TransferNext]_transferVars => AgreedInv'
<1> SUFFICES ASSUME TransferInv, AgreedInv, [TransferNext]_transferVars PROVE AgreedInv'
  OBVIOUS
<1>1. TransferTypeOK /\ CallsInv
  BY DEF TransferInv
<1>2. ASSUME UNCHANGED <<confirmations, calls, agreed, raced>>
      PROVE  AgreedInv'
  BY <1>2 DEF AgreedInv, InHand
<1>3. ASSUME NEW t \in Transfers, Ask(t) \/ CheckAddress(t) \/ StoreRequest(t) \/ Expire(t)
      PROVE  AgreedInv'
  BY <1>2, <1>3 DEF Ask, CheckAddress, StoreRequest, Expire, docs
<1>4. ASSUME NEW h \in Handlers, NEW c, Becoming(h, c),
             c.pc \notin {"upsert", "check", "reread", "write"},
             UNCHANGED <<confirmations, agreed, raced>>
      PROVE  AgreedInv'
  <2>1. \A v, x : ~ InHand(h, v, x)'
    BY <1>4 DEF Becoming, InHand
  <2> QED BY <1>4, <2>1, HandlerKeepsAgreed
<1>5. ASSUME NEW h \in Handlers,
             \/ \E t \in Transfers, s \in Sides : Click(h, t, s)
             \/ \E u \in Users : Cancel(h, u)
      PROVE  AgreedInv'
  <2>1. PICK c : calls' = [calls EXCEPT ![h] = c] /\ c.pc \in {"read", "withdraw"}
    <3>1. CASE \E t \in Transfers, s \in Sides : Click(h, t, s)
      <4>1. PICK t \in Transfers, s \in Sides : Click(h, t, s)
        BY <3>1
      <4> DEFINE c == [pc |-> "read", user |-> wanted[t].user, side |-> s,
                       transfer |-> t, looked |-> {}, saw |-> {}]
      <4>2. calls' = [calls EXCEPT ![h] = c] /\ c.pc = "read"
        BY <4>1 DEF Click
      <4> QED BY <4>2
    <3>2. CASE \E u \in Users : Cancel(h, u)
      <4>1. PICK u \in Users : Cancel(h, u)
        BY <3>2
      <4> DEFINE c == [pc |-> "withdraw", user |-> u, side |-> "old",
                       transfer |-> NoTransfer, looked |-> {}, saw |-> {}]
      <4>2. calls' = [calls EXCEPT ![h] = c] /\ c.pc = "withdraw"
        BY <4>1 DEF Cancel
      <4> QED BY <4>2
    <3> QED BY <1>5, <3>1, <3>2
  <2>2. calls' \in [Handlers -> Call \union {Idle}]
    BY <1>5, ArriveKeepsInv DEF TransferInv, TransferTypeOK
  <2>3. Becoming(h, c)
    BY <1>1, <2>1, <2>2 DEF Becoming, TransferTypeOK
  <2> QED BY <1>4, <1>5, <2>1, <2>3 DEF Click, Cancel, docs
<1>6. ASSUME NEW h \in Handlers, ReadUser(h)
      PROVE  AgreedInv'
  <2>1. calls[h] # Idle /\ UNCHANGED <<confirmations, raced>>
    BY <1>6 DEF ReadUser, Idle, docs
  <2>2. CASE UNCHANGED agreed /\ (Moves(h, "clear") \/ Ends(h))
    <3>1. PICK c : Becoming(h, c) /\ c.pc \in {"clear", "idle"}
      BY <1>1, <2>1, <2>2, MovesIs, EndsIs DEF CallPcs, Idle
    <3> QED BY <1>4, <2>1, <2>2, <3>1
  <2>3. CASE /\ Moves(h, "upsert")
             /\ agreed' = agreed \union {<<calls[h].user, calls[h].side>>}
    <3>1. PICK c \in Call : /\ Becoming(h, c) /\ c.pc = "upsert"
                            /\ c.user = calls[h].user /\ c.side = calls[h].side
      BY <1>1, <2>1, <2>3, MovesIs DEF CallPcs
    <3>2. \A v, x : InHand(h, v, x)' => <<v, x>> \in agreed'
      BY <2>3, <3>1 DEF Becoming, InHand
    <3> QED BY <2>1, <2>3, <3>1, <3>2, HandlerKeepsAgreed
  <2> QED BY <1>6, <2>2, <2>3 DEF ReadUser
<1>7. ASSUME NEW h \in Handlers, Confirm(h)
      PROVE  AgreedInv'
  <2>1. /\ calls[h] # Idle /\ calls[h].pc = "upsert" /\ Moves(h, "check")
        /\ confirmations' = confirmations \union {<<calls[h].user, calls[h].side>>}
        /\ UNCHANGED <<agreed, raced>>
    BY <1>7 DEF Confirm, Marked, Idle
  <2>2. PICK c \in Call : Becoming(h, c) /\ c.pc = "check" /\ c.saw = calls[h].saw
    BY <1>1, <2>1, MovesIs DEF CallPcs
  <2>3. c.saw = {}
    BY <1>1, <2>1, <2>2 DEF CallsInv, CallOK
  <2>4. \A v, x : ~ InHand(h, v, x)'
    BY <2>2, <2>3 DEF Becoming, InHand
  <2>5. \A v, x : <<v, x>> \in confirmations' => <<v, x>> \in confirmations \/ InHand(h, v, x)
    BY <2>1 DEF InHand
  <2> QED BY <2>1, <2>2, <2>4, <2>5, HandlerKeepsAgreed
<1>8. ASSUME NEW h \in Handlers, RereadUser(h)
      PROVE  AgreedInv'
  <2>1. /\ calls[h].pc = "reread" /\ calls[h] \in Call
        /\ UNCHANGED <<confirmations, agreed, raced>>
    BY <1>1, <1>8, CallIs DEF RereadUser, docs, Idle
  <2>2. CASE Ends(h)
    BY <1>1, <1>4, <2>1, <2>2, EndsIs DEF Idle
  <2>3. CASE ~ Ends(h)
    <3>1. PICK c : /\ c = [calls[h] EXCEPT !.pc = "write", !.transfer = request[calls[h].user]]
                   /\ calls' = [calls EXCEPT ![h] = c]
      BY <1>8, <2>3 DEF RereadUser
    <3>2. c \in Call /\ c.pc = "write" /\ c.user = calls[h].user
      BY <1>1, <2>1, <3>1 DEF TransferTypeOK, Call, CallPcs
    <3>3. Becoming(h, c)
      BY <1>1, <3>1, <3>2 DEF Becoming, TransferTypeOK
    <3>4. \A v, x : InHand(h, v, x)' => InHand(h, v, x)
      BY <2>1, <3>2, <3>3 DEF Becoming, InHand
    <3> QED BY <2>1, <3>3, <3>4, HandlerKeepsAgreed
  <2> QED BY <2>2, <2>3
<1>9. ASSUME NEW h \in Handlers, ClearRequest(h) \/ Withdraw(h) \/ WriteEmail(h) \/ Throw(h)
      PROVE  AgreedInv'
  <2>1. /\ calls[h] # Idle /\ UNCHANGED <<confirmations, agreed, raced>>
        /\ Ends(h) \/ Moves(h, "clean")
    BY <1>9 DEF ClearRequest, Withdraw, WriteEmail, Throw, docs, Idle
  <2>2. PICK c : Becoming(h, c) /\ c.pc \in {"clean", "idle"}
    BY <1>1, <2>1, MovesIs, EndsIs DEF CallPcs, Idle
  <2> QED BY <1>4, <2>1, <2>2
<1>10. ASSUME NEW h \in Handlers,
              (\E s \in Sides : Look(h, s)) \/ DeleteConfirmations(h)
       PROVE  AgreedInv'
  BY <1>10, LookKeepsAgreed, DeleteKeepsAgreed
<1>11. CASE UNCHANGED transferVars
  BY <1>2, <1>11 DEF transferVars, docs
<1> QED BY <1>3, <1>5, <1>6, <1>7, <1>8, <1>9, <1>10, <1>11 DEF TransferNext

\* What is written down, or in a handler's hands, goes back to accepted links
\* (EmailTransferService, email_transfer_confirmations).
THEOREM AgreedInvAlways == TransferSpec => [](TransferInv /\ AgreedInv)
<1>1. TransferInit => AgreedInv
  BY DEF TransferInit, AgreedInv, InHand, Idle
<1> QED BY <1>1, TransferInitInv, TransferNextInv, StepKeepsAgreed, PTL DEF TransferSpec

LEMMA WrittenIsAgreed ==
  ASSUME TransferInv, AgreedInv, [TransferNext]_transferVars,
         NEW u \in Users, email'[u] # email[u]
  PROVE  u \in raced \/ {u} \X Sides \subseteq agreed
<1>1. \A t \in Transfers : ~ (Ask(t) \/ CheckAddress(t) \/ StoreRequest(t) \/ Expire(t))
  BY DEF Ask, CheckAddress, StoreRequest, Expire, docs
<1>2. \A h \in Handlers :
        /\ \A t \in Transfers, s \in Sides : ~ Click(h, t, s)
        /\ \A s \in Sides : ~ Look(h, s)
        /\ \A v \in Users : ~ Cancel(h, v)
  BY DEF Click, Look, Cancel, docs
<1>3. \A h \in Handlers : ~ (ReadUser(h) \/ ClearRequest(h) \/ Confirm(h) \/ RereadUser(h))
  BY DEF ReadUser, ClearRequest, Confirm, RereadUser, docs
<1>4. \A h \in Handlers : ~ (DeleteConfirmations(h) \/ Throw(h) \/ Withdraw(h))
  BY DEF DeleteConfirmations, Throw, Withdraw, docs
<1>5. PICK h \in Handlers : WriteEmail(h)
  BY <1>1, <1>2, <1>3, <1>4 DEF TransferNext, transferVars, docs
<1>6. u = calls[h].user
  BY <1>5 DEF WriteEmail, TransferInv, TransferTypeOK
<1>7. \A s \in Sides : InHand(h, u, s)
  BY <1>5, <1>6 DEF WriteEmail, InHand
<1> QED BY <1>7 DEF AgreedInv

\* An address changes only on links of both sides that were accepted since the
\* clean-up before, unless the clean-up overtook a confirmation
\* (checkAndCompleteTransfer).
THEOREM ChangesAreConfirmed == TransferSpec => ChangeIsConfirmed
<1>1. TransferInv /\ AgreedInv /\ [TransferNext]_transferVars =>
        [ \A u \in Users :
            email'[u] # email[u] => u \in raced \/ {u} \X Sides \subseteq agreed ]_email
  BY WrittenIsAgreed
<1> QED BY <1>1, AgreedInvAlways, PTL DEF TransferSpec, ChangeIsConfirmed

-----------------------------------------------------------------------------
(* ExtensionSync: what the ledger says.                                    *)

EntryReal(e) == e.status = "failed" => sync[e.run] \in {"failed", "unreadyEntry"}

HasRun(L, r) == \E i \in 1 .. Len(L) : L[i].run = r
OneEach(L) == \A i, j \in 1 .. Len(L) : L[i].run = L[j].run => i = j
Real(L) == \A i \in 1 .. Len(L) : EntryReal(L[i])

\* An entry begins with the append of its sync, which has not been set while
\* the sync is new.
AppendInv ==
  /\ \A u \in updates : u.kind = "append" =>
       /\ sync[u.owner] = "new"
       /\ \E n \in Rounds : round[n].run = u.owner
       /\ u.next = Kept(<<[run |-> u.owner, status |-> "in_progress"]>> \o u.read)
       /\ ~ HasRun(u.read, u.owner)
  /\ \A u, v \in updates : u.kind = "append" /\ v.kind = "append" /\ u.owner = v.owner => u = v
  /\ \A r \in Syncs : sync[r] = "new" =>
       /\ ~ HasRun(ledger, r)
       /\ \A u \in updates : HasRun(u.next, r) => u.kind = "append" /\ u.owner = r

\* Another operation changes one status, to failed.
AmendInv ==
  \A u \in updates : u.kind # "append" =>
    /\ Len(u.next) = Len(u.read) /\ Len(u.next) <= MaxSyncs
    /\ \A i \in 1 .. Len(u.next) :
         /\ u.next[i].run = u.read[i].run
         /\ u.next[i] # u.read[i] => u.next[i].status = "failed"

RealInv ==
  /\ Real(ledger) /\ OneEach(ledger)
  /\ \A u \in updates : Real(u.next) /\ OneEach(u.next)
  /\ \A m \in messages :
       IF m.status = "success" THEN m.id = NoSync
       ELSE m.id = m.about /\ sync[m.about] = "failed"

\* Without a mishap a sync is started once, and its round stays with it until
\* it runs or is recorded as unready.
StartedInv ==
  ~ mishap =>
    /\ \A i, j \in 1 .. Len(started) : started[i] = started[j] => i = j
    /\ \A i \in 1 .. Len(started) :
         sync[started[i]] # "new" \/ \E n \in Rounds : round[n].run = started[i]

\* The newest entry of L is that of the k-th sync.
NewestIs(L, k) ==
  /\ k \in 0 .. Len(started)
  /\ IF L = << >> THEN k = 0 ELSE k > 0 /\ L[1].run = started[k]

\* L has the newest of the first k syncs.
Holds(L, k) ==
  /\ k \in 0 .. Len(started)
  /\ Len(L) = IF k > MaxSyncs THEN MaxSyncs ELSE k
  /\ \A i \in 1 .. Len(L) : L[i].run = started[k + 1 - i]

\* An append whose array is older than the ledger: it will overwrite.
Doomed(u) ==
  /\ u.kind = "append"
  /\ \E j, k \in 0 .. Len(started) : NewestIs(u.read, j) /\ NewestIs(ledger, k) /\ j < k

OrderInv ==
  ~ mishap =>
    /\ \E k \in 0 .. Len(started) :
         /\ NewestIs(ledger, k)
         /\ \A u \in updates : \E j \in 0 .. k :
              /\ NewestIs(u.read, j)
              /\ u.kind = "append" => \E i \in 1 .. Len(started) : u.owner = started[i] /\ i > j
    /\ (\A u \in updates : ~ Doomed(u)) =>
         \E k \in 0 .. Len(started) :
           /\ Holds(ledger, k)
           /\ \A i \in k + 1 .. Len(started) : \E u \in updates :
                u.kind = "append" /\ u.owner = started[i]

AllFailed(L, r) == \A i \in 1 .. Len(L) : L[i].run = r => L[i].status = "failed"

\* The failure of r is in the ledger, in an update or on its way to one.
FailureKnown(r) ==
  \/ AllFailed(ledger, r)
  \/ \E m \in messages : m.about = r /\ m.status = "failed"
  \/ \E u \in updates : u.owner = r /\ u.kind # "append" /\ AllFailed(u.next, r)

FailedInv ==
  ~ mishap =>
    \A r \in Syncs : sync[r] \in {"failed", "unreadyEntry"} => FailureKnown(r)

ExtInv ==
  ExtTypeOK /\ AppendInv /\ AmendInv /\ RealInv /\ StartedInv /\ OrderInv /\ FailedInv

(* The operations on the ledger, by index. *)

WithNewest(L, r) == Kept(<<[run |-> r, status |-> "in_progress"]>> \o L)
WithStatus(k, status) == [ledger EXCEPT ![k].status = status]

LEMMA IndexOfIs ==
  ASSUME ExtTypeOK, NEW id
  PROVE  /\ IndexOf(id) \in 0 .. Len(ledger)
         /\ IndexOf(id) = 0 <=> ~ HasRun(ledger, id)
         /\ IndexOf(id) # 0 => ledger[IndexOf(id)].run = id
<1> DEFINE I == {i \in 1 .. Len(ledger) : ledger[i].run = id}
<1>1. Len(ledger) \in Nat
  BY LenProperties DEF ExtTypeOK
<1>2. IndexOf(id) = IF I # {} THEN Min(I) ELSE 0
  BY DEF IndexOf, SelectInSeq
<1>3. I \in SUBSET Nat
  BY <1>1
<1>4. I # {} => Min(I) \in I
  BY <1>3, LeastExists DEF Min
<1>5. HasRun(ledger, id) <=> I # {}
  BY DEF HasRun
<1> HIDE DEF I
<1>6. \A i \in I : i \in 1 .. Len(ledger) /\ ledger[i].run = id
  BY DEF I
<1> QED BY <1>1, <1>2, <1>4, <1>5, <1>6

LEMMA AppendedIs ==
  ASSUME NEW L \in Seq(LedgerEntry), NEW r \in Syncs, NEW N, N = WithNewest(L, r)
  PROVE  /\ N \in Seq(LedgerEntry) /\ Len(L) \in Nat
         /\ Len(N) = IF Len(L) + 1 > MaxSyncs THEN MaxSyncs ELSE Len(L) + 1
         /\ 1 \in 1 .. Len(N) /\ Len(N) <= MaxSyncs /\ Len(N) \in Nat
         /\ N[1].run = r /\ N[1].status = "in_progress"
         /\ \A i \in 1 .. Len(N) : i # 1 => i - 1 \in 1 .. Len(L) /\ N[i] = L[i - 1]
<1> DEFINE e == [run |-> r, status |-> "in_progress"]
           s == <<e>> \o L
           n == IF Len(s) > MaxSyncs THEN MaxSyncs ELSE Len(s)
<1>1. e \in LedgerEntry
  BY DEF LedgerEntry, SyncStatus
<1>2. <<e>> \in Seq(LedgerEntry) /\ Len(<<e>>) = 1 /\ <<e>>[1] = e
  BY <1>1
<1>3. Len(L) \in Nat /\ \A i \in 1 .. Len(L) : L[i] \in LedgerEntry
  BY LenProperties, ElementOfSeq
<1>4. /\ s \in Seq(LedgerEntry) /\ Len(s) = 1 + Len(L)
      /\ \A i \in 1 .. 1 + Len(L) : s[i] = IF i <= 1 THEN <<e>>[i] ELSE L[i - 1]
  BY <1>2, ConcatProperties
<1>5. N = SubSeq(s, 1, n)
  BY DEF WithNewest, Kept
<1> HIDE DEF s
<1>6. n \in Nat /\ n >= 1 /\ n <= Len(s) /\ n <= MaxSyncs
  BY <1>3, <1>4, ExtensionConstants
<1>7. \A i \in 1 .. n : s[i] \in LedgerEntry
  BY <1>4, <1>6, ElementOfSeq
<1>8. n = IF Len(L) + 1 > MaxSyncs THEN MaxSyncs ELSE Len(L) + 1
  BY <1>3, <1>4, ExtensionConstants
<1> HIDE DEF n
<1>9. /\ N \in Seq(LedgerEntry) /\ Len(N) = n
      /\ \A i \in 1 .. n : N[i] = s[i]
  BY <1>5, <1>6, <1>7, SubSeqProperties
<1> QED BY <1>2, <1>3, <1>4, <1>6, <1>8, <1>9

LEMMA AmendedIs ==
  ASSUME ExtTypeOK, NEW id \in Syncs, NEW status \in SyncStatus, IndexOf(id) # 0,
         NEW N, N = WithStatus(IndexOf(id), status)
  PROVE  /\ N \in Seq(LedgerEntry) /\ Len(N) = Len(ledger)
         /\ \A i \in 1 .. Len(ledger) :
              /\ N[i].run = ledger[i].run
              /\ i # IndexOf(id) => N[i] = ledger[i]
              /\ i = IndexOf(id) => N[i].run = id /\ N[i].status = status
<1>k. PICK k : k = IndexOf(id)
  OBVIOUS
<1>e. PICK e : e = [ledger[k] EXCEPT !.status = status]
  OBVIOUS
<1>1. k \in 1 .. Len(ledger) /\ ledger[k].run = id
  BY <1>k, IndexOfIs, LenProperties DEF ExtTypeOK
<1>2. ledger[k] \in LedgerEntry
  BY <1>1, ElementOfSeq DEF ExtTypeOK
<1>3. e \in LedgerEntry /\ e.run = ledger[k].run /\ e.status = status
  BY <1>2, <1>e DEF LedgerEntry
<1>4. N = [ledger EXCEPT ![k] = e]
  BY <1>k, <1>e DEF WithStatus
<1>5. /\ N \in Seq(LedgerEntry) /\ Len(N) = Len(ledger)
      /\ \A i \in 1 .. Len(ledger) : N[i] = IF i = k THEN e ELSE ledger[i]
  <2>1. ledger \in Seq(LedgerEntry)
    BY DEF ExtTypeOK
  <2>2. PICK L : L = ledger
    OBVIOUS
  <2>3. L \in Seq(LedgerEntry) /\ k \in 1 .. Len(L)
    BY <1>1, <2>1, <2>2
  <2>4. /\ [L EXCEPT ![k] = e] \in Seq(LedgerEntry)
        /\ Len([L EXCEPT ![k] = e]) = Len(L)
        /\ \A i \in 1 .. Len(L) : [L EXCEPT ![k] = e][i] = IF i = k THEN e ELSE L[i]
    BY <1>3, <2>3, ExceptSeq
  <2> QED BY <1>4, <2>2, <2>4
<1> QED BY <1>1, <1>3, <1>5, <1>k

-----------------------------------------------------------------------------
(* ExtensionSync: the steps. *)

\* The messages on their way, and the entries of an update.
MessageOK(m) ==
  IF m.status = "success" THEN m.id = NoSync
  ELSE m.id = m.about /\ sync[m.about] = "failed"

\* An update that only makes the entries of failed syncs say so.
Amends(v) ==
  /\ v.kind # "append" /\ v.read = ledger
  /\ Len(v.next) = Len(ledger)
  /\ \A i \in 1 .. Len(ledger) :
       /\ v.next[i].run = ledger[i].run
       /\ v.next[i] # ledger[i] =>
            /\ v.next[i].status = "failed"
            /\ sync[ledger[i].run] \in {"failed", "unreadyEntry"}

\* A step that leaves the ledger alone and reads it at most to amend it.
LEMMA QuietKeepsInv ==
  ASSUME ExtInv, ExtTypeOK', UNCHANGED <<ledger, started, mishap>>,
         updates \subseteq updates',
         \A v \in updates' : v \in updates \/ Amends(v)',
         \A r \in Syncs :
           /\ sync'[r] = "new" <=> sync[r] = "new"
           /\ sync[r] = "completed" => sync'[r] = "completed"
           /\ sync[r] = "failed" => sync'[r] = "failed"
           /\ sync[r] \in {"failed", "unreadyEntry"} => sync'[r] \in {"failed", "unreadyEntry"}
           /\ sync'[r] \in {"failed", "unreadyEntry"} =>
                sync[r] \in {"failed", "unreadyEntry"} \/ FailureKnown(r)',
         \A n \in Rounds, r \in Syncs :
           sync[r] = "new" /\ round[n].run = r => round'[n].run = r,
         \A m \in messages' : m \in messages \/ MessageOK(m)',
         \A m \in messages : m.status = "failed" => m \in messages' \/ FailureKnown(m.about)'
  PROVE  ExtInv'
<1>1. ExtTypeOK
  BY DEF ExtInv
<1>2. /\ \A u \in updates : u.owner \in Syncs /\ u.next \in Seq(LedgerEntry)
      /\ \A i \in 1 .. Len(started) : started[i] \in Syncs
      /\ \A m \in messages : m.about \in Syncs /\ m.status \in {"success", "failed"}
      /\ ledger \in Seq(LedgerEntry)
  BY <1>1, ElementOfSeq DEF ExtTypeOK, Update
<1>3. \A L : L \in Seq(LedgerEntry) /\ Real(L) => Real(L)'
  <2> SUFFICES ASSUME NEW L \in Seq(LedgerEntry), Real(L), NEW i \in 1 .. Len(L)
               PROVE  EntryReal(L[i])'
    BY DEF Real
  <2>0. L[i] \in LedgerEntry
    BY ElementOfSeq
  <2>1. L[i].run \in Syncs
    BY <2>0 DEF LedgerEntry
  <2> QED BY <2>1 DEF Real, EntryReal
<1>4. ASSUME NEW v \in updates', v \notin updates
      PROVE  /\ v.kind # "append" /\ v.read = ledger /\ Len(v.next) = Len(ledger)
             /\ \A i \in 1 .. Len(ledger) :
                  /\ v.next[i].run = ledger[i].run
                  /\ v.next[i] # ledger[i] =>
                       /\ v.next[i].status = "failed"
                       /\ sync'[ledger[i].run] \in {"failed", "unreadyEntry"}
  <2>1. Amends(v)'
    BY <1>4
  <2> QED BY <2>1 DEF Amends
<1>5. AppendInv'
  <2>1. \A L, r : HasRun(L, r)' <=> HasRun(L, r)
    BY DEF HasRun
  <2>2. \A L : Kept(L)' = Kept(L)
    BY DEF Kept
  <2>3. \A u \in updates' : u.kind = "append" => u \in updates
    BY <1>4
  <2>4. \A u \in updates : u.kind = "append" =>
             /\ sync'[u.owner] = "new"
             /\ \E n \in Rounds : round'[n].run = u.owner
    <3> SUFFICES ASSUME NEW u \in updates, u.kind = "append"
                 PROVE  /\ sync'[u.owner] = "new"
                        /\ \E n \in Rounds : round'[n].run = u.owner
      OBVIOUS
    <3>1. u.owner \in Syncs /\ sync[u.owner] = "new" /\ \E n \in Rounds : round[n].run = u.owner
      BY <1>2 DEF ExtInv, AppendInv
    <3> QED BY <3>1
  <2>5. ASSUME NEW r \in Syncs, sync[r] = "new", NEW u \in updates', HasRun(u.next, r)
        PROVE  u.kind = "append" /\ u.owner = r
    <3>1. CASE u \in updates
      BY <2>5, <3>1 DEF ExtInv, AppendInv
    <3>2. CASE u \notin updates
      <4>1. HasRun(ledger, r)
        BY <1>4, <2>5, <3>2 DEF HasRun
      <4> QED BY <2>5, <4>1 DEF ExtInv, AppendInv
    <3> QED BY <3>1, <3>2
  <2>6. \A r \in Syncs : sync'[r] = "new" => ~ HasRun(ledger, r)
    BY DEF ExtInv, AppendInv
  <2> QED BY <2>1, <2>2, <2>3, <2>4, <2>5, <2>6 DEF ExtInv, AppendInv
<1>6. AmendInv'
  BY <1>1, <1>4 DEF ExtInv, AmendInv, ExtTypeOK
<1>7. RealInv'
  <2>1. \A L : OneEach(L)' <=> OneEach(L)
    BY DEF OneEach
  <2>2. Real(ledger) /\ Real(ledger)' /\ OneEach(ledger)
    BY <1>2, <1>3 DEF ExtInv, RealInv
  <2>3. ASSUME NEW u \in updates' PROVE Real(u.next)' /\ OneEach(u.next)
    <3>1. CASE u \in updates
      BY <1>2, <1>3, <3>1 DEF ExtInv, RealInv
    <3>2. CASE u \notin updates
      <4>1. OneEach(u.next)
        BY <1>4, <2>2, <3>2 DEF OneEach
      <4>2. ASSUME NEW i \in 1 .. Len(u.next) PROVE EntryReal(u.next[i])'
        <5>1. i \in 1 .. Len(ledger) /\ u.next[i].run = ledger[i].run
          BY <1>4, <3>2
        <5>2. CASE u.next[i] = ledger[i]
          BY <2>2, <5>1, <5>2 DEF Real
        <5>3. CASE u.next[i] # ledger[i]
          BY <1>4, <3>2, <5>1, <5>3 DEF EntryReal
        <5> QED BY <5>2, <5>3
      <4> QED BY <4>1, <4>2 DEF Real
    <3> QED BY <3>1, <3>2
  <2>4. ASSUME NEW m \in messages' PROVE MessageOK(m)'
    BY <1>2 DEF ExtInv, RealInv, MessageOK
  <2> QED BY <2>1, <2>2, <2>3, <2>4 DEF RealInv, MessageOK
<1>8. StartedInv'
  BY <1>2 DEF ExtInv, StartedInv
<1>9. OrderInv'
  <2> SUFFICES ASSUME ~ mishap PROVE OrderInv'
    BY DEF OrderInv
  <2>1. \A L, k : (NewestIs(L, k)' <=> NewestIs(L, k)) /\ (Holds(L, k)' <=> Holds(L, k))
    BY DEF NewestIs, Holds
  <2>2. PICK k \in 0 .. Len(started) :
          /\ NewestIs(ledger, k)
          /\ \A u \in updates : \E j \in 0 .. k :
               /\ NewestIs(u.read, j)
               /\ u.kind = "append" => \E i \in 1 .. Len(started) : u.owner = started[i] /\ i > j
    BY DEF ExtInv, OrderInv
  <2>3. k \in 0 .. k
    BY <1>1, LenProperties DEF ExtTypeOK
  <2>4. ASSUME NEW u \in updates'
        PROVE  \E j \in 0 .. k :
                 /\ NewestIs(u.read, j)
                 /\ u.kind = "append" => \E i \in 1 .. Len(started) : u.owner = started[i] /\ i > j
    BY <1>4, <2>2, <2>3
  <2>5. \A u \in updates : Doomed(u) => Doomed(u)'
    BY DEF Doomed, NewestIs
  <2>6. (\A u \in updates' : ~ Doomed(u)') =>
         \E l \in 0 .. Len(started) :
           /\ Holds(ledger, l)
           /\ \A i \in l + 1 .. Len(started) : \E u \in updates' :
                u.kind = "append" /\ u.owner = started[i]
    BY <2>5 DEF ExtInv, OrderInv
  <2> QED BY <2>1, <2>2, <2>4, <2>6 DEF OrderInv
<1>10. FailedInv'
  <2> SUFFICES ASSUME ~ mishap, NEW r \in Syncs, sync'[r] \in {"failed", "unreadyEntry"}
               PROVE  FailureKnown(r)'
    BY DEF FailedInv
  <2>1. CASE sync[r] \in {"failed", "unreadyEntry"}
    <3>1. FailureKnown(r)
      BY <2>1 DEF ExtInv, FailedInv
    <3>2. AllFailed(ledger, r)' <=> AllFailed(ledger, r)
      BY DEF AllFailed
    <3>3. \A L : AllFailed(L, r)' <=> AllFailed(L, r)
      BY DEF AllFailed
    <3> QED BY <3>1, <3>2, <3>3 DEF FailureKnown
  <2> QED BY <2>1
<1> QED BY <1>5, <1>6, <1>7, <1>8, <1>9, <1>10 DEF ExtInv

LEMMA RoundKeepsInv ==
  ASSUME ExtInv, NEW n \in Rounds,
         OpenTab(n) \/ AskSync(n) \/ NotReady(n) \/ NextPortal(n)
  PROVE  ExtInv'
<1>0. PICK r : r = round[n].run
  OBVIOUS
<1>1. ExtTypeOK
  BY DEF ExtInv
<1>2. /\ r \in Syncs /\ sync[r] \in {"entry", "tab", "unreadyEntry"}
      /\ UNCHANGED <<ledger, updates, messages, started, mishap>>
  BY <1>0, <1>1 DEF OpenTab, AskSync, NotReady, NextPortal, ExtTypeOK
<1>3. sync' = sync \/ \E s \in {"tab", "running", "unready"} :
                        sync' = [sync EXCEPT ![r] = s] /\ sync[r] \in {"entry", "tab"}
  BY <1>0 DEF OpenTab, AskSync, NotReady, NextPortal
<1>4. round' = round \/ round' = [round EXCEPT ![n].run = NoSync]
  BY DEF OpenTab, AskSync, NotReady, NextPortal
<1>5. sync' \in [Syncs -> SyncStages]
  BY <1>1, <1>2, <1>3 DEF ExtTypeOK, SyncStages
<1>6. round' \in [Rounds -> [run : Syncs \union {NoSync}, left : 0 .. Portals]]
  BY <1>1, <1>4 DEF ExtTypeOK
<1>7. tabs' \subseteq Syncs
  BY <1>0, <1>1, <1>2 DEF OpenTab, AskSync, NotReady, NextPortal, ExtTypeOK
<1>8. ExtTypeOK'
  BY <1>1, <1>2, <1>5, <1>6, <1>7 DEF ExtTypeOK
<1>9. \A q \in Syncs :
        /\ sync'[q] = "new" <=> sync[q] = "new"
        /\ sync[q] = "completed" => sync'[q] = "completed"
        /\ sync[q] = "failed" <=> sync'[q] = "failed"
        /\ sync[q] = "unreadyEntry" <=> sync'[q] = "unreadyEntry"
  BY <1>1, <1>2, <1>3 DEF ExtTypeOK
<1>10. \A m \in Rounds, q \in Syncs : sync[q] = "new" /\ round[m].run = q => round'[m].run = q
  <2> SUFFICES ASSUME NEW m \in Rounds, NEW q \in Syncs, sync[q] = "new", round[m].run = q
               PROVE  round'[m].run = q
    OBVIOUS
  <2>1. m # n
    BY <1>0, <1>2
  <2> QED BY <1>1, <1>4, <2>1 DEF ExtTypeOK
<1> QED BY <1>2, <1>8, <1>9, <1>10, QuietKeepsInv

LEMMA SyncKeepsInv ==
  ASSUME ExtInv, NEW r \in Syncs, CompleteSync(r) \/ FailSync(r) \/ CloseTab(r)
  PROVE  ExtInv'
<1>1. ExtTypeOK
  BY DEF ExtInv
<1>2. UNCHANGED <<ledger, round, updates, started, mishap>>
  BY DEF CompleteSync, FailSync, CloseTab
<1>3. tabs' \subseteq Syncs
  BY <1>1 DEF CompleteSync, FailSync, CloseTab, ExtTypeOK
<1>4. PICK s \in SyncStages :
        /\ sync' = [sync EXCEPT ![r] = s]
        /\ s # sync[r] => sync[r] = "running" /\ s \in {"completed", "failed", "gone"}
        /\ s = "failed" /\ sync[r] = "running" => FailSync(r)
  BY <1>1 DEF CompleteSync, FailSync, CloseTab, ExtTypeOK, SyncStages
<1>5. sync' \in [Syncs -> SyncStages] /\ sync'[r] = s
      /\ \A q \in Syncs : q # r => sync'[q] = sync[q]
  BY <1>1, <1>4 DEF ExtTypeOK
<1>6. /\ messages \subseteq messages'
      /\ \A m \in messages' : m \in messages \/ MessageOK(m)'
      /\ FailSync(r) => \E m \in messages' : m.about = r /\ m.status = "failed"
      /\ messages' \subseteq [about : Syncs, id : Syncs \union {NoSync},
                              status : {"success", "failed"}]
  <2>1. CASE CompleteSync(r)
    BY <1>1, <2>1 DEF CompleteSync, FailSync, CompletedId, MessageOK, ExtTypeOK
  <2>2. CASE FailSync(r)
    <3> DEFINE m == [about |-> r, id |-> r, status |-> "failed"]
    <3>1. messages' = messages \union {m} /\ sync'[r] = "failed"
      BY <1>1, <2>2 DEF FailSync, ExtTypeOK
    <3>2. m.about = r /\ m.id = r /\ m.status = "failed"
          /\ m \in [about : Syncs, id : Syncs \union {NoSync}, status : {"success", "failed"}]
      OBVIOUS
    <3> HIDE DEF m
    <3>3. MessageOK(m)'
      BY <3>1, <3>2 DEF MessageOK
    <3> QED BY <1>1, <3>1, <3>2, <3>3 DEF ExtTypeOK
  <2>3. CASE CloseTab(r)
    BY <1>1, <2>3 DEF CloseTab, FailSync, ExtTypeOK
  <2> QED BY <2>1, <2>2, <2>3
<1>7. ExtTypeOK'
  BY <1>1, <1>2, <1>3, <1>5, <1>6 DEF ExtTypeOK
<1>8. \A q \in Syncs :
        /\ sync'[q] = "new" <=> sync[q] = "new"
        /\ sync[q] = "completed" => sync'[q] = "completed"
        /\ sync[q] = "failed" => sync'[q] = "failed"
        /\ sync[q] \in {"failed", "unreadyEntry"} => sync'[q] \in {"failed", "unreadyEntry"}
        /\ sync'[q] \in {"failed", "unreadyEntry"} =>
             sync[q] \in {"failed", "unreadyEntry"} \/ FailureKnown(q)'
  BY <1>4, <1>5, <1>6 DEF FailureKnown
<1> QED BY <1>2, <1>6, <1>7, <1>8, QuietKeepsInv

LEMMA StopKeepsInv ==
  ASSUME ExtInv, StopWorker
  PROVE  ExtInv'
<1>1. /\ updates' = {} /\ mishap' = TRUE /\ ExtTypeOK
      /\ UNCHANGED <<ledger, sync, messages, tabs, started>>
  BY DEF ExtInv, StopWorker
<1>2. round' \in [Rounds -> [run : Syncs \union {NoSync}, left : 0 .. Portals]]
  BY ExtensionConstants DEF StopWorker
<1>3. ExtTypeOK'
  BY <1>1, <1>2 DEF ExtTypeOK
<1>4. AppendInv' /\ AmendInv'
  BY <1>1 DEF ExtInv, AppendInv, AmendInv, HasRun
<1>5. RealInv'
  BY <1>1 DEF ExtInv, RealInv, Real, EntryReal, OneEach
<1>6. StartedInv' /\ OrderInv' /\ FailedInv'
  BY <1>1 DEF StartedInv, OrderInv, FailedInv
<1> QED BY <1>3, <1>4, <1>5, <1>6 DEF ExtInv

\* What was read stays as new as it was when one more sync starts.
LEMMA OneMoreStarted ==
  ASSUME started \in Seq(Syncs), NEW r \in Syncs, started' = Append(started, r)
  PROVE  /\ started' \in Seq(Syncs) /\ Len(started) \in Nat
         /\ Len(started') = Len(started) + 1 /\ started'[Len(started) + 1] = r
         /\ \A i \in 1 .. Len(started) : started'[i] = started[i]
         /\ \A L, k : NewestIs(L, k) => NewestIs(L, k)'
<1>1. /\ started' \in Seq(Syncs) /\ Len(started) \in Nat
      /\ Len(started') = Len(started) + 1 /\ started'[Len(started) + 1] = r
      /\ \A i \in 1 .. Len(started) : started'[i] = started[i]
  BY AppendProperties, LenProperties
<1>2. \A L, k : NewestIs(L, k) => NewestIs(L, k)'
  BY <1>1 DEF NewestIs
<1> QED BY <1>1, <1>2

LEMMA NewestOnce ==
  ASSUME \A i, j \in 1 .. Len(started) : started[i] = started[j] => i = j,
         NEW L, NEW i, NEW j, NewestIs(L, i), NewestIs(L, j), Len(started) \in Nat
  PROVE  i = j
BY DEF NewestIs

LEMMA ReadHoldsNewest ==
  ASSUME NEW k, Holds(ledger, k), ExtTypeOK
  PROVE  NewestIs(ledger, k)
<1>1. /\ Len(ledger) \in Nat /\ Len(started) \in Nat /\ k \in 0 .. Len(started)
      /\ ledger # << >> => 1 \in 1 .. Len(ledger)
      /\ ledger = << >> => Len(ledger) = 0
  BY LenProperties, EmptySeq DEF ExtTypeOK, Holds
<1> QED BY <1>1, ExtensionConstants DEF Holds, NewestIs

LEMMA StartKeepsInv ==
  ASSUME ExtInv, NEW n \in Rounds, NEW r \in Syncs, StartSync(n, r)
  PROVE  ExtInv'
<1>1. /\ ExtTypeOK /\ AppendInv /\ AmendInv /\ RealInv /\ StartedInv /\ OrderInv /\ FailedInv
      /\ ledger \in Seq(LedgerEntry) /\ started \in Seq(Syncs)
  BY DEF ExtInv, ExtTypeOK
<1>2. PICK u :
        /\ updates' = updates \union {u}
        /\ u = [owner |-> r, kind |-> "append", read |-> ledger,
                next |-> Kept(<<[run |-> r, status |-> "in_progress"]>> \o ledger)]
  BY DEF StartSync
<1>3. /\ u.owner = r /\ u.kind = "append" /\ u.read = ledger
      /\ u.next = Kept(<<[run |-> r, status |-> "in_progress"]>> \o ledger)
  BY <1>2
<1>4. /\ u.next \in Seq(LedgerEntry) /\ Len(ledger) \in Nat
      /\ 1 \in 1 .. Len(u.next) /\ u.next[1].run = r /\ u.next[1].status = "in_progress"
      /\ \A i \in 1 .. Len(u.next) : i # 1 => i - 1 \in 1 .. Len(ledger) /\ u.next[i] = ledger[i - 1]
      /\ Len(u.next) \in Nat
  <2>1. PICK L, N : L = ledger /\ N = u.next
    OBVIOUS
  <2>2. L \in Seq(LedgerEntry) /\ N = WithNewest(L, r)
    BY <1>1, <1>3, <2>1 DEF WithNewest
  <2>3. /\ N \in Seq(LedgerEntry) /\ Len(L) \in Nat
        /\ Len(N) = IF Len(L) + 1 > MaxSyncs THEN MaxSyncs ELSE Len(L) + 1
        /\ 1 \in 1 .. Len(N) /\ Len(N) <= MaxSyncs /\ Len(N) \in Nat
        /\ N[1].run = r /\ N[1].status = "in_progress"
        /\ \A i \in 1 .. Len(N) : i # 1 => i - 1 \in 1 .. Len(L) /\ N[i] = L[i - 1]
    BY <2>2, AppendedIs, SMTT(30)
  <2> QED BY <2>1, <2>3
<1>5. /\ sync[r] = "new" /\ \A m \in Rounds : round[m].run # r
      /\ round[n].run = NoSync /\ round[n].left > 0
      /\ round' = [round EXCEPT ![n] = [run |-> r, left |-> @.left - 1]]
      /\ started' = Append(started, r)
      /\ UNCHANGED <<ledger, sync, messages, tabs, mishap>>
  BY DEF StartSync
<1>6. /\ round' \in [Rounds -> [run : Syncs \union {NoSync}, left : 0 .. Portals]]
      /\ round'[n].run = r
      /\ \A m \in Rounds : m # n => round'[m] = round[m]
  <2>1. PICK x : x = [run |-> r, left |-> round[n].left - 1]
    OBVIOUS
  <2>2. round' = [round EXCEPT ![n] = x]
    BY <1>5, <2>1
  <2>3. round[n].left \in 0 .. Portals
    BY <1>1 DEF ExtTypeOK
  <2>4. x.left \in 0 .. Portals /\ x.run = r
    BY <1>5, <2>1, <2>3, ExtensionConstants
  <2>5. x \in [run : Syncs \union {NoSync}, left : 0 .. Portals]
    BY <2>1, <2>4
  <2> QED BY <1>1, <2>2, <2>4, <2>5 DEF ExtTypeOK
<1>7. /\ started' \in Seq(Syncs) /\ Len(started) \in Nat
      /\ Len(started') = Len(started) + 1 /\ started'[Len(started) + 1] = r
      /\ \A i \in 1 .. Len(started) : started'[i] = started[i]
      /\ \A L, k : NewestIs(L, k) => NewestIs(L, k)'
  BY <1>1, <1>5, OneMoreStarted
<1>8. u \in Update
  BY <1>1, <1>2, <1>3, <1>4 DEF Update
<1>9. ExtTypeOK'
  BY <1>1, <1>2, <1>5, <1>6, <1>7, <1>8 DEF ExtTypeOK
<1>10. ~ HasRun(ledger, r) /\ \A v \in updates : v.kind = "append" => v.owner # r
  <2>1. ~ HasRun(ledger, r)
    BY <1>1, <1>5 DEF AppendInv
  <2>2. ASSUME NEW v \in updates, v.kind = "append", v.owner = r PROVE FALSE
    <3>1. \E m \in Rounds : round[m].run = v.owner
      BY <1>1, <2>2 DEF AppendInv
    <3> QED BY <1>5, <2>2, <3>1
  <2> QED BY <2>1, <2>2
<1>11. \A q : HasRun(u.next, q) => q = r \/ HasRun(ledger, q)
  <2> SUFFICES ASSUME NEW q, NEW i \in 1 .. Len(u.next), u.next[i].run = q, q # r
               PROVE  HasRun(ledger, q)
    BY DEF HasRun
  <2> QED BY <1>4 DEF HasRun
<1>12. AppendInv'
  <2>1. \A L, q : HasRun(L, q)' <=> HasRun(L, q)
    BY DEF HasRun
  <2>2. \A L : Kept(L)' = Kept(L)
    BY DEF Kept
  <2>3. ASSUME NEW v \in updates', v.kind = "append"
        PROVE  /\ sync[v.owner] = "new"
               /\ \E m \in Rounds : round'[m].run = v.owner
               /\ v.next = Kept(<<[run |-> v.owner, status |-> "in_progress"]>> \o v.read)
               /\ ~ HasRun(v.read, v.owner)
    <3>1. CASE v = u
      BY <1>3, <1>5, <1>6, <1>10, <3>1
    <3>2. CASE v # u
      <4>1. v \in updates
        BY <1>2, <3>2
      <4>2. PICK m \in Rounds : round[m].run = v.owner
        BY <1>1, <2>3, <4>1 DEF AppendInv
      <4>3. v.owner \in Syncs
        BY <1>1, <4>1 DEF ExtTypeOK, Update
      <4>4. m # n
        BY <1>5, <4>2, <4>3, ExtensionConstants
      <4> QED BY <1>1, <1>6, <2>3, <4>1, <4>2, <4>4 DEF AppendInv
    <3> QED BY <3>1, <3>2
  <2>4. \A v, w \in updates' : v.kind = "append" /\ w.kind = "append" /\ v.owner = w.owner => v = w
    BY <1>1, <1>2, <1>3, <1>10 DEF AppendInv
  <2>5. \A q \in Syncs : sync[q] = "new" =>
          /\ ~ HasRun(ledger, q)
          /\ \A v \in updates' : HasRun(v.next, q) => v.kind = "append" /\ v.owner = q
    BY <1>1, <1>2, <1>3, <1>11 DEF AppendInv
  <2> QED BY <1>5, <2>1, <2>2, <2>3, <2>4, <2>5 DEF AppendInv
<1>13. AmendInv'
  BY <1>1, <1>2, <1>3 DEF AmendInv
<1>14. RealInv'
  <2>1. Real(u.next)
    <3> SUFFICES ASSUME NEW i \in 1 .. Len(u.next)
                 PROVE  EntryReal(u.next[i])
      BY DEF Real
    <3>1. CASE i = 1
      BY <1>4, <3>1 DEF EntryReal
    <3>2. CASE i # 1
      <4>1. PICK j \in 1 .. Len(ledger) : u.next[i] = ledger[j]
        BY <1>4, <3>2
      <4>2. EntryReal(ledger[j])
        BY <1>1 DEF RealInv, Real
      <4> QED BY <4>1, <4>2
    <3> QED BY <3>1, <3>2
  <2>2. OneEach(u.next)
    <3> SUFFICES ASSUME NEW i \in 1 .. Len(u.next), NEW j \in 1 .. Len(u.next),
                        u.next[i].run = u.next[j].run
                 PROVE  i = j
      BY DEF OneEach
    <3>1. CASE i = 1 \/ j = 1
      BY <1>4, <1>10, <3>1 DEF HasRun
    <3>2. CASE i # 1 /\ j # 1
      <4>1. /\ i - 1 \in 1 .. Len(ledger) /\ j - 1 \in 1 .. Len(ledger)
            /\ u.next[i] = ledger[i - 1] /\ u.next[j] = ledger[j - 1]
        BY <1>4, <3>2
      <4>2. ledger[i - 1].run = ledger[j - 1].run
        BY <4>1
      <4>3. i - 1 = j - 1
        BY <1>1, <4>1, <4>2 DEF RealInv, OneEach
      <4> QED BY <1>4, <4>3
    <3> QED BY <3>1, <3>2
  <2>3. \A L : (Real(L)' <=> Real(L)) /\ (OneEach(L)' <=> OneEach(L))
    BY <1>5 DEF Real, EntryReal, OneEach
  <2> QED BY <1>1, <1>2, <1>5, <2>1, <2>2, <2>3 DEF RealInv
<1>15. StartedInv'
  <2> SUFFICES ASSUME ~ mishap
               PROVE  /\ \A i, j \in 1 .. Len(started') : started'[i] = started'[j] => i = j
                      /\ \A i \in 1 .. Len(started') :
                           \/ sync[started'[i]] # "new"
                           \/ \E m \in Rounds : round'[m].run = started'[i]
    BY <1>5 DEF StartedInv
  <2>1. \A i \in 1 .. Len(started) : started[i] # r
    BY <1>1, <1>5 DEF StartedInv
  <2>2. \A i \in 1 .. Len(started') : i = Len(started) + 1 \/ i \in 1 .. Len(started)
    BY <1>7
  <2>3. ASSUME NEW i \in 1 .. Len(started)
        PROVE  \/ sync[started[i]] # "new"
               \/ \E m \in Rounds : round'[m].run = started[i]
    <3>1. CASE sync[started[i]] # "new"
      BY <3>1
    <3>2. CASE \E m \in Rounds : round[m].run = started[i]
      <4>1. PICK m \in Rounds : round[m].run = started[i]
        BY <3>2
      <4>2. started[i] \in Syncs
        BY <1>1, ElementOfSeq
      <4>3. m # n
        BY <1>5, <4>1, <4>2, ExtensionConstants
      <4> QED BY <1>6, <4>1, <4>3
    <3> QED BY <1>1, <3>1, <3>2 DEF StartedInv
  <2>4. \A i, j \in 1 .. Len(started) : started[i] = started[j] => i = j
    BY <1>1 DEF StartedInv
  <2>5. \A i, j \in 1 .. Len(started') : started'[i] = started'[j] => i = j
    BY <1>7, <2>1, <2>2, <2>4
  <2>6. ASSUME NEW i \in 1 .. Len(started')
        PROVE  \/ sync[started'[i]] # "new"
               \/ \E m \in Rounds : round'[m].run = started'[i]
    <3>1. CASE i = Len(started) + 1
      <4>1. started'[i] = r
        BY <1>7, <3>1
      <4> QED BY <1>6, <4>1
    <3>2. CASE i \in 1 .. Len(started)
      <4>1. started'[i] = started[i]
        BY <1>7, <3>2
      <4> QED BY <2>3, <3>2, <4>1
    <3> QED BY <2>2, <3>1, <3>2
  <2> QED BY <2>5, <2>6
<1>16. OrderInv'
  <2> SUFFICES ASSUME ~ mishap PROVE OrderInv'
    BY <1>5 DEF OrderInv
  <2>1. PICK k \in 0 .. Len(started) :
          /\ NewestIs(ledger, k)
          /\ \A v \in updates : \E j \in 0 .. k :
               /\ NewestIs(v.read, j)
               /\ v.kind = "append" => \E i \in 1 .. Len(started) : v.owner = started[i] /\ i > j
    BY <1>1 DEF OrderInv
  <2>2. k \in 0 .. Len(started') /\ NewestIs(ledger, k)'
    BY <1>5, <1>7, <2>1
  <2>3. ASSUME NEW v \in updates'
        PROVE  \E j \in 0 .. k :
                 /\ NewestIs(v.read, j)'
                 /\ v.kind = "append" => \E i \in 1 .. Len(started') : v.owner = started'[i] /\ i > j
    <3>1. CASE v = u
      <4>1. NewestIs(v.read, k)'
        BY <1>3, <1>5, <2>2, <3>1
      <4>2. v.owner = started'[Len(started) + 1] /\ Len(started) + 1 > k
            /\ Len(started) + 1 \in 1 .. Len(started')
        BY <1>3, <1>7, <2>1, <3>1
      <4> QED BY <1>7, <2>1, <4>1, <4>2
    <3>2. CASE v # u
      <4>1. v \in updates
        BY <1>2, <3>2
      <4>2. PICK j \in 0 .. k :
              /\ NewestIs(v.read, j)
              /\ v.kind = "append" => \E i \in 1 .. Len(started) : v.owner = started[i] /\ i > j
        BY <2>1, <4>1
      <4>3. NewestIs(v.read, j)'
        BY <1>7, <4>2
      <4>4. ASSUME v.kind = "append"
            PROVE  \E i \in 1 .. Len(started') : v.owner = started'[i] /\ i > j
        <5>1. PICK i \in 1 .. Len(started) : v.owner = started[i] /\ i > j
          BY <4>2, <4>4
        <5>2. i \in 1 .. Len(started') /\ started'[i] = started[i]
          BY <1>7
        <5> QED BY <5>1, <5>2
      <4> QED BY <4>3, <4>4
    <3> QED BY <3>1, <3>2
  <2>4. ASSUME \A v \in updates' : ~ Doomed(v)'
        PROVE  \E l \in 0 .. Len(started') :
                 /\ Holds(ledger, l)'
                 /\ \A i \in l + 1 .. Len(started') : \E v \in updates' :
                      v.kind = "append" /\ v.owner = started'[i]
    <3>1. \A v \in updates : ~ Doomed(v)
      <4> SUFFICES ASSUME NEW v \in updates, Doomed(v) PROVE FALSE
        OBVIOUS
      <4>1. PICK j \in 0 .. Len(started), l \in 0 .. Len(started) :
              NewestIs(v.read, j) /\ NewestIs(ledger, l) /\ j < l /\ v.kind = "append"
        BY DEF Doomed
      <4>2. /\ NewestIs(v.read, j)' /\ NewestIs(ledger, l)'
            /\ j \in 0 .. Len(started') /\ l \in 0 .. Len(started')
        BY <1>5, <1>7, <4>1
      <4>3. Doomed(v)'
        BY <4>1, <4>2 DEF Doomed
      <4> QED BY <1>2, <2>4, <4>3
    <3>2. PICK l \in 0 .. Len(started) :
            /\ Holds(ledger, l)
            /\ \A i \in l + 1 .. Len(started) : \E v \in updates :
                 v.kind = "append" /\ v.owner = started[i]
      BY <1>1, <3>1 DEF OrderInv
    <3>3. Holds(ledger, l)'
      <4>1. /\ l \in 0 .. Len(started)
            /\ Len(ledger) = IF l > MaxSyncs THEN MaxSyncs ELSE l
            /\ \A i \in 1 .. Len(ledger) : ledger[i].run = started[l + 1 - i]
        BY <3>2 DEF Holds
      <4>2. \A i \in 1 .. Len(ledger) : l + 1 - i \in 1 .. Len(started)
        BY <1>4, <1>7, <4>1, ExtensionConstants
      <4>3. \A i \in 1 .. Len(ledger) : ledger[i].run = started'[l + 1 - i]
        BY <1>7, <4>1, <4>2
      <4>4. l \in 0 .. Len(started')
        BY <1>7
      <4> QED BY <1>5, <4>1, <4>3, <4>4 DEF Holds
    <3>4. ASSUME NEW i \in l + 1 .. Len(started')
          PROVE  \E v \in updates' : v.kind = "append" /\ v.owner = started'[i]
      <4>1. CASE i = Len(started) + 1
        BY <1>2, <1>3, <1>7, <4>1
      <4>2. CASE i # Len(started) + 1
        BY <1>2, <1>7, <3>2, <4>2
      <4> QED BY <4>1, <4>2
    <3>5. l \in 0 .. Len(started')
      BY <1>7
    <3> QED BY <3>3, <3>4, <3>5
  <2> QED BY <2>2, <2>3, <2>4 DEF OrderInv
<1>17. FailedInv'
  <2> SUFFICES ASSUME ~ mishap, NEW q \in Syncs, sync[q] \in {"failed", "unreadyEntry"}
               PROVE  FailureKnown(q)'
    BY <1>5 DEF FailedInv
  <2>1. FailureKnown(q)
    BY <1>1 DEF FailedInv
  <2>2. \A L : AllFailed(L, q)' <=> AllFailed(L, q)
    BY DEF AllFailed
  <2>3. AllFailed(ledger, q)' <=> AllFailed(ledger, q)
    BY <1>5 DEF AllFailed
  <2> QED BY <1>2, <1>5, <2>1, <2>2, <2>3 DEF FailureKnown
<1> QED BY <1>9, <1>12, <1>13, <1>14, <1>15, <1>16, <1>17 DEF ExtInv

\* The entry of a failed sync says so once the update is written.
LEMMA AmendKeepsInv ==
  ASSUME ExtInv, NEW r \in Syncs, NEW kind \in {"message", "unready"},
         UNCHANGED <<ledger, round, tabs, started, mishap>>,
         \/ sync' = sync
         \/ sync[r] = "unready" /\ sync' = [sync EXCEPT ![r] = "unreadyEntry"],
         sync'[r] \in {"failed", "unreadyEntry"},
         messages' \subseteq messages,
         \A m \in messages : m \in messages' \/ m.about = r,
         ReadToUpdate(r, kind, r, "failed")
  PROVE  ExtInv'
<1>1. ExtTypeOK /\ ledger \in Seq(LedgerEntry) /\ OneEach(ledger)
  BY DEF ExtInv, ExtTypeOK, RealInv
<1>2. sync' \in [Syncs -> SyncStages] /\ \A q \in Syncs : q # r => sync'[q] = sync[q]
  BY <1>1 DEF ExtTypeOK, SyncStages
<1>3. \A q \in Syncs :
        /\ sync'[q] = "new" <=> sync[q] = "new"
        /\ sync[q] = "completed" => sync'[q] = "completed"
        /\ sync[q] = "failed" => sync'[q] = "failed"
        /\ sync[q] \in {"failed", "unreadyEntry"} => sync'[q] \in {"failed", "unreadyEntry"}
        /\ sync'[q] \in {"failed", "unreadyEntry"} =>
             sync[q] \in {"failed", "unreadyEntry"} \/ q = r
  BY <1>1, <1>2 DEF ExtTypeOK
<1>4. /\ updates' \subseteq Update /\ updates \subseteq updates'
      /\ \A v \in updates' : v \in updates \/ Amends(v)'
      /\ FailureKnown(r)'
  <2>1. CASE IndexOf(r) = 0
    <3>1. updates' = updates
      BY <2>1 DEF ReadToUpdate
    <3>2. AllFailed(ledger, r)'
      BY <1>1, <2>1, IndexOfIs DEF AllFailed, HasRun
    <3> QED BY <1>1, <3>1, <3>2 DEF FailureKnown, ExtTypeOK
  <2>2. CASE IndexOf(r) # 0
    <3>1. PICK N : N = WithStatus(IndexOf(r), "failed")
      OBVIOUS
    <3>2. PICK u : /\ u = [owner |-> r, kind |-> kind, read |-> ledger, next |-> N]
                   /\ updates' = updates \union {u}
      BY <2>2, <3>1 DEF ReadToUpdate, WithStatus
    <3>3. /\ N \in Seq(LedgerEntry) /\ Len(N) = Len(ledger)
          /\ \A i \in 1 .. Len(ledger) :
               /\ N[i].run = ledger[i].run
               /\ i # IndexOf(r) => N[i] = ledger[i]
               /\ i = IndexOf(r) => N[i].run = r /\ N[i].status = "failed"
      <4>1. "failed" \in SyncStatus
        BY DEF SyncStatus
      <4> QED BY <1>1, <2>2, <3>1, <4>1, AmendedIs
    <3>4. u \in Update /\ u.owner = r /\ u.kind = kind /\ u.read = ledger /\ u.next = N
      BY <1>1, <3>2, <3>3 DEF Update
    <3>5. Amends(u)'
      <4>1. ASSUME NEW i \in 1 .. Len(ledger), N[i] # ledger[i]
            PROVE  N[i].status = "failed" /\ sync'[ledger[i].run] \in {"failed", "unreadyEntry"}
        <5>1. i = IndexOf(r)
          BY <3>3, <4>1
        <5>2. ledger[i].run = r /\ N[i].status = "failed"
          BY <3>3, <5>1
        <5> QED BY <5>2
      <4> QED BY <3>3, <3>4, <4>1 DEF Amends
    <3>6. AllFailed(N, r)
      <4> SUFFICES ASSUME NEW i \in 1 .. Len(N), N[i].run = r PROVE N[i].status = "failed"
        BY DEF AllFailed
      <4>1. PICK k \in 1 .. Len(ledger) : k = IndexOf(r) /\ ledger[k].run = r
        BY <1>1, <2>2, IndexOfIs, LenProperties
      <4>2. i \in 1 .. Len(ledger) /\ ledger[i].run = r
        BY <3>3
      <4>3. i = k
        BY <1>1, <4>1, <4>2 DEF OneEach
      <4> QED BY <3>3, <4>1, <4>3
    <3>7. AllFailed(N, r)'
      BY <3>6 DEF AllFailed
    <3> QED BY <1>1, <3>2, <3>4, <3>5, <3>7 DEF FailureKnown, ExtTypeOK
  <2> QED BY <2>1, <2>2
<1>5. ExtTypeOK'
  BY <1>1, <1>2, <1>4 DEF ExtTypeOK
<1>6. \A m \in messages : m.status = "failed" => m \in messages' \/ FailureKnown(m.about)'
  BY <1>4
<1> QED BY <1>3, <1>4, <1>5, <1>6, QuietKeepsInv

LEMMA RecordKeepsInv ==
  ASSUME ExtInv, NEW n \in Rounds, RecordUnready(n)
  PROVE  ExtInv'
<1>1. PICK r : r = round[n].run
  OBVIOUS
<1>2. ExtTypeOK
  BY DEF ExtInv
<1>3. /\ r \in Syncs /\ sync[r] = "unready"
      /\ sync' = [sync EXCEPT ![r] = "unreadyEntry"]
      /\ ReadToUpdate(r, "unready", r, "failed")
      /\ UNCHANGED <<ledger, round, messages, tabs, started, mishap>>
  BY <1>1, <1>2 DEF RecordUnready, ExtTypeOK
<1>4. sync'[r] = "unreadyEntry"
  BY <1>2, <1>3 DEF ExtTypeOK
<1> QED BY <1>3, <1>4, AmendKeepsInv

LEMMA MessageKeepsInv ==
  ASSUME ExtInv, NEW m \in messages, HandleSyncMessage(m)
  PROVE  ExtInv'
<1>1. ExtTypeOK
  BY DEF ExtInv
<1>2. /\ m.about \in Syncs /\ m.status \in {"success", "failed"}
      /\ messages' = messages \ {m}
      /\ ReadToUpdate(m.about, "message", m.id, m.status)
      /\ UNCHANGED <<ledger, round, sync, tabs, started, mishap>>
  BY <1>1 DEF HandleSyncMessage, ExtTypeOK
<1>3. CASE m.status = "success"
  <2>1. m.id = NoSync
    BY <1>3 DEF ExtInv, RealInv
  <2>2. ~ HasRun(ledger, NoSync)
    <3>1. ledger \in Seq(LedgerEntry)
      BY <1>1 DEF ExtTypeOK
    <3>2. \A i \in 1 .. Len(ledger) : ledger[i] \in LedgerEntry
      BY <3>1, ElementOfSeq
    <3> QED BY <3>2, ExtensionConstants DEF HasRun, LedgerEntry
  <2>3. IndexOf(m.id) = 0
    BY <1>1, <2>1, <2>2, IndexOfIs
  <2>4. updates' = updates
    BY <1>2, <2>3 DEF ReadToUpdate
  <2>5. ExtTypeOK'
    BY <1>1, <1>2, <2>4 DEF ExtTypeOK
  <2>6. \A v \in updates' : v \in updates
    BY <2>4
  <2>7. \A q \in messages : q.status = "failed" => q \in messages'
    BY <1>2, <1>3
  <2> QED BY <1>2, <2>4, <2>5, <2>6, <2>7, QuietKeepsInv
<1>4. CASE m.status = "failed"
  <2>1. PICK r \in Syncs : r = m.about
    BY <1>2
  <2>2. m.id = r /\ sync[r] = "failed"
    BY <1>4, <2>1 DEF ExtInv, RealInv
  <2>3. /\ ReadToUpdate(r, "message", r, "failed")
        /\ sync'[r] = "failed" /\ sync' = sync
        /\ messages' \subseteq messages
        /\ \A q \in messages : q \in messages' \/ q.about = r
    BY <1>2, <1>4, <2>1, <2>2
  <2> QED BY <1>2, <2>3, AmendKeepsInv
<1> QED BY <1>2, <1>3, <1>4

\* Of the ledger that a set without mishap leaves: it is that of the append it
\* ends, or the one before it with other statuses.
LEMMA SetIs ==
  ASSUME ExtInv, NEW u \in updates
  PROVE  /\ u.owner \in Syncs /\ u.read \in Seq(LedgerEntry) /\ u.next \in Seq(LedgerEntry)
         /\ Len(u.next) \in Nat /\ Len(u.read) \in Nat /\ Len(u.next) <= MaxSyncs
         /\ u.kind = "append" =>
              /\ Len(u.next) = IF Len(u.read) + 1 > MaxSyncs THEN MaxSyncs ELSE Len(u.read) + 1
              /\ 1 \in 1 .. Len(u.next) /\ u.next[1].run = u.owner
              /\ \A i \in 1 .. Len(u.next) :
                   i # 1 => i - 1 \in 1 .. Len(u.read) /\ u.next[i] = u.read[i - 1]
         /\ u.kind # "append" =>
              /\ Len(u.next) = Len(u.read)
              /\ \A i \in 1 .. Len(u.next) :
                   /\ u.next[i].run = u.read[i].run
                   /\ u.next[i] # u.read[i] => u.next[i].status = "failed"
<1>1. ExtTypeOK /\ AppendInv /\ AmendInv
  BY DEF ExtInv
<1>2. u.owner \in Syncs /\ u.read \in Seq(LedgerEntry) /\ u.next \in Seq(LedgerEntry)
  BY <1>1 DEF ExtTypeOK, Update
<1>3. Len(u.next) \in Nat /\ Len(u.read) \in Nat
  BY <1>2, LenProperties
<1>4. CASE u.kind = "append"
  <2>1. PICK L, r, N : L = u.read /\ r = u.owner /\ N = u.next
    OBVIOUS
  <2>2. L \in Seq(LedgerEntry) /\ r \in Syncs /\ N = WithNewest(L, r)
    BY <1>1, <1>2, <1>4, <2>1 DEF AppendInv, WithNewest
  <2>3. /\ N \in Seq(LedgerEntry) /\ Len(L) \in Nat
        /\ Len(N) = IF Len(L) + 1 > MaxSyncs THEN MaxSyncs ELSE Len(L) + 1
        /\ 1 \in 1 .. Len(N) /\ Len(N) <= MaxSyncs /\ Len(N) \in Nat
        /\ N[1].run = r /\ N[1].status = "in_progress"
        /\ \A i \in 1 .. Len(N) : i # 1 => i - 1 \in 1 .. Len(L) /\ N[i] = L[i - 1]
    BY <2>2, AppendedIs
  <2>4. /\ Len(u.next) = IF Len(u.read) + 1 > MaxSyncs THEN MaxSyncs ELSE Len(u.read) + 1
        /\ Len(u.next) <= MaxSyncs /\ 1 \in 1 .. Len(u.next) /\ u.next[1].run = u.owner
    BY <2>1, <2>3
  <2>5. \A i \in 1 .. Len(u.next) :
          i # 1 => i - 1 \in 1 .. Len(u.read) /\ u.next[i] = u.read[i - 1]
    BY <2>1, <2>3
  <2> QED BY <1>2, <1>3, <1>4, <2>4, <2>5
<1>5. CASE u.kind # "append"
  BY <1>1, <1>2, <1>3, <1>5 DEF AmendInv
<1> QED BY <1>4, <1>5

\* Where the newest entry stands after a set without mishap.
LEMMA SetIsNewer ==
  ASSUME ExtInv, NEW u \in updates, Set(u), ~ mishap', NEW k \in 0 .. Len(started),
         NewestIs(ledger, k),
         \A v \in updates : \E j \in 0 .. k :
           /\ NewestIs(v.read, j)
           /\ v.kind = "append" => \E i \in 1 .. Len(started) : v.owner = started[i] /\ i > j
  PROVE  /\ u.kind = "append" => \E i \in k + 1 .. Len(started) :
                                    u.owner = started[i] /\ NewestIs(ledger, i)'
         /\ u.kind # "append" => NewestIs(ledger, k)'
<1>1. /\ ledger' = u.next /\ u.read = ledger /\ ~ mishap /\ started' = started
      /\ Len(started) \in Nat
  BY LenProperties DEF Set, ExtInv, ExtTypeOK
<1>2. CASE u.kind = "append"
  <2>1. PICK j \in 0 .. k, i \in 1 .. Len(started) :
          NewestIs(u.read, j) /\ u.owner = started[i] /\ i > j
    BY <1>2
  <2>2. \A x, y \in 1 .. Len(started) : started[x] = started[y] => x = y
    BY <1>1 DEF ExtInv, StartedInv
  <2>3. j = k
    BY <1>1, <2>1, <2>2, NewestOnce
  <2>4. i \in k + 1 .. Len(started)
    BY <1>1, <2>1, <2>3
  <2>5. 1 \in 1 .. Len(u.next) /\ u.next[1].run = u.owner
    BY <1>2, SetIs
  <2>6. u.next # << >>
    BY <2>5
  <2>7. NewestIs(ledger, i)'
    BY <1>1, <2>1, <2>5, <2>6 DEF NewestIs
  <2> QED BY <1>2, <2>1, <2>4, <2>7
<1>3. CASE u.kind # "append"
  <2>1. /\ Len(u.next) = Len(ledger) /\ u.next \in Seq(LedgerEntry) /\ ledger \in Seq(LedgerEntry)
        /\ \A i \in 1 .. Len(u.next) : u.next[i].run = ledger[i].run
    BY <1>1, <1>3, SetIs
  <2>2. (u.next = << >>) <=> (ledger = << >>)
    BY <2>1, EmptySeq
  <2>3. ledger # << >> => 1 \in 1 .. Len(u.next)
    BY <2>1, EmptySeq, LenProperties
  <2>4. NewestIs(ledger, k)'
    BY <1>1, <2>1, <2>2, <2>3 DEF NewestIs
  <2> QED BY <1>3, <2>4
<1> QED BY <1>2, <1>3

LEMMA SetKeepsOrder ==
  ASSUME ExtInv, NEW u \in updates, Set(u)
  PROVE  OrderInv'
<1> SUFFICES ASSUME ~ mishap' PROVE OrderInv'
  BY DEF OrderInv
<1>1. /\ updates' = updates \ {u} /\ started' = started /\ ledger' = u.next
      /\ ledger = u.read /\ ~ mishap
  BY DEF Set
<1>2. /\ ExtTypeOK /\ Len(started) \in Nat /\ Len(ledger) \in Nat
      /\ \A i, j \in 1 .. Len(started) : started[i] = started[j] => i = j
  BY <1>1, LenProperties DEF ExtInv, ExtTypeOK, StartedInv
<1>3. PICK k \in 0 .. Len(started) :
        /\ NewestIs(ledger, k)
        /\ \A v \in updates : \E j \in 0 .. k :
             /\ NewestIs(v.read, j)
             /\ v.kind = "append" => \E i \in 1 .. Len(started) : v.owner = started[i] /\ i > j
  BY <1>1 DEF ExtInv, OrderInv
<1>4. /\ u.kind = "append" => \E i \in k + 1 .. Len(started) :
                                u.owner = started[i] /\ NewestIs(ledger, i)'
      /\ u.kind # "append" => NewestIs(ledger, k)'
  BY <1>3, SetIsNewer
<1>5. PICK l \in 0 .. Len(started) :
        /\ k <= l /\ NewestIs(ledger, l)'
        /\ u.kind = "append" => k < l /\ u.owner = started[l]
        /\ u.kind # "append" => l = k
  <2>1. CASE u.kind = "append"
    BY <1>2, <1>4, <2>1
  <2>2. CASE u.kind # "append"
    BY <1>2, <1>4, <2>2
  <2> QED BY <2>1, <2>2
<1>6. \A L, j : NewestIs(L, j)' <=> NewestIs(L, j)
  BY <1>1 DEF NewestIs
<1>7. ASSUME NEW v \in updates'
      PROVE  \E j \in 0 .. l :
               /\ NewestIs(v.read, j)
               /\ v.kind = "append" => \E i \in 1 .. Len(started) : v.owner = started[i] /\ i > j
  <2>1. PICK j \in 0 .. k :
          /\ NewestIs(v.read, j)
          /\ v.kind = "append" => \E i \in 1 .. Len(started) : v.owner = started[i] /\ i > j
    BY <1>1, <1>3
  <2>2. j \in 0 .. l
    BY <1>2, <1>5
  <2> QED BY <2>1, <2>2
<1>8. ASSUME \A v \in updates' : ~ Doomed(v)'
      PROVE  \E x \in 0 .. Len(started) :
               /\ Holds(ledger, x)'
               /\ \A i \in x + 1 .. Len(started) : \E v \in updates' :
                    v.kind = "append" /\ v.owner = started[i]
  <2>1. ASSUME NEW v \in updates', v.kind = "append",
               NEW j \in 0 .. Len(started), NewestIs(v.read, j), j < l
        PROVE  FALSE
    <3>1. NewestIs(v.read, j)' /\ l \in 0 .. Len(started') /\ j \in 0 .. Len(started')
      BY <1>1, <1>6, <2>1
    <3>2. Doomed(v)'
      BY <1>5, <2>1, <3>1 DEF Doomed
    <3> QED BY <1>8, <3>2
  <2>2. ASSUME NEW v \in updates, Doomed(v) PROVE FALSE
    <3>1. PICK i, j \in 0 .. Len(started) : NewestIs(v.read, i) /\ NewestIs(ledger, j) /\ i < j
      BY <2>2 DEF Doomed
    <3>2. j = k
      BY <1>2, <1>3, <3>1, NewestOnce
    <3>3. CASE v = u
      <4>1. i = j
        BY <1>1, <1>2, <3>1, <3>3, NewestOnce
      <4> QED BY <1>2, <3>1, <4>1
    <3>4. CASE v # u
      <4>1. v \in updates' /\ v.kind = "append" /\ i < l
        BY <1>1, <1>2, <1>5, <2>2, <3>1, <3>2, <3>4 DEF Doomed
      <4> QED BY <2>1, <3>1, <4>1
    <3> QED BY <3>3, <3>4
  <2>3. PICK x \in 0 .. Len(started) :
          /\ Holds(ledger, x)
          /\ \A i \in x + 1 .. Len(started) : \E v \in updates :
               v.kind = "append" /\ v.owner = started[i]
    BY <1>1, <2>2 DEF ExtInv, OrderInv
  <2>4. x = k
    <3>1. NewestIs(ledger, x)
      BY <1>2, <2>3, ReadHoldsNewest
    <3> QED BY <1>2, <1>3, <3>1, NewestOnce
  <2>5. /\ Len(ledger) = IF k > MaxSyncs THEN MaxSyncs ELSE k
        /\ \A i \in 1 .. Len(ledger) : ledger[i].run = started[k + 1 - i]
    BY <2>3, <2>4 DEF Holds
  <2>6. CASE u.kind = "append"
    <3>1. ASSUME NEW v \in updates, v.kind = "append", v # u PROVE FALSE
      <4>1. PICK j \in 0 .. k : NewestIs(v.read, j)
        BY <1>3
      <4>2. j < l /\ j \in 0 .. Len(started) /\ v \in updates'
        BY <1>1, <1>2, <1>5, <2>6, <3>1
      <4> QED BY <2>1, <3>1, <4>1, <4>2
    <3>2. ASSUME NEW i \in k + 1 .. Len(started) PROVE i = l
      <4>1. started[i] = u.owner
        BY <2>3, <2>4, <3>1
      <4>2. i \in 1 .. Len(started) /\ l \in 1 .. Len(started) /\ started[l] = u.owner
        BY <1>2, <1>5, <2>6
      <4> QED BY <1>2, <4>1, <4>2
    <3>3. l = k + 1 /\ Len(started) = k + 1
      <4>1. k + 1 \in k + 1 .. Len(started) /\ Len(started) \in k + 1 .. Len(started)
        BY <1>2, <1>5, <2>6
      <4> QED BY <1>2, <3>2, <4>1
    <3>4. /\ Len(u.next) \in Nat
          /\ Len(u.next) = IF Len(ledger) + 1 > MaxSyncs THEN MaxSyncs ELSE Len(ledger) + 1
          /\ u.next[1].run = u.owner
          /\ \A i \in 1 .. Len(u.next) :
               i # 1 => i - 1 \in 1 .. Len(ledger) /\ u.next[i] = ledger[i - 1]
      BY <1>1, <2>6, SetIs
    <3>5. Len(u.next) = IF k + 1 > MaxSyncs THEN MaxSyncs ELSE k + 1
      BY <1>2, <2>5, <3>4, ExtensionConstants
    <3>6. ASSUME NEW i \in 1 .. Len(u.next) PROVE u.next[i].run = started[k + 1 + 1 - i]
      <4>1. CASE i = 1
        <5>1. k + 1 + 1 - i = l
          BY <1>2, <3>3, <4>1
        <5> QED BY <1>5, <2>6, <3>4, <4>1, <5>1
      <4>2. CASE i # 1
        <5>1. i - 1 \in 1 .. Len(ledger) /\ u.next[i] = ledger[i - 1]
          BY <3>4, <4>2
        <5>2. u.next[i].run = started[k + 1 - (i - 1)]
          BY <2>5, <5>1
        <5>3. k + 1 - (i - 1) = k + 1 + 1 - i
          BY <1>2, <3>4
        <5> QED BY <5>2, <5>3
      <4> QED BY <4>1, <4>2
    <3>7. Holds(ledger, k + 1)'
      BY <1>1, <1>2, <3>3, <3>5, <3>6 DEF Holds
    <3>8. \A i \in k + 1 + 1 .. Len(started) : FALSE
      BY <1>2, <3>3
    <3> QED BY <1>5, <3>3, <3>7, <3>8
  <2>7. CASE u.kind # "append"
    <3>1. /\ Len(u.next) = Len(ledger)
          /\ \A i \in 1 .. Len(u.next) : u.next[i].run = ledger[i].run
      BY <1>1, <2>7, SetIs
    <3>2. Holds(ledger, k)'
      BY <1>1, <2>5, <3>1 DEF Holds
    <3>3. \A i \in k + 1 .. Len(started) : \E v \in updates' :
            v.kind = "append" /\ v.owner = started[i]
      BY <1>1, <2>3, <2>4, <2>7
    <3> QED BY <3>2, <3>3
  <2> QED BY <2>6, <2>7
<1>9. NewestIs(ledger, l)' /\ l \in 0 .. Len(started')
  BY <1>1, <1>5
<1>10. ASSUME NEW v \in updates'
       PROVE  \E j \in 0 .. l :
                /\ NewestIs(v.read, j)'
                /\ v.kind = "append" => \E i \in 1 .. Len(started') : v.owner = started'[i] /\ i > j
  BY <1>1, <1>6, <1>7
<1> QED BY <1>1, <1>8, <1>9, <1>10 DEF OrderInv

LEMMA SetKeepsInv ==
  ASSUME ExtInv, NEW u \in updates, Set(u)
  PROVE  ExtInv'
<1>1. /\ ExtTypeOK /\ AppendInv /\ AmendInv /\ RealInv /\ StartedInv /\ FailedInv
      /\ updates \subseteq Update /\ sync \in [Syncs -> SyncStages]
  BY DEF ExtInv, ExtTypeOK
<1>2. /\ updates' = updates \ {u} /\ ledger' = u.next
      /\ mishap' = (mishap \/ ledger # u.read)
      /\ UNCHANGED <<round, messages, tabs, started>>
  BY DEF Set
<1>3. /\ u.owner \in Syncs /\ u.next \in Seq(LedgerEntry) /\ u.kind \in {"append", "message", "unready"}
      /\ Len(u.next) <= MaxSyncs
  BY <1>1, SetIs DEF Update
<1>4. u.kind = "append" => sync[u.owner] = "new"
  BY <1>1 DEF AppendInv
<1>5. /\ sync' \in [Syncs -> SyncStages]
      /\ \A q \in Syncs : \/ sync'[q] = sync[q] /\ (u.kind # "append" \/ q # u.owner)
                          \/ u.kind = "append" /\ q = u.owner /\ sync[q] = "new" /\ sync'[q] = "entry"
  <2>1. CASE u.kind = "append"
    BY <1>1, <1>3, <1>4, <2>1 DEF Set, SyncStages
  <2>2. CASE u.kind # "append"
    BY <1>1, <2>2 DEF Set
  <2> QED BY <2>1, <2>2
<1>6. ExtTypeOK'
  <2>1. mishap' \in BOOLEAN
    BY <1>2
  <2> QED BY <1>1, <1>2, <1>3, <1>5, <2>1 DEF ExtTypeOK
<1>7. AppendInv'
  <2>1. \A L, r : HasRun(L, r)' <=> HasRun(L, r)
    BY DEF HasRun
  <2>2. \A L : Kept(L)' = Kept(L)
    BY DEF Kept
  <2>3. ASSUME NEW v \in updates', v.kind = "append"
        PROVE  /\ sync'[v.owner] = "new"
               /\ \E n \in Rounds : round'[n].run = v.owner
    <3>1. v \in updates /\ v # u /\ v.owner \in Syncs
      BY <1>1, <1>2 DEF Update
    <3>2. sync[v.owner] = "new" /\ \E n \in Rounds : round[n].run = v.owner
      BY <1>1, <2>3, <3>1 DEF AppendInv
    <3>3. u.kind # "append" \/ v.owner # u.owner
      BY <1>1, <2>3, <3>1 DEF AppendInv
    <3> QED BY <1>2, <1>5, <3>1, <3>2, <3>3
  <2>4. ASSUME NEW q \in Syncs, sync'[q] = "new"
        PROVE  /\ ~ HasRun(u.next, q)
               /\ \A v \in updates' : HasRun(v.next, q) => v.kind = "append" /\ v.owner = q
    <3>1. sync[q] = "new" /\ ~ (u.kind = "append" /\ u.owner = q)
      BY <1>5, <2>4
    <3> QED BY <1>1, <1>2, <3>1 DEF AppendInv
  <2>6. \A q : HasRun(ledger, q)' <=> HasRun(u.next, q)
    BY <1>2 DEF HasRun
  <2>7. /\ \A v \in updates' : v \in updates
        /\ \A v \in updates : v.kind = "append" =>
             /\ v.next = Kept(<<[run |-> v.owner, status |-> "in_progress"]>> \o v.read)
             /\ ~ HasRun(v.read, v.owner)
        /\ \A v, w \in updates :
             v.kind = "append" /\ w.kind = "append" /\ v.owner = w.owner => v = w
    BY <1>1, <1>2 DEF AppendInv
  <2> QED BY <2>1, <2>2, <2>3, <2>4, <2>6, <2>7 DEF AppendInv
<1>8. AmendInv'
  BY <1>1, <1>2 DEF AmendInv
<1>9. RealInv'
  <2>1. \A L : OneEach(L)' <=> OneEach(L)
    BY DEF OneEach
  <2>2. \A L : L \in Seq(LedgerEntry) /\ Real(L) => Real(L)'
    <3> SUFFICES ASSUME NEW L \in Seq(LedgerEntry), Real(L), NEW i \in 1 .. Len(L)
                 PROVE  EntryReal(L[i])'
      BY DEF Real
    <3>1. L[i] \in LedgerEntry
      BY ElementOfSeq
    <3>2. L[i].run \in Syncs
      BY <3>1 DEF LedgerEntry
    <3>3. EntryReal(L[i])
      BY DEF Real
    <3> QED BY <1>5, <3>2, <3>3 DEF EntryReal
  <2>3. \A v \in updates : Real(v.next)' /\ OneEach(v.next) /\ v.next \in Seq(LedgerEntry)
    BY <1>1, <2>2 DEF RealInv, Update
  <2>4. Real(ledger)' /\ OneEach(ledger)'
    <3>1. Real(ledger)' <=> Real(u.next)'
      BY <1>2 DEF Real
    <3>2. OneEach(ledger)' <=> OneEach(u.next)
      BY <1>2 DEF OneEach
    <3> QED BY <2>3, <3>1, <3>2
  <2>5. ASSUME NEW m \in messages
        PROVE  IF m.status = "success" THEN m.id = NoSync
               ELSE m.id = m.about /\ sync'[m.about] = "failed"
    <3>1. m.about \in Syncs
      BY <1>1 DEF ExtTypeOK
    <3>2. IF m.status = "success" THEN m.id = NoSync
          ELSE m.id = m.about /\ sync[m.about] = "failed"
      BY <1>1 DEF RealInv
    <3> QED BY <1>5, <3>1, <3>2
  <2>6. \A v \in updates' : v \in updates
    BY <1>2
  <2> QED BY <1>2, <2>1, <2>3, <2>4, <2>5, <2>6 DEF RealInv
<1>10. StartedInv'
  <2>1. \A i \in 1 .. Len(started) : started[i] \in Syncs
    BY <1>1, ElementOfSeq DEF ExtTypeOK
  <2> QED BY <1>1, <1>2, <1>5, <2>1 DEF StartedInv
<1>11. FailedInv'
  <2> SUFFICES ASSUME ~ mishap', NEW q \in Syncs, sync'[q] \in {"failed", "unreadyEntry"}
               PROVE  FailureKnown(q)'
    BY DEF FailedInv
  <2>1. /\ ~ mishap /\ u.read = ledger /\ sync[q] \in {"failed", "unreadyEntry"}
        /\ u.kind # "append" \/ q # u.owner
    BY <1>2, <1>5
  <2>2. FailureKnown(q)
    BY <1>1, <2>1 DEF FailedInv
  <2>3. \A L : AllFailed(L, q)' <=> AllFailed(L, q)
    BY DEF AllFailed
  <2>4. AllFailed(ledger, q)' <=> AllFailed(u.next, q)
    BY <1>2 DEF AllFailed
  <2>5. ASSUME AllFailed(ledger, q) PROVE AllFailed(u.next, q)
    <3> SUFFICES ASSUME NEW i \in 1 .. Len(u.next), u.next[i].run = q
                 PROVE  u.next[i].status = "failed"
      BY DEF AllFailed
    <3>1. CASE u.kind = "append"
      <4>1. u.next[1].run = u.owner /\ (i # 1 => i - 1 \in 1 .. Len(ledger) /\ u.next[i] = ledger[i - 1])
        BY <2>1, <3>1, SetIs
      <4>2. i # 1
        BY <2>1, <3>1, <4>1
      <4> QED BY <2>5, <4>1, <4>2 DEF AllFailed
    <3>2. CASE u.kind # "append"
      <4>1. /\ i \in 1 .. Len(ledger) /\ u.next[i].run = ledger[i].run
            /\ u.next[i] # ledger[i] => u.next[i].status = "failed"
        BY <2>1, <3>2, SetIs
      <4> QED BY <2>5, <4>1 DEF AllFailed
    <3> QED BY <3>1, <3>2
  <2> QED BY <1>2, <2>2, <2>3, <2>4, <2>5 DEF FailureKnown
<1>12. OrderInv'
  BY SetKeepsOrder
<1> QED BY <1>6, <1>7, <1>8, <1>9, <1>10, <1>11, <1>12 DEF ExtInv

LEMMA ExtInitInv == ExtInit => ExtInv
<1> SUFFICES ASSUME ExtInit PROVE ExtInv
  OBVIOUS
<1>1. /\ ledger = << >> /\ sync = [r \in Syncs |-> "new"] /\ updates = {} /\ messages = {}
      /\ tabs = {} /\ started = << >> /\ mishap = FALSE
      /\ round = [n \in Rounds |-> [run |-> NoSync, left |-> Portals]]
  BY DEF ExtInit
<1>2. Len(ledger) = 0 /\ Len(started) = 0 /\ ledger \in Seq(LedgerEntry) /\ started \in Seq(Syncs)
  BY <1>1, EmptySeq
<1>3. ExtTypeOK
  <2>1. round \in [Rounds -> [run : Syncs \union {NoSync}, left : 0 .. Portals]]
    BY <1>1, ExtensionConstants
  <2>2. sync \in [Syncs -> SyncStages]
    BY <1>1 DEF SyncStages
  <2>3. Len(ledger) <= MaxSyncs
    BY <1>2, ExtensionConstants
  <2>4. mishap \in BOOLEAN
    BY <1>1
  <2> QED BY <1>1, <1>2, <2>1, <2>2, <2>3, <2>4 DEF ExtTypeOK
<1>4. AppendInv /\ AmendInv
  BY <1>1, <1>2 DEF AppendInv, AmendInv, HasRun
<1>5. RealInv
  BY <1>1, <1>2 DEF RealInv, Real, OneEach
<1>6. StartedInv
  BY <1>1, <1>2 DEF StartedInv
<1>7. OrderInv
  <2>1. 0 \in 0 .. Len(started) /\ NewestIs(ledger, 0) /\ Holds(ledger, 0)
    BY <1>1, <1>2, ExtensionConstants DEF NewestIs, Holds
  <2>2. \A i \in 0 + 1 .. Len(started) : FALSE
    BY <1>2
  <2> QED BY <1>1, <2>1, <2>2 DEF OrderInv
<1>8. FailedInv
  BY <1>1 DEF FailedInv
<1> QED BY <1>3, <1>4, <1>5, <1>6, <1>7, <1>8 DEF ExtInv

LEMMA ExtNextInv == ExtInv /\ [ExtNext]_extVars => ExtInv'
<1> SUFFICES ASSUME ExtInv, [ExtNext]_extVars PROVE ExtInv'
  OBVIOUS
<1>1. ASSUME NEW n \in Rounds, NEW r \in Syncs, StartSync(n, r) PROVE ExtInv'
  BY <1>1, StartKeepsInv
<1>2. ASSUME NEW n \in Rounds, OpenTab(n) \/ AskSync(n) \/ NotReady(n) \/ NextPortal(n)
      PROVE  ExtInv'
  BY <1>2, RoundKeepsInv
<1>3. ASSUME NEW n \in Rounds, RecordUnready(n) PROVE ExtInv'
  BY <1>3, RecordKeepsInv
<1>4. ASSUME NEW r \in Syncs, CompleteSync(r) \/ FailSync(r) \/ CloseTab(r) PROVE ExtInv'
  BY <1>4, SyncKeepsInv
<1>5. ASSUME NEW u \in updates, Set(u) PROVE ExtInv'
  BY <1>5, SetKeepsInv
<1>6. ASSUME NEW m \in messages, HandleSyncMessage(m) PROVE ExtInv'
  BY <1>6, MessageKeepsInv
<1>7. CASE StopWorker
  BY <1>7, StopKeepsInv
<1>8. CASE UNCHANGED extVars
  BY <1>8 DEF extVars, ExtInv, ExtTypeOK, AppendInv, AmendInv, RealInv, StartedInv, OrderInv,
              FailedInv, HasRun, OneEach, Real, EntryReal, NewestIs, Holds, Doomed, AllFailed,
              FailureKnown
<1> QED BY <1>1, <1>2, <1>3, <1>4, <1>5, <1>6, <1>7, <1>8 DEF ExtNext

\* What the ledger, the operations on their way and the stages of the syncs have
\* to do with each other stays so (storage.ts; service-worker.ts).
THEOREM ExtInvAlways == ExtSpec => []ExtInv
BY ExtInitInv, ExtNextInv, PTL DEF ExtSpec

\* The variables of the extension keep their types, and the ledger its limit.
THEOREM ExtTypeCorrect == ExtSpec => []ExtTypeOK
<1>1. ExtInv => ExtTypeOK
  BY DEF ExtInv
<1> QED BY <1>1, ExtInvAlways, PTL

LEMMA FailuresAreReal == ExtInv => FailedIsReal
<1> SUFFICES ASSUME ExtInv, NEW e \in ToSet(ledger) PROVE EntryReal(e)
  BY DEF FailedIsReal, EntryReal
<1>1. PICK i \in 1 .. Len(ledger) : e = ledger[i]
  <2>1. ledger \in Seq(LedgerEntry)
    BY DEF ExtInv, ExtTypeOK
  <2>2. DOMAIN ledger = 1 .. Len(ledger)
    BY <2>1, LenProperties
  <2> QED BY <2>2 DEF ToSet
<1> QED BY <1>1 DEF ExtInv, RealInv, Real

LEMMA FailuresAreRecorded ==
  ExtInv => Recorded({"failed", "unreadyEntry"}, "failed")
<1> SUFFICES ASSUME ExtInv, NEW i \in DOMAIN started,
                    sync[started[i]] \in {"failed", "unreadyEntry"}, Settled(started[i]),
                    i + MaxSyncs > Len(started), \A u \in updates : u.kind # "append", ~ mishap
             PROVE  [run |-> started[i], status |-> "failed"] \in ToSet(ledger)
  BY DEF Recorded
<1>1. /\ ledger \in Seq(LedgerEntry) /\ started \in Seq(Syncs)
      /\ Len(ledger) \in Nat /\ Len(started) \in Nat
      /\ DOMAIN ledger = 1 .. Len(ledger) /\ i \in 1 .. Len(started)
  BY LenProperties DEF ExtInv, ExtTypeOK
<1>2. PICK r \in Syncs : r = started[i]
  BY <1>1, ElementOfSeq
<1>3. \A u \in updates : ~ Doomed(u)
  BY DEF Doomed
<1>4. PICK k \in 0 .. Len(started) :
        /\ Holds(ledger, k)
        /\ \A j \in k + 1 .. Len(started) : \E u \in updates :
             u.kind = "append" /\ u.owner = started[j]
  BY <1>3 DEF ExtInv, OrderInv
<1>5. k = Len(started)
  <2> SUFFICES ASSUME k # Len(started) PROVE FALSE
    OBVIOUS
  <2>1. Len(started) \in k + 1 .. Len(started)
    BY <1>1
  <2> QED BY <1>4, <2>1
<1>6. PICK j \in 1 .. Len(ledger) : ledger[j].run = r
  <2>1. PICK j \in 1 .. Len(ledger) : i = k + 1 - j
    <3>1. Len(started) + 1 - i \in 1 .. Len(ledger)
      BY <1>1, <1>4, <1>5, ExtensionConstants DEF Holds
    <3> QED BY <1>1, <1>5, <3>1
  <2>2. ledger[j].run = started[k + 1 - j]
    BY <1>4 DEF Holds
  <2> QED BY <1>2, <2>1, <2>2
<1>7. AllFailed(ledger, r)
  <2>1. FailureKnown(r)
    BY <1>2 DEF ExtInv, FailedInv
  <2> QED BY <1>2, <2>1 DEF FailureKnown, Settled
<1>8. ledger[j].status = "failed" /\ ledger[j] \in LedgerEntry
  BY <1>1, <1>6, <1>7, ElementOfSeq DEF AllFailed
<1>9. ledger[j] = [run |-> r, status |-> "failed"]
  BY <1>6, <1>8 DEF LedgerEntry
<1> QED BY <1>1, <1>2, <1>9 DEF ToSet

\* The ledger calls no sync failed that did not fail, and misses no failure of
\* the newest syncs, unless two of its operations overlapped or the worker
\* stopped (handleSyncFailed; the catch of runAllSyncs; storage.ts).
THEOREM FailuresAreTold == ExtSpec => []LedgerTellsFailures
<1>1. ExtInv => LedgerTellsFailures
  BY FailuresAreReal, FailuresAreRecorded DEF LedgerTellsFailures
<1> QED BY <1>1, ExtInvAlways, PTL

-----------------------------------------------------------------------------
(* SharedContacts: the array of a student, and the arrays about to be      *)
(* written over it.                                                        *)

\* Whoever accepted an entry is its holder; an entry with rights is one that
\* was accepted, and its holder is in P.
AdminsIn(A, P) ==
  \A i \in 1 .. Len(A) :
    /\ A[i].status = "accepted" => A[i].user \in People
    /\ A[i].admin => A[i].status = "accepted" /\ A[i].user \in P

PlannedInv ==
  \A h \in Routes :
    underway[h] # Free =>
      /\ AdminsIn(underway[h].next, promoted)
      /\ underway[h].op = "change" => Doubled(underway[h].next) \subseteq collided

ContactInv ==
  /\ ContactTypeOK
  /\ AdminsIn(shared, promoted)
  /\ PlannedInv
  /\ LiveAddressesDistinct

-----------------------------------------------------------------------------
(* What the look-ups in the array find. *)

LEMMA MinIsIn ==
  ASSUME NEW S \in SUBSET Nat, S # {}
  PROVE  Min(S) \in S
<1>1. PICK x \in S : \A y \in S : x <= y
  BY LeastExists
<1> QED BY <1>1 DEF Min

LEMMA EntryIs ==
  ASSUME shared \in Seq(Contact), NEW e, EntryOf(e) # 0
  PROVE  EntryOf(e) \in 1 .. Len(shared) /\ shared[EntryOf(e)].email = e
<1> DEFINE I == {i \in 1 .. Len(shared) : shared[i].email = e}
<1>1. EntryOf(e) = IF I # {} THEN Min(I) ELSE 0
  BY DEF EntryOf, SelectInSeq
<1>2. I \in SUBSET Nat
  OBVIOUS
<1> HIDE DEF I
<1>3. EntryOf(e) \in I
  BY <1>1, <1>2, MinIsIn
<1> QED BY <1>3 DEF I

LEMMA InviteIs ==
  ASSUME shared \in Seq(Contact), NEW e, InviteOf(e) # 0
  PROVE  InviteOf(e) \in 1 .. Len(shared) /\ shared[InviteOf(e)].status = "pending"
<1> DEFINE I == {i \in 1 .. Len(shared) : shared[i].email = e /\ shared[i].status = "pending"}
<1>1. InviteOf(e) = IF I # {} THEN Min(I) ELSE 0
  BY DEF InviteOf, SelectInSeq
<1>2. I \in SUBSET Nat
  OBVIOUS
<1> HIDE DEF I
<1>3. InviteOf(e) \in I
  BY <1>1, <1>2, MinIsIn
<1> QED BY <1>3 DEF I

LEMMA AcceptedIs ==
  ASSUME shared \in Seq(Contact), NEW e, AcceptedOf(e) # 0
  PROVE  AcceptedOf(e) \in 1 .. Len(shared) /\ shared[AcceptedOf(e)].status = "accepted"
<1> DEFINE I == {i \in 1 .. Len(shared) : shared[i].email = e /\ shared[i].status = "accepted"}
<1>1. AcceptedOf(e) = IF I # {} THEN Min(I) ELSE 0
  BY DEF AcceptedOf, SelectInSeq
<1>2. I \in SUBSET Nat
  OBVIOUS
<1> HIDE DEF I
<1>3. AcceptedOf(e) \in I
  BY <1>1, <1>2, MinIsIn
<1> QED BY <1>3 DEF I

LEMMA ChangingIs ==
  ASSUME shared \in Seq(Contact), NEW e, ChangingEntry(e) # 0
  PROVE  ChangingEntry(e) \in 1 .. Len(shared)
<1> DEFINE I == {i \in 1 .. Len(shared) :
                   /\ shared[i].transfer # NoChange
                   /\ shared[i].email = e \/ changes[shared[i].transfer].to = e}
<1>1. ChangingEntry(e) = IF I # {} THEN Min(I) ELSE 0
  BY DEF ChangingEntry, SelectInSeq
<1>2. I \in SUBSET Nat
  OBVIOUS
<1> HIDE DEF I
<1>3. ChangingEntry(e) \in I
  BY <1>1, <1>2, MinIsIn
<1> QED BY <1>3 DEF I

-----------------------------------------------------------------------------
(* What a removal keeps. *)

\* A holds entries of the first n of the array, none of them twice.
DrawnFrom(A, n) ==
  /\ A \in Seq(Contact)
  /\ \E f \in [1 .. Len(A) -> 1 .. n] :
       /\ \A i \in 1 .. Len(A) : A[i] = shared[f[i]]
       /\ \A i, j \in 1 .. Len(A) : i # j => f[i] # f[j]

KeptBy(e, g, n) ==
  IF n = 0 THEN << >>
  ELSE IF shared[n].email = e THEN g[n - 1]
  ELSE Append(g[n - 1], shared[n])

IsKept(e, g, k) == g = [n \in 0 .. k |-> KeptBy(e, g, n)]

LEMMA KeptExists ==
  ASSUME NEW e, NEW N \in Nat
  PROVE  \E g : IsKept(e, g, N)
<1> DEFINE S == {k \in Nat : ~ \E g : IsKept(e, g, k)}
<1> SUFFICES ASSUME S # {} PROVE FALSE
  OBVIOUS
<1>1. S \in SUBSET Nat
  OBVIOUS
<1>2. PICK k \in S : \A j \in S : k <= j
  <2> HIDE DEF S
  <2> QED BY <1>1, LeastExists
<1>3. k \in Nat /\ ~ \E g : IsKept(e, g, k)
  BY <1>2
<1>4. CASE k = 0
  <2> DEFINE g == [n \in 0 .. 0 |-> << >>]
  <2>1. IsKept(e, g, 0)
    BY DEF IsKept, KeptBy
  <2> QED BY <1>3, <1>4, <2>1
<1>5. CASE k # 0
  <2>1. k - 1 \in Nat /\ k - 1 \notin S
    BY <1>2, <1>3, <1>5
  <2>2. PICK g : IsKept(e, g, k - 1)
    BY <2>1
  <2> DEFINE f == [n \in 0 .. k |-> IF n = k THEN KeptBy(e, g, k) ELSE g[n]]
  <2>3. \A n \in 0 .. k : f[n] = KeptBy(e, f, n)
    <3> SUFFICES ASSUME NEW n \in 0 .. k PROVE f[n] = KeptBy(e, f, n)
      OBVIOUS
    <3>1. n # 0 => n - 1 \in 0 .. k /\ n - 1 # k /\ f[n - 1] = g[n - 1]
      BY <1>3
    <3>2. KeptBy(e, f, n) = KeptBy(e, g, n)
      BY <3>1 DEF KeptBy
    <3>3. n # k => n \in 0 .. (k - 1) /\ f[n] = g[n]
      BY <1>3
    <3>4. n # k => g[n] = KeptBy(e, g, n)
      BY <2>2, <3>3 DEF IsKept
    <3>5. n = k => f[n] = KeptBy(e, g, n)
      OBVIOUS
    <3> HIDE DEF f
    <3> QED BY <3>2, <3>3, <3>4, <3>5
  <2>4. IsKept(e, f, k)
    <3>1. f = [n \in 0 .. k |-> f[n]]
      OBVIOUS
    <3> HIDE DEF f
    <3> QED BY <2>3, <3>1 DEF IsKept
  <2> QED BY <1>3, <2>4
<1> QED BY <1>4, <1>5

LEMMA WithoutIs ==
  ASSUME shared \in Seq(Contact), NEW e
  PROVE  DrawnFrom(Without(e), Len(shared))
<1>1. Len(shared) \in Nat
  BY LenProperties
<1>2. PICK g : IsKept(e, g, Len(shared)) /\ Without(e) = g[Len(shared)]
  <2> DEFINE kept == CHOOSE kept :
        kept = [n \in 0 .. Len(shared) |->
                  IF n = 0 THEN << >>
                  ELSE IF shared[n].email = e THEN kept[n - 1]
                  ELSE Append(kept[n - 1], shared[n])]
  <2>1. Without(e) = kept[Len(shared)]
    BY DEF Without
  <2>2. \E g : g = [n \in 0 .. Len(shared) |->
                  IF n = 0 THEN << >>
                  ELSE IF shared[n].email = e THEN g[n - 1]
                  ELSE Append(g[n - 1], shared[n])]
    <3>1. PICK g : IsKept(e, g, Len(shared))
      BY <1>1, KeptExists
    <3> QED BY <3>1 DEF IsKept, KeptBy
  <2>3. kept = [n \in 0 .. Len(shared) |->
                  IF n = 0 THEN << >>
                  ELSE IF shared[n].email = e THEN kept[n - 1]
                  ELSE Append(kept[n - 1], shared[n])]
    BY <2>2
  <2> HIDE DEF kept
  <2> QED BY <2>1, <2>3 DEF IsKept, KeptBy
<1>3. \A n \in 0 .. Len(shared) : g[n] = KeptBy(e, g, n)
  BY <1>2 DEF IsKept
<1> DEFINE S == {n \in 0 .. Len(shared) : ~ DrawnFrom(g[n], n)}
<1> SUFFICES ASSUME S # {} PROVE FALSE
  BY <1>1, <1>2
<1>4. S \in SUBSET Nat
  OBVIOUS
<1>5. PICK n \in S : \A j \in S : n <= j
  <2> HIDE DEF S
  <2> QED BY <1>4, LeastExists
<1>6. n \in 0 .. Len(shared) /\ ~ DrawnFrom(g[n], n) /\ g[n] = KeptBy(e, g, n)
  BY <1>3, <1>5
<1>7. CASE n = 0
  <2>1. g[n] = << >>
    BY <1>6, <1>7 DEF KeptBy
  <2>2. PICK A : A = << >>
    OBVIOUS
  <2>3. A \in Seq(Contact) /\ Len(A) = 0 /\ \A i : i \notin 1 .. Len(A)
    BY <2>2
  <2> DEFINE f == [i \in 1 .. Len(A) |-> 0]
  <2>4. f \in [1 .. Len(A) -> 1 .. 0]
    BY <2>3
  <2>5. DrawnFrom(A, 0)
    <3> HIDE DEF f
    <3> QED BY <2>3, <2>4 DEF DrawnFrom
  <2> QED BY <1>6, <1>7, <2>1, <2>2, <2>5
<1>8. CASE n # 0
  <2>1. n - 1 \in 0 .. Len(shared) /\ n - 1 \notin S /\ n \in 1 .. Len(shared) /\ n \in Nat
    BY <1>1, <1>5, <1>6, <1>8
  <2>2. DrawnFrom(g[n - 1], n - 1)
    BY <2>1
  <2>3. PICK A : A = g[n - 1]
    OBVIOUS
  <2>4. A \in Seq(Contact) /\ Len(A) \in Nat
    BY <2>2, <2>3, LenProperties DEF DrawnFrom
  <2>5. PICK f \in [1 .. Len(A) -> 1 .. (n - 1)] :
          /\ \A i \in 1 .. Len(A) : A[i] = shared[f[i]]
          /\ \A i, j \in 1 .. Len(A) : i # j => f[i] # f[j]
    BY <2>2, <2>3 DEF DrawnFrom
  <2>6. ASSUME g[n] = A PROVE FALSE
    <3>1. f \in [1 .. Len(A) -> 1 .. n]
      BY <2>1
    <3>2. DrawnFrom(A, n)
      BY <2>4, <2>5, <3>1 DEF DrawnFrom
    <3> QED BY <1>6, <2>6, <3>2
  <2>7. ASSUME g[n] = Append(A, shared[n]) PROVE FALSE
    <3>1. shared[n] \in Contact
      BY <2>1, ElementOfSeq
    <3>2. PICK B : B = Append(A, shared[n])
      OBVIOUS
    <3>3. /\ B \in Seq(Contact)
          /\ Len(B) = Len(A) + 1
          /\ B[Len(A) + 1] = shared[n]
          /\ \A i \in 1 .. Len(A) : B[i] = A[i]
      BY <2>4, <3>1, <3>2, AppendProperties
    <3> DEFINE h == [i \in 1 .. Len(B) |-> IF i = Len(B) THEN n ELSE f[i]]
    <3>4. h \in [1 .. Len(B) -> 1 .. n]
      <4> SUFFICES ASSUME NEW i \in 1 .. Len(B)
                   PROVE  (IF i = Len(B) THEN n ELSE f[i]) \in 1 .. n
        OBVIOUS
      <4>1. CASE i # Len(B)
        <5>1. i \in 1 .. Len(A)
          BY <2>4, <3>3, <4>1
        <5>2. f[i] \in 1 .. (n - 1)
          BY <2>5, <5>1
        <5> QED BY <2>1, <4>1, <5>2
      <4> QED BY <2>1, <4>1
    <3>5. \A i \in 1 .. Len(B) : B[i] = shared[h[i]]
      BY <2>4, <2>5, <3>3
    <3>6. \A i, j \in 1 .. Len(B) : i # j => h[i] # h[j]
      <4>1. ASSUME NEW i \in 1 .. Len(B), i # Len(B)
            PROVE  i \in 1 .. Len(A) /\ h[i] = f[i] /\ f[i] # n
        <5>1. i \in 1 .. Len(A)
          BY <2>4, <3>3, <4>1
        <5>2. f[i] \in 1 .. (n - 1)
          BY <2>5, <5>1
        <5> QED BY <2>1, <4>1, <5>1, <5>2
      <4>2. h[Len(B)] = n
        BY <2>4, <3>3
      <4> HIDE DEF h
      <4> QED BY <2>5, <4>1, <4>2
    <3>7. DrawnFrom(B, n)
      <4> HIDE DEF h
      <4> QED BY <3>3, <3>4, <3>5, <3>6 DEF DrawnFrom
    <3> QED BY <1>6, <2>7, <3>2, <3>7
  <2> QED BY <1>6, <1>8, <2>3, <2>6, <2>7 DEF KeptBy
<1> QED BY <1>7, <1>8

-----------------------------------------------------------------------------
(* What a request plans keeps rights and addresses in order. *)

LEMMA RemovalPlanned ==
  ASSUME shared \in Seq(Contact), AdminsIn(shared, promoted), NEW e
  PROVE  /\ Without(e) \in Seq(Contact)
         /\ AdminsIn(Without(e), promoted)
         /\ Doubled(Without(e)) \subseteq Doubled(shared)
<1>1. PICK A : A = Without(e)
  OBVIOUS
<1>2. A \in Seq(Contact) /\ DOMAIN A = 1 .. Len(A) /\ DOMAIN shared = 1 .. Len(shared)
  BY <1>1, WithoutIs, LenProperties DEF DrawnFrom
<1>3. PICK f \in [1 .. Len(A) -> 1 .. Len(shared)] :
        /\ \A i \in 1 .. Len(A) : A[i] = shared[f[i]]
        /\ \A i, j \in 1 .. Len(A) : i # j => f[i] # f[j]
  BY <1>1, WithoutIs DEF DrawnFrom
<1>4. AdminsIn(A, promoted)
  BY <1>3 DEF AdminsIn
<1>5. ASSUME NEW a \in Doubled(A) PROVE a \in Doubled(shared)
  <2>1. PICK i, j \in 1 .. Len(A) :
          /\ i # j
          /\ A[i].email = a /\ A[i].status # "declined"
          /\ A[j].email = a /\ A[j].status # "declined"
    BY <1>2, <1>5 DEF Doubled
  <2>2. f[i] \in DOMAIN shared /\ f[j] \in DOMAIN shared /\ f[i] # f[j]
    BY <1>2, <1>3, <2>1
  <2>3. a \in AddressesOf(shared)
    BY <1>3, <2>1, <2>2 DEF AddressesOf, ToSet
  <2> QED BY <1>3, <2>1, <2>2, <2>3 DEF Doubled
<1> QED BY <1>1, <1>2, <1>4, <1>5

\* An entry that nobody else lives under is added without rights.
LEMMA AdditionPlanned ==
  ASSUME shared \in Seq(Contact), AdminsIn(shared, promoted), NEW e \in Addresses,
         ~ Invited(e)
  PROVE  /\ Append(shared, Fresh(e)) \in Seq(Contact)
         /\ AdminsIn(Append(shared, Fresh(e)), promoted)
         /\ Doubled(Append(shared, Fresh(e))) \subseteq Doubled(shared)
<1>1. PICK B : B = Append(shared, Fresh(e))
  OBVIOUS
<1>2. Fresh(e) \in Contact /\ Fresh(e).email = e /\ ~ Fresh(e).admin
  BY DEF Fresh, Contact
<1>7. Fresh(e).status = "pending"
  BY DEF Fresh
<1>3. /\ B \in Seq(Contact)
      /\ Len(shared) \in Nat
      /\ Len(B) = Len(shared) + 1
      /\ B[Len(shared) + 1] = Fresh(e)
      /\ \A i \in 1 .. Len(shared) : B[i] = shared[i]
      /\ DOMAIN B = 1 .. Len(B) /\ DOMAIN shared = 1 .. Len(shared)
  BY <1>1, <1>2, AppendProperties, LenProperties
<1>4. AdminsIn(B, promoted)
  BY <1>2, <1>7, <1>3 DEF AdminsIn
<1>5. \A i \in 1 .. Len(shared) : shared[i].email = e => shared[i].status = "declined"
  BY <1>3 DEF Invited, ToSet
<1>6. ASSUME NEW a \in Doubled(B) PROVE a \in Doubled(shared)
  <2>1. PICK i, j \in 1 .. Len(B) :
          /\ i # j
          /\ B[i].email = a /\ B[i].status # "declined"
          /\ B[j].email = a /\ B[j].status # "declined"
    BY <1>3, <1>6 DEF Doubled
  <2>2. i \in 1 .. Len(shared) \/ i = Len(shared) + 1
    BY <1>3
  <2>3. j \in 1 .. Len(shared) \/ j = Len(shared) + 1
    BY <1>3
  <2>4. a # e
    BY <1>2, <1>3, <1>5, <2>1, <2>2, <2>3
  <2>5. i \in DOMAIN shared /\ j \in DOMAIN shared /\ B[i] = shared[i] /\ B[j] = shared[j]
    BY <1>2, <1>3, <2>1, <2>2, <2>3, <2>4
  <2>6. a \in AddressesOf(shared)
    BY <2>1, <2>5 DEF AddressesOf, ToSet
  <2> QED BY <2>1, <2>5, <2>6 DEF Doubled
<1> QED BY <1>1, <1>3, <1>4, <1>6

\* An entry is replaced by one with its address that is no more alive than it,
\* and has rights only for somebody in P.
LEMMA ReplacementPlanned ==
  ASSUME shared \in Seq(Contact), NEW P, promoted \subseteq P, AdminsIn(shared, promoted),
         NEW i \in 1 .. Len(shared), NEW s \in Contact,
         s.email = shared[i].email,
         s.status # "declined" => shared[i].status # "declined",
         s.status = "accepted" => s.user \in People,
         s.admin => s.status = "accepted" /\ s.user \in P
  PROVE  /\ Replaced(i, s) \in Seq(Contact)
         /\ AdminsIn(Replaced(i, s), P)
         /\ Doubled(Replaced(i, s)) \subseteq Doubled(shared)
<1>1. PICK B : B = Replaced(i, s)
  OBVIOUS
<1>2. /\ B \in Seq(Contact)
      /\ Len(B) = Len(shared)
      /\ DOMAIN B = DOMAIN shared /\ DOMAIN shared = 1 .. Len(shared)
      /\ \A j \in 1 .. Len(shared) : B[j] = IF j = i THEN s ELSE shared[j]
  BY <1>1, ExceptSeq, LenProperties DEF Replaced
<1>3. AdminsIn(B, P)
  BY <1>2 DEF AdminsIn
<1>4. \A j \in 1 .. Len(shared) :
        /\ B[j].email = shared[j].email
        /\ B[j].status # "declined" => shared[j].status # "declined"
  BY <1>2
<1>5. AddressesOf(B) \subseteq AddressesOf(shared)
  BY <1>2, <1>4 DEF AddressesOf, ToSet
<1>6. Doubled(B) \subseteq Doubled(shared)
  BY <1>2, <1>4, <1>5 DEF Doubled
<1> QED BY <1>1, <1>2, <1>3, <1>6

\* The address change is noted at every entry with the address.
LEMMA AskPlanned ==
  ASSUME shared \in Seq(Contact), AdminsIn(shared, promoted), NEW e, NEW t \in Changes,
         NEW B, B = [j \in DOMAIN shared |-> IF shared[j].email = e
                                             THEN [shared[j] EXCEPT !.transfer = t]
                                             ELSE shared[j]]
  PROVE  /\ B \in Seq(Contact)
         /\ AdminsIn(B, promoted)
         /\ Doubled(B) \subseteq Doubled(shared)
<1>1. DOMAIN shared = 1 .. Len(shared) /\ Len(shared) \in Nat /\ DOMAIN B = DOMAIN shared
  BY LenProperties
<1>2. \A j \in 1 .. Len(shared) : shared[j] \in Contact
  BY ElementOfSeq
<1>3. \A j \in 1 .. Len(shared) :
        /\ B[j] \in Contact
        /\ B[j].email = shared[j].email
        /\ B[j].status = shared[j].status
        /\ B[j].admin = shared[j].admin
        /\ B[j].user = shared[j].user
  BY <1>1, <1>2 DEF Contact
<1>4. B \in Seq(Contact) /\ Len(B) = Len(shared)
  BY <1>1, <1>3, SeqDef, LenProperties
<1>5. AdminsIn(B, promoted)
  BY <1>3, <1>4 DEF AdminsIn
<1>6. AddressesOf(B) \subseteq AddressesOf(shared)
  <2> SUFFICES ASSUME NEW a \in AddressesOf(B) PROVE a \in AddressesOf(shared)
    OBVIOUS
  <2>1. PICK j \in DOMAIN B : a = B[j].email
    BY DEF AddressesOf, ToSet
  <2>2. j \in DOMAIN shared /\ a = shared[j].email
    BY <1>1, <1>3, <2>1
  <2> QED BY <2>2 DEF AddressesOf, ToSet
<1>7. Doubled(B) \subseteq Doubled(shared)
  BY <1>1, <1>3, <1>6 DEF Doubled
<1> QED BY <1>4, <1>5, <1>7

-----------------------------------------------------------------------------
(* A request that plans a change. *)

\* One request moves on, and what it plans now is in order.
LEMMA OneMoves ==
  ASSUME ContactInv, NEW h \in Routes, NEW p \in {Free} \union Underway,
         underway' = [underway EXCEPT ![h] = p],
         shared' = shared, collided' = collided,
         changes' \in [Changes -> {Free} \union [from : Addresses, to : Addresses]],
         overdue' \subseteq Changes, followed' \subseteq Addresses \X LinkSides,
         promoted \subseteq promoted', promoted' \subseteq People,
         p # Free => /\ AdminsIn(p.next, promoted')
                     /\ p.op = "change" => Doubled(p.next) \subseteq collided
  PROVE  ContactInv'
<1>1. underway \in [Routes -> {Free} \union Underway]
  BY DEF ContactInv, ContactTypeOK
<1>2. ContactTypeOK'
  BY <1>1 DEF ContactInv, ContactTypeOK
<1>3. AdminsIn(shared, promoted)'
  BY DEF ContactInv, AdminsIn
<1>4. LiveAddressesDistinct'
  BY DEF ContactInv, LiveAddressesDistinct, Doubled, AddressesOf
<1>5. PlannedInv'
  <2> SUFFICES ASSUME NEW g \in Routes, underway'[g] # Free
               PROVE  /\ AdminsIn(underway'[g].next, promoted')
                      /\ underway'[g].op = "change" => Doubled(underway'[g].next) \subseteq collided'
    BY DEF PlannedInv, Doubled, AddressesOf, AdminsIn
  <2>1. CASE g = h
    BY <1>1, <2>1
  <2>2. CASE g # h
    <3>1. underway'[g] = underway[g]
      BY <1>1, <2>2
    <3>2. /\ AdminsIn(underway[g].next, promoted)
          /\ underway[g].op = "change" => Doubled(underway[g].next) \subseteq collided
      BY <3>1 DEF ContactInv, PlannedInv
    <3> QED BY <3>1, <3>2 DEF AdminsIn
  <2> QED BY <2>1, <2>2
<1> QED BY <1>2, <1>3, <1>4, <1>5 DEF ContactInv

LEMMA PlanKeepsInv ==
  ASSUME ContactInv, NEW h \in Routes, NEW e \in Addresses, NEW next \in Seq(Contact),
         underway' = [underway EXCEPT ![h] = Plan(e, next)],
         UNCHANGED <<shared, overdue, followed, collided>>,
         changes' \in [Changes -> {Free} \union [from : Addresses, to : Addresses]],
         promoted \subseteq promoted', promoted' \subseteq People,
         AdminsIn(next, promoted'), Doubled(next) \subseteq Doubled(shared)
  PROVE  ContactInv'
<1>1. PICK p : p = Plan(e, next)
  OBVIOUS
<1>2. /\ p \in Underway
      /\ p.next = next
  BY <1>1 DEF Plan, Underway, LinkSides
<1>3. underway' = [underway EXCEPT ![h] = p] /\ shared' = shared /\ collided' = collided
  BY <1>1
<1>4. overdue' \subseteq Changes /\ followed' \subseteq Addresses \X LinkSides
  BY DEF ContactInv, ContactTypeOK
<1>5. Doubled(next) \subseteq collided
  BY DEF ContactInv, LiveAddressesDistinct
<1> QED BY <1>2, <1>3, <1>4, <1>5, OneMoves

\* The same for a request that only computes its array.
LEMMA BeginKeepsInv ==
  ASSUME ContactInv, NEW h \in Routes, NEW e \in Addresses, NEW next \in Seq(Contact),
         Begin(h, Plan(e, next)),
         changes' \in [Changes -> {Free} \union [from : Addresses, to : Addresses]],
         AdminsIn(next, promoted), Doubled(next) \subseteq Doubled(shared)
  PROVE  ContactInv'
<1>1. /\ underway' = [underway EXCEPT ![h] = Plan(e, next)]
      /\ UNCHANGED <<shared, overdue, followed, collided>>
      /\ promoted' = promoted /\ promoted \subseteq People
  BY DEF Begin, ContactInv, ContactTypeOK
<1> QED BY <1>1, PlanKeepsInv

LEMMA ContactsRequestKeepsInv ==
  ASSUME ContactInv, NEW h \in Routes, NEW by \in People, NEW e \in Addresses,
         \/ AddContact(h, by, e) \/ InviteParent(h, by, e)
         \/ RemoveContact(h, by, e) \/ LeaveStudent(h, by, e)
         \/ Accept(h, by, e) \/ Edit(h, by, e)
         \/ Decline(h, e) \/ OptInText(h, e)
  PROVE  ContactInv'
<1>1. /\ shared \in Seq(Contact) /\ AdminsIn(shared, promoted)
      /\ changes \in [Changes -> {Free} \union [from : Addresses, to : Addresses]]
  BY DEF ContactInv, ContactTypeOK
<1>2. CASE AddContact(h, by, e) \/ InviteParent(h, by, e)
  <2>1. ~ Invited(e)
    BY <1>2 DEF AddContact, InviteParent, Invited, HasContact
  <2>2. Begin(h, Plan(e, Append(shared, Fresh(e)))) /\ changes' = changes
    BY <1>2 DEF AddContact, InviteParent
  <2> QED BY <1>1, <2>1, <2>2, AdditionPlanned, BeginKeepsInv
<1>3. CASE RemoveContact(h, by, e) \/ LeaveStudent(h, by, e)
  <2>1. Begin(h, Plan(e, Without(e))) /\ changes' = changes
    BY <1>3 DEF RemoveContact, LeaveStudent
  <2> QED BY <1>1, <2>1, RemovalPlanned, BeginKeepsInv
<1>4. CASE Edit(h, by, e) \/ OptInText(h, e)
  <2>1. Begin(h, Plan(e, shared)) /\ changes' = changes
    BY <1>4 DEF Edit, OptInText
  <2> QED BY <1>1, <2>1, BeginKeepsInv
<1>5. CASE Accept(h, by, e)
  <2>1. PICK i : i = InviteOf(e)
    OBVIOUS
  <2>2. i \in 1 .. Len(shared) /\ shared[i].status = "pending"
    BY <1>1, <1>5, <2>1, InviteIs DEF Accept
  <2>3. PICK s : s = [shared[i] EXCEPT !.user = by, !.status = "accepted"]
    OBVIOUS
  <2>4. Begin(h, Plan(e, Replaced(i, s))) /\ changes' = changes
    BY <1>5, <2>1, <2>3 DEF Accept
  <2>5. shared[i] \in Contact /\ ~ shared[i].admin
    BY <1>1, <2>2, ElementOfSeq DEF AdminsIn
  <2>6. /\ s \in Contact /\ s.email = shared[i].email /\ ~ s.admin
        /\ s.user \in People
    BY <2>3, <2>5 DEF Contact
  <2> QED BY <1>1, <2>2, <2>4, <2>6, ReplacementPlanned, BeginKeepsInv
<1>6. CASE Decline(h, e)
  <2>1. PICK i : i = InviteOf(e)
    OBVIOUS
  <2>2. i \in 1 .. Len(shared) /\ shared[i].status = "pending"
    BY <1>1, <1>6, <2>1, InviteIs DEF Decline
  <2>3. PICK s : s = [shared[i] EXCEPT !.status = "declined"]
    OBVIOUS
  <2>4. Begin(h, Plan(e, Replaced(i, s))) /\ changes' = changes
    BY <1>6, <2>1, <2>3 DEF Decline
  <2>5. shared[i] \in Contact /\ ~ shared[i].admin
    BY <1>1, <2>2, ElementOfSeq DEF AdminsIn
  <2>6. /\ s \in Contact /\ s.email = shared[i].email /\ ~ s.admin
        /\ s.status = "declined"
    BY <2>3, <2>5 DEF Contact
  <2> QED BY <1>1, <2>2, <2>4, <2>6, ReplacementPlanned, BeginKeepsInv
<1> QED BY <1>2, <1>3, <1>4, <1>5, <1>6

LEMMA SetAdminKeepsInv ==
  ASSUME ContactInv, NEW h \in Routes, NEW by \in People, NEW e \in Addresses,
         NEW b \in BOOLEAN, SetAdmin(h, by, e, b)
  PROVE  ContactInv'
<1>1. /\ shared \in Seq(Contact) /\ AdminsIn(shared, promoted) /\ promoted \subseteq People
      /\ changes' \in [Changes -> {Free} \union [from : Addresses, to : Addresses]]
  BY DEF ContactInv, ContactTypeOK, SetAdmin
<1>2. PICK i : i = AcceptedOf(e)
  OBVIOUS
<1>3. i \in 1 .. Len(shared) /\ shared[i].status = "accepted"
  BY <1>1, <1>2, AcceptedIs DEF SetAdmin
<1>4. PICK s : s = [shared[i] EXCEPT !.admin = b]
  OBVIOUS
<1>5. /\ underway' = [underway EXCEPT ![h] = Plan(e, Replaced(i, s))]
      /\ promoted' = promoted \union {u \in {shared[i].user} : b}
      /\ UNCHANGED <<shared, overdue, followed, collided>>
  BY <1>2, <1>4 DEF SetAdmin
<1>6. shared[i] \in Contact
  BY <1>1, <1>3, ElementOfSeq
<1>7. /\ s \in Contact /\ s.email = shared[i].email /\ s.status = "accepted"
      /\ s.user = shared[i].user /\ s.admin = b
  BY <1>3, <1>4, <1>6 DEF Contact
<1>8. promoted \subseteq promoted' /\ (s.admin => s.user \in promoted')
  BY <1>5, <1>7
<1>10. promoted' \subseteq People /\ s.user \in People
  BY <1>1, <1>3, <1>5, <1>7 DEF AdminsIn
<1>9. /\ Replaced(i, s) \in Seq(Contact)
      /\ AdminsIn(Replaced(i, s), promoted')
      /\ Doubled(Replaced(i, s)) \subseteq Doubled(shared)
  BY <1>1, <1>3, <1>7, <1>8, <1>10, ReplacementPlanned
<1> QED BY <1>1, <1>5, <1>8, <1>9, <1>10, PlanKeepsInv

LEMMA AskTransferKeepsInv ==
  ASSUME ContactInv, NEW h \in Routes, NEW by \in People, NEW t \in Changes,
         NEW e \in Addresses, NEW to \in Addresses, AskTransfer(h, by, t, e, to)
  PROVE  ContactInv'
<1>1. shared \in Seq(Contact) /\ AdminsIn(shared, promoted)
  BY DEF ContactInv, ContactTypeOK
<1>2. PICK B : B = [j \in DOMAIN shared |-> IF shared[j].email = e
                                            THEN [shared[j] EXCEPT !.transfer = t]
                                            ELSE shared[j]]
  OBVIOUS
<1>3. Begin(h, Plan(e, B)) /\ changes' = [changes EXCEPT ![t] = [from |-> e, to |-> to]]
  BY <1>2 DEF AskTransfer
<1>4. changes' \in [Changes -> {Free} \union [from : Addresses, to : Addresses]]
  BY <1>3 DEF ContactInv, ContactTypeOK
<1>5. B \in Seq(Contact) /\ AdminsIn(B, promoted) /\ Doubled(B) \subseteq Doubled(shared)
  BY <1>1, <1>2, AskPlanned
<1> QED BY <1>3, <1>4, <1>5, BeginKeepsInv

\* A link of a change: past its time it clears the request at the entry, else
\* it plans the entry with the new address, for which the other link waits.
LEMMA FollowKeepsInv ==
  ASSUME ContactInv, NEW h \in Routes, NEW t \in Changes, NEW side \in LinkSides,
         FollowLink(h, t, side)
  PROVE  ContactInv'
<1>1. /\ shared \in Seq(Contact) /\ AdminsIn(shared, promoted)
      /\ changes \in [Changes -> {Free} \union [from : Addresses, to : Addresses]]
      /\ changes' = changes
  BY DEF ContactInv, ContactTypeOK, FollowLink
<1>2. PICK e, i : e = LinkAddress(t, side) /\ i = ChangingEntry(e)
  OBVIOUS
<1>3. i \in 1 .. Len(shared)
  BY <1>1, <1>2, ChangingIs DEF FollowLink
<1>4. PICK s, c : s = shared[i] /\ c = [s EXCEPT !.transfer = NoChange]
  OBVIOUS
<1>5. s \in Contact
  BY <1>1, <1>3, <1>4, ElementOfSeq
<1>6. /\ c \in Contact /\ c.email = s.email /\ c.status = s.status
      /\ c.admin = s.admin /\ c.user = s.user
  BY <1>4, <1>5 DEF Contact
<1>7. ASSUME Begin(h, Plan(s.email, Replaced(i, c))) PROVE ContactInv'
  <2>1. /\ s.status = "accepted" => s.user \in People
        /\ s.admin => s.status = "accepted" /\ s.user \in promoted
    BY <1>1, <1>3, <1>4 DEF AdminsIn
  <2>2. /\ Replaced(i, c) \in Seq(Contact)
        /\ AdminsIn(Replaced(i, c), promoted)
        /\ Doubled(Replaced(i, c)) \subseteq Doubled(shared)
    BY <1>1, <1>3, <1>4, <1>6, <2>1, ReplacementPlanned
  <2>3. s.email \in Addresses
    BY <1>5 DEF Contact
  <2> QED BY <1>1, <1>7, <2>2, <2>3, BeginKeepsInv
<1>8. ASSUME NEW d, NEW x \in LinkSides,
             d = [c EXCEPT !.email = changes[t].to],
             Begin(h, [Plan(s.email, Replaced(i, d))
                         EXCEPT !.op = "complete", !.pc = "confirm", !.side = x])
      PROVE  ContactInv'
  <2>1. changes[t].to \in Addresses /\ s.email \in Addresses
    BY <1>1, <1>5 DEF FollowLink, Contact
  <2>2. /\ d \in Contact /\ d.status = s.status /\ d.admin = s.admin /\ d.user = s.user
    BY <1>6, <1>8, <2>1 DEF Contact
  <2>3. PICK B : B = Replaced(i, d)
    OBVIOUS
  <2>4. /\ B \in Seq(Contact) /\ Len(B) = Len(shared)
        /\ \A j \in 1 .. Len(shared) : B[j] = IF j = i THEN d ELSE shared[j]
    BY <1>1, <1>3, <2>2, <2>3, ExceptSeq DEF Replaced
  <2>5. AdminsIn(B, promoted)
    BY <1>1, <1>3, <1>4, <2>2, <2>4 DEF AdminsIn
  <2>6. PICK p : p = [Plan(s.email, B) EXCEPT !.op = "complete", !.pc = "confirm", !.side = x]
    OBVIOUS
  <2>7. p \in Underway /\ p # Free /\ p.next = B /\ p.op = "complete"
    BY <2>1, <2>4, <2>6 DEF Plan, Underway, Free, LinkSides
  <2>8. /\ underway' = [underway EXCEPT ![h] = p]
        /\ UNCHANGED <<shared, overdue, followed, promoted, collided>>
    BY <1>8, <2>3, <2>6 DEF Begin
  <2>9. /\ overdue' \subseteq Changes /\ followed' \subseteq Addresses \X LinkSides
        /\ promoted' = promoted /\ promoted \subseteq People
        /\ shared' = shared /\ collided' = collided
    BY <1>8 DEF Begin, ContactInv, ContactTypeOK
  <2>10. p \in {Free} \union Underway /\ p.op # "change"
    BY <2>7
  <2>11. underway' = [underway EXCEPT ![h] = p]
    BY <2>8
  <2> QED BY <1>1, <2>5, <2>7, <2>9, <2>10, <2>11, OneMoves
<1>9. \/ Begin(h, Plan(s.email, Replaced(i, c)))
      \/ \E x \in LinkSides :
           Begin(h, [Plan(s.email, Replaced(i, [c EXCEPT !.email = changes[t].to]))
                       EXCEPT !.op = "complete", !.pc = "confirm", !.side = x])
  BY <1>2, <1>4 DEF FollowLink, LinkSides
<1> QED BY <1>7, <1>8, <1>9

-----------------------------------------------------------------------------
(* What a request sends after its read. *)

LEMMA ContactInitInv == ContactInit => ContactInv
<1> SUFFICES ASSUME ContactInit PROVE ContactInv
  OBVIOUS
<1>1. shared \in Seq(Contact) /\ Len(shared) = 0 /\ DOMAIN shared = {}
  BY DEF ContactInit
<1>2. ContactTypeOK
  BY <1>1 DEF ContactInit, ContactTypeOK
<1>3. AdminsIn(shared, promoted)
  BY <1>1 DEF AdminsIn
<1>4. PlannedInv
  BY DEF ContactInit, PlannedInv
<1>5. LiveAddressesDistinct
  BY <1>1 DEF LiveAddressesDistinct, Doubled
<1> QED BY <1>2, <1>3, <1>4, <1>5 DEF ContactInv

\* A request goes on with the array it planned, or is done.
LEMMA GoesOn ==
  ASSUME ContactInv, NEW h \in Routes, NEW p \in {Free} \union Underway,
         underway[h] # Free,
         underway' = [underway EXCEPT ![h] = p],
         UNCHANGED <<shared, changes, overdue, promoted, collided>>,
         followed' \subseteq Addresses \X LinkSides,
         p # Free => p.next = underway[h].next /\ p.op = underway[h].op
  PROVE  ContactInv'
<1>1. /\ shared' = shared /\ collided' = collided /\ promoted' = promoted
      /\ changes' \in [Changes -> {Free} \union [from : Addresses, to : Addresses]]
      /\ overdue' \subseteq Changes /\ promoted \subseteq People
  BY DEF ContactInv, ContactTypeOK
<1>2. /\ AdminsIn(underway[h].next, promoted)
      /\ underway[h].op = "change" => Doubled(underway[h].next) \subseteq collided
  BY DEF ContactInv, PlannedInv
<1> QED BY <1>1, <1>2, OneMoves

LEMMA ConfirmChangeKeepsInv ==
  ASSUME ContactInv, NEW h \in Routes, ConfirmChange(h)
  PROVE  ContactInv'
<1>1. /\ underway[h] # Free /\ underway[h] \in Underway
      /\ UNCHANGED <<shared, changes, overdue, promoted, collided>>
      /\ followed' = followed \union {<<underway[h].email, underway[h].side>>}
      /\ followed \subseteq Addresses \X LinkSides
  BY DEF ConfirmChange, ContactInv, ContactTypeOK, Free
<1>2. followed' \subseteq Addresses \X LinkSides
  BY <1>1 DEF Underway
<1>3. PICK p : p = [underway[h] EXCEPT !.pc = "look"]
  OBVIOUS
<1>4. p \in {Free} \union Underway /\ p.next = underway[h].next /\ p.op = underway[h].op
  BY <1>1, <1>3 DEF Underway
<1>5. underway' = [underway EXCEPT ![h] = p]
  BY <1>3 DEF ConfirmChange
<1> QED BY <1>1, <1>2, <1>4, <1>5, GoesOn

LEMMA LookUpKeepsInv ==
  ASSUME ContactInv, NEW h \in Routes, NEW side \in LinkSides, LookUp(h, side)
  PROVE  ContactInv'
<1>1. /\ underway[h] # Free /\ underway[h] \in Underway
      /\ UNCHANGED <<shared, changes, overdue, promoted, collided>>
      /\ followed' \subseteq Addresses \X LinkSides
  BY DEF LookUp, ContactInv, ContactTypeOK, Free
<1>2. PICK looked, saw :
        /\ looked = underway[h].looked \union {side}
        /\ saw = underway[h].saw \union {x \in {side} : <<underway[h].email, x>> \in followed}
  OBVIOUS
<1>3. looked \subseteq LinkSides /\ saw \subseteq LinkSides
  BY <1>1, <1>2 DEF Underway
<1>4. PICK c : c = underway[h]
  OBVIOUS
<1>5. \/ underway' = [underway EXCEPT ![h] = Free]
      \/ underway' = [underway EXCEPT ![h].pc = "write", ![h].looked = {}, ![h].saw = {}]
      \/ underway' = [underway EXCEPT ![h].looked = looked, ![h].saw = saw]
  BY <1>2 DEF LookUp
<1>6. PICK p : /\ underway' = [underway EXCEPT ![h] = p]
               /\ \/ p = Free
                  \/ p = [c EXCEPT !.pc = "write", !.looked = {}, !.saw = {}]
                  \/ p = [c EXCEPT !.looked = looked, !.saw = saw]
  <2>1. CASE underway' = [underway EXCEPT ![h] = Free]
    BY <2>1
  <2>2. CASE underway' = [underway EXCEPT ![h].pc = "write", ![h].looked = {}, ![h].saw = {}]
    <3> DEFINE p == [c EXCEPT !.pc = "write", !.looked = {}, !.saw = {}]
    <3>1. underway' = [underway EXCEPT ![h] = p]
      BY <1>4, <2>2
    <3> QED BY <3>1
  <2>3. CASE underway' = [underway EXCEPT ![h].looked = looked, ![h].saw = saw]
    <3> DEFINE p == [c EXCEPT !.looked = looked, !.saw = saw]
    <3>1. underway' = [underway EXCEPT ![h] = p]
      BY <1>4, <2>3
    <3> QED BY <3>1
  <2> QED BY <1>5, <2>1, <2>2, <2>3
<1>7. /\ p \in {Free} \union Underway
      /\ p # Free => p.next = underway[h].next /\ p.op = underway[h].op
  <2>1. c \in Underway /\ c = underway[h]
    BY <1>1, <1>4
  <2>2. CASE p = Free
    BY <2>2
  <2>3. CASE p = [c EXCEPT !.pc = "write", !.looked = {}, !.saw = {}]
    <3>1. p \in Underway /\ p.next = c.next /\ p.op = c.op
      BY <2>1, <2>3 DEF Underway
    <3> QED BY <2>1, <3>1
  <2>4. CASE p = [c EXCEPT !.looked = looked, !.saw = saw]
    <3>1. p \in Underway /\ p.next = c.next /\ p.op = c.op
      BY <1>3, <2>1, <2>4 DEF Underway
    <3> QED BY <2>1, <3>1
  <2> QED BY <1>6, <2>2, <2>3, <2>4
<1> QED BY <1>1, <1>6, <1>7, GoesOn

LEMMA DropKeepsInv ==
  ASSUME ContactInv, NEW h \in Routes, DropConfirmations(h)
  PROVE  ContactInv'
<1>1. /\ underway[h] # Free
      /\ underway' = [underway EXCEPT ![h] = Free]
      /\ UNCHANGED <<shared, changes, overdue, promoted, collided>>
      /\ followed' \subseteq Addresses \X LinkSides
  BY DEF DropConfirmations, ContactInv, ContactTypeOK, Free
<1> QED BY <1>1, GoesOn

LEMMA WriteArrayKeepsInv ==
  ASSUME ContactInv, NEW h \in Routes, WriteArray(h)
  PROVE  ContactInv'
<1>1. PICK c : c = underway[h]
  OBVIOUS
<1>2. /\ c # Free /\ c \in Underway /\ underway \in [Routes -> {Free} \union Underway]
      /\ AdminsIn(c.next, promoted)
      /\ c.op = "change" => Doubled(c.next) \subseteq collided
  BY <1>1 DEF WriteArray, ContactInv, ContactTypeOK, PlannedInv, Free
<1>3. PICK p : p = IF c.op = "complete" THEN [c EXCEPT !.pc = "delete", !.next = << >>] ELSE Free
  OBVIOUS
<1>4. /\ shared' = c.next
      /\ underway' = [underway EXCEPT ![h] = p]
      /\ collided' = IF c.op = "complete" THEN collided \union Doubled(c.next) ELSE collided
      /\ UNCHANGED <<changes, overdue, followed, promoted>>
  BY <1>1, <1>3 DEF WriteArray
<1>5. c.op \in {"change", "complete"} /\ c.next \in Seq(Contact)
  BY <1>2 DEF Underway
<1>6. /\ p \in {Free} \union Underway
      /\ p # Free => p.op = "complete" /\ p.next = << >>
  <2>1. PICK N : N = << >> /\ N \in Seq(Contact)
    BY EmptySeq
  <2> QED BY <1>2, <1>3, <2>1 DEF Underway
<1>7. Doubled(c.next) \subseteq Addresses
  <2>1. \A i \in DOMAIN c.next : c.next[i] \in Contact
    BY <1>5, LenProperties, ElementOfSeq
  <2> QED BY <2>1 DEF Doubled, AddressesOf, ToSet, Contact
<1>8. collided' \subseteq Addresses /\ collided \subseteq collided' /\ Doubled(c.next) \subseteq collided'
  BY <1>2, <1>4, <1>5, <1>7 DEF ContactInv, ContactTypeOK
<1>9. ContactTypeOK'
  BY <1>2, <1>4, <1>5, <1>6, <1>8 DEF ContactInv, ContactTypeOK
<1>10. AdminsIn(shared, promoted)'
  BY <1>2, <1>4 DEF AdminsIn
<1>11. LiveAddressesDistinct'
  BY <1>4, <1>8 DEF LiveAddressesDistinct, Doubled, AddressesOf
<1>12. PlannedInv'
  <2> SUFFICES ASSUME NEW g \in Routes, underway'[g] # Free
               PROVE  /\ AdminsIn(underway'[g].next, promoted)
                      /\ underway'[g].op = "change" => Doubled(underway'[g].next) \subseteq collided'
    BY <1>4 DEF PlannedInv, Doubled, AddressesOf, AdminsIn
  <2>1. CASE g = h
    <3>1. underway'[g] = p /\ p.op = "complete" /\ p.next = << >>
      BY <1>2, <1>4, <1>6, <2>1
    <3>2. AdminsIn(<< >>, promoted)
      <4>1. PICK N : N = << >> /\ Len(N) = 0
        OBVIOUS
      <4> QED BY <4>1 DEF AdminsIn
    <3> QED BY <3>1, <3>2
  <2>2. CASE g # h
    <3>1. underway'[g] = underway[g]
      BY <1>2, <1>4, <2>2
    <3>2. /\ AdminsIn(underway[g].next, promoted)
          /\ underway[g].op = "change" => Doubled(underway[g].next) \subseteq collided
      BY <3>1 DEF ContactInv, PlannedInv
    <3> QED BY <1>8, <3>1, <3>2
  <2> QED BY <2>1, <2>2
<1> QED BY <1>9, <1>10, <1>11, <1>12 DEF ContactInv

LEMMA ContactNextInv == ContactInv /\ [ContactNext]_contactVars => ContactInv'
<1> SUFFICES ASSUME ContactInv, [ContactNext]_contactVars PROVE ContactInv'
  OBVIOUS
<1>1. ASSUME NEW h \in Routes, NEW by \in People, NEW e \in Addresses,
             \/ AddContact(h, by, e) \/ InviteParent(h, by, e) \/ RemoveContact(h, by, e)
             \/ LeaveStudent(h, by, e) \/ Accept(h, by, e) \/ Edit(h, by, e)
      PROVE  ContactInv'
  BY <1>1, ContactsRequestKeepsInv
<1>2. ASSUME NEW h \in Routes, NEW by \in People, NEW e \in Addresses, NEW b \in BOOLEAN,
             SetAdmin(h, by, e, b)
      PROVE  ContactInv'
  BY <1>2, SetAdminKeepsInv
<1>3. ASSUME NEW h \in Routes, NEW by \in People, NEW e \in Addresses, NEW t \in Changes,
             NEW to \in Addresses, AskTransfer(h, by, t, e, to)
      PROVE  ContactInv'
  BY <1>3, AskTransferKeepsInv
<1>4. ASSUME NEW h \in Routes, NEW e \in Addresses, Decline(h, e) \/ OptInText(h, e)
      PROVE  ContactInv'
  <2>1. Owner \in People
    BY DEF People
  <2> QED BY <1>4, <2>1, ContactsRequestKeepsInv
<1>5. ASSUME NEW h \in Routes, NEW t \in Changes, NEW side \in LinkSides, FollowLink(h, t, side)
      PROVE  ContactInv'
  BY <1>5, FollowKeepsInv
<1>6. ASSUME NEW h \in Routes, NEW side \in LinkSides, LookUp(h, side) PROVE ContactInv'
  BY <1>6, LookUpKeepsInv
<1>7. ASSUME NEW h \in Routes, ConfirmChange(h) PROVE ContactInv'
  BY <1>7, ConfirmChangeKeepsInv
<1>8. ASSUME NEW h \in Routes, WriteArray(h) PROVE ContactInv'
  BY <1>8, WriteArrayKeepsInv
<1>9. ASSUME NEW h \in Routes, DropConfirmations(h) PROVE ContactInv'
  BY <1>9, DropKeepsInv
<1>10. ASSUME UNCHANGED <<shared, changes, followed, underway, promoted, collided>>,
              overdue' \subseteq Changes
       PROVE  ContactInv'
  <2>1. ContactTypeOK'
    BY <1>10 DEF ContactInv, ContactTypeOK
  <2>2. AdminsIn(shared, promoted)' /\ LiveAddressesDistinct'
    BY <1>10 DEF ContactInv, AdminsIn, LiveAddressesDistinct, Doubled, AddressesOf
  <2>3. PlannedInv'
    BY <1>10 DEF ContactInv, PlannedInv, AdminsIn, Doubled, AddressesOf
  <2> QED BY <2>1, <2>2, <2>3 DEF ContactInv
<1>11. ASSUME NEW t \in Changes, TransferPasses(t) PROVE ContactInv'
  BY <1>10, <1>11 DEF TransferPasses, ContactInv, ContactTypeOK
<1>12. CASE UNCHANGED contactVars
  BY <1>10, <1>12 DEF contactVars, ContactInv, ContactTypeOK
<1> QED BY <1>1, <1>2, <1>3, <1>4, <1>5, <1>6, <1>7, <1>8, <1>9, <1>11, <1>12 DEF ContactNext

\* The arrays of a student, stored and about to be stored, are in order in
\* every behaviour (routes/students).
THEOREM ContactInvAlways == ContactSpec => []ContactInv
<1> QED BY ContactInitInv, ContactNextInv, PTL DEF ContactSpec

\* The documents of a student's contacts and the requests on them keep their
\* types (routes/students).
THEOREM ContactTypeCorrect == ContactSpec => []ContactTypeOK
<1>1. ContactInv => ContactTypeOK
  BY DEF ContactInv
<1> QED BY <1>1, ContactInvAlways, PTL

\* Two entries that nobody declined have one address only after a change of
\* address to one that was added meanwhile, however many requests overlap and
\* write arrays they computed from older ones.
THEOREM LiveAddressesStayDistinct == ContactSpec => []LiveAddressesDistinct
<1>1. ContactInv => LiveAddressesDistinct
  BY DEF ContactInv
<1> QED BY <1>1, ContactInvAlways, PTL

\* Nobody administers a student who was not made an admin in person, whatever
\* is invited, accepted, declined, renamed or overwritten.
THEOREM RightsAreGiven == ContactSpec => []AdminsWerePromoted
<1>1. ContactInv => AdminsWerePromoted
  <2> SUFFICES ASSUME ContactInv, NEW s \in ToSet(shared), s.admin
               PROVE  s.user \in promoted
    BY DEF AdminsWerePromoted
  <2>1. shared \in Seq(Contact) /\ AdminsIn(shared, promoted)
    BY DEF ContactInv, ContactTypeOK
  <2>2. PICK i \in 1 .. Len(shared) : s = shared[i]
    BY <2>1, LenProperties DEF ToSet
  <2> QED BY <2>1, <2>2 DEF AdminsIn
<1> QED BY <1>1, ContactInvAlways, PTL

=============================================================================
