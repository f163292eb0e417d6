------------------------------ MODULE ClientRun ------------------------------
(***************************************************************************)
(* A sync on the phone: runClientScrape of scraper-core, and the ledger in *)
(* AsyncStorage that records its phases and its outcome (RunLedger of      *)
(* packages/mobile).  A cancelled screen leaves its pipeline running, so   *)
(* several pipelines share the ledger, and a sign-out clears it beside     *)
(* them.  Every operation of the ledger reads the stored array, changes    *)
(* the copy and writes it back, one operation at a time.                   *)
(*                                                                         *)
(* What is extracted, the operations made of it and the wording of phases  *)
(* are left out: a stage does its work, throws, or warns.  An entry counts *)
(* its phases.                                                             *)
(***************************************************************************)
EXTENDS Naturals, Sequences, FiniteSetsExt

CONSTANTS
  Runs,        \* syncs, each with the random id of its pipeline
  MaxEntries,  \* MAX_ENTRIES
  MaxFaults,   \* bound: failed reads and writes, ends of the app
  MaxWarnings, \* bound: warnings that the enrichers of one run raise
  SignOuts,    \* bound: sign-outs
  Unread       \* the snapshot of an operation that has not read yet

ASSUME ClientRunConstants ==
  /\ MaxEntries \in Nat \ {0}
  /\ MaxWarnings \in Nat
  /\ SignOuts \in Nat
  /\ MaxFaults \in Nat

VARIABLES
  at,        \* of each run, the stage its pipeline is in
  warned,    \* of each run, the warnings so far
  ledgerOps, \* _queue: operations called and not settled, oldest first
  stored,    \* the array under LEDGER_KEY, as a set of numbered entries
  faults,    \* faults so far
  signedOut, \* sign-outs so far
  cleared,   \* history: runs with an entry when the ledger was cleared
  phased,    \* history: of each run, the phases that were written
  missed     \* history: runs whose completeRun could not read or write

entryVars == <<stored, phased, missed>>
userVars == <<signedOut, cleared>>
clientVars == <<at, warned, ledgerOps, entryVars, faults, userVars>>

(***************************************************************************)
(* The stages.  "opening" is startSync before its pipeline, "reporting"    *)
(* the handling of an error, "settling" the last phase of a success.       *)
(***************************************************************************)
Follows ==
  [starting |-> "extract", extract |-> "narrow", narrow |-> "transform",
   transform |-> "assets", assets |-> "join", assetsFailed |-> "join",
   join |-> "validate", validate |-> "rows", rows |-> "upload",
   upload |-> "record", record |-> "settling", settling |-> "done"]
Emitting == {"extract", "narrow", "assets", "assetsFailed", "join", "validate",
             "upload", "settling"}
Throwing == {"extract", "narrow", "transform", "validate", "rows", "upload"}
Reporting == {"extract", "narrow", "validate", "rows"}
Ended == {"done", "thrown", "unresolved", "killed"}
Stages == DOMAIN Follows \union {"idle", "opening", "reporting"} \union Ended

Status == {"in_progress", "success", "failed"}
Entries == [run : Runs, status : Status, phases : Nat, nth : Nat]
LedgerOps ==
  [kind : {"start", "phase", "complete"}, run : Runs, status : Status,
   awaited : BOOLEAN, seen : {Unread} \union SUBSET Entries]
    \union [kind : {"clear"}, seen : {Unread}]

ClientTypeOK ==
  /\ at \in [Runs -> Stages]
  /\ warned \in [Runs -> Nat]
  /\ ledgerOps \in Seq(LedgerOps)
  /\ stored \in SUBSET Entries
  /\ faults \in Nat
  /\ signedOut \in Nat
  /\ cleared \in SUBSET Runs
  /\ phased \in [Runs -> Nat]
  /\ missed \in SUBSET Runs

ClientInit ==
  /\ at = [r \in Runs |-> "idle"]
  /\ warned = [r \in Runs |-> 0]
  /\ ledgerOps = <<>>
  /\ stored = {}
  /\ faults = 0
  /\ signedOut = 0
  /\ cleared = {}
  /\ phased = [r \in Runs |-> 0]
  /\ missed = {}

-----------------------------------------------------------------------------
(* The ledger. *)

Op(k, r, s, wait) ==
  [kind |-> k, run |-> r, status |-> s, awaited |-> wait, seen |-> Unread]

\* Variant: without the queue, an operation reads when it is called.
EnqueueUnqueued(op) ==
  ledgerOps' = Append(ledgerOps,
    IF op.kind = "clear" THEN op ELSE [op EXCEPT !.seen = stored])

\* _enqueue: the operation waits for all those called before it.
Enqueue(op) == ledgerOps' = Append(ledgerOps, op)

\* The pipeline awaits an operation of its own.
Waits(r) ==
  \E i \in DOMAIN ledgerOps :
    /\ ledgerOps[i].kind # "clear"
    /\ ledgerOps[i].run = r
    /\ ledgerOps[i].awaited

RunsIn(S) == {e.run : e \in S}

Newest(S) ==
  IF Cardinality(S) > MaxEntries
  THEN {e \in S : \E f \in S : f.nth < e.nth} ELSE S

\* startRun: a new entry in front, the oldest dropped beyond MAX_ENTRIES.
Started(S, r) ==
  Newest(S \union {[run |-> r, status |-> "in_progress", phases |-> 0,
                    nth |-> 1 + Max({0} \union {e.nth : e \in S})]})

\* addPhase, completeRun: nothing without an entry of the run.
Amended(S, op) ==
  {IF e.run # op.run THEN e
   ELSE IF op.kind = "phase" THEN [e EXCEPT !.phases = @ + 1]
   ELSE [e EXCEPT !.status = op.status] : e \in S}

Result(S, op) ==
  CASE op.kind = "start" -> Started(S, op.run)
    [] op.kind # "start" /\ op.run \in RunsIn(S) -> Amended(S, op)
    [] OTHER -> stored

\* Variant: one rejection is the chain's.
ChainBroken == <<>>

\* _enqueue keeps the chain alive when an operation rejects.
AfterRejection == Tail(ledgerOps)

Missed(op) ==
  IF op.kind = "complete" THEN missed \union {op.run} ELSE missed

Fault == faults < MaxFaults /\ faults' = faults + 1

\* _load; a failing read counts as an empty ledger.
Read ==
  /\ ledgerOps # <<>>
  /\ Head(ledgerOps).kind # "clear"
  /\ Head(ledgerOps).seen = Unread
  /\ \/ /\ ledgerOps' = [ledgerOps EXCEPT ![1].seen = stored]
        /\ UNCHANGED <<faults, missed>>
     \/ /\ Fault
        /\ ledgerOps' = [ledgerOps EXCEPT ![1].seen = {}]
        /\ missed' = Missed(Head(ledgerOps))
  /\ UNCHANGED <<at, warned, stored, phased, userVars>>

\* _save; a failing write rejects the operation, and the next one goes on.
Write ==
  LET op == Head(ledgerOps) IN
  /\ ledgerOps # <<>>
  /\ op.seen # Unread
  /\ \/ /\ ledgerOps' = Tail(ledgerOps)
        /\ stored' = Result(op.seen, op)
        /\ phased' = IF op.kind = "phase" /\ op.run \in RunsIn(op.seen)
                     THEN [phased EXCEPT ![op.run] = @ + 1] ELSE phased
        /\ UNCHANGED <<faults, missed>>
     \/ /\ Fault
        /\ ledgerOps' = AfterRejection
        /\ missed' = Missed(op)
        /\ UNCHANGED <<stored, phased>>
  /\ UNCHANGED <<at, warned, userVars>>

\* clear; a failing removeItem leaves the ledger, and fullSignOut goes on.
Clear ==
  /\ ledgerOps # <<>>
  /\ Head(ledgerOps).kind = "clear"
  /\ \/ /\ ledgerOps' = Tail(ledgerOps)
        /\ stored' = {}
        /\ cleared' = cleared \union RunsIn(stored)
        /\ UNCHANGED faults
     \/ /\ Fault
        /\ ledgerOps' = AfterRejection
        /\ UNCHANGED <<stored, cleared>>
  /\ UNCHANGED <<at, warned, signedOut, phased, missed>>

-----------------------------------------------------------------------------
(* The pipeline. *)

\* A stage begins, with emit and its addPhase for most.
Enter(r, s) ==
  /\ at' = [at EXCEPT ![r] = s]
  /\ IF s \in Emitting
     THEN Enqueue(Op("phase", r, "in_progress", TRUE))
     ELSE UNCHANGED ledgerOps

Goes(r, s) ==
  /\ ~ Waits(r)
  /\ Enter(r, s)
  /\ UNCHANGED <<warned, entryVars, faults, userVars>>

\* startSync, before the connector token and the source are there.
Open(r) ==
  /\ at[r] = "idle"
  /\ Enter(r, "opening")
  /\ UNCHANGED <<warned, entryVars, faults, userVars>>

\* runClientScrape: the run is registered in the ledger.
Start(r) ==
  /\ at[r] = "opening"
  /\ at' = [at EXCEPT ![r] = "starting"]
  /\ Enqueue(Op("start", r, "in_progress", TRUE))
  /\ UNCHANGED <<warned, entryVars, faults, userVars>>

\* No module for the provider: thrown past the ledger.
Unresolved(r) ==
  /\ at[r] = "starting"
  /\ Goes(r, "unresolved")

\* The work of a stage is done, and the next one begins.
Proceed(r) ==
  /\ at[r] \in DOMAIN Follows \ {"upload"}
  /\ Goes(r, Follows[at[r]])

\* Assets are optional: their failure is a phase.
AssetsFail(r) ==
  /\ at[r] = "assets"
  /\ Goes(r, "assetsFailed")

\* onWarning of an enricher: void emit, so nobody awaits the phase.
Warn(r) ==
  /\ at[r] = "join"
  /\ ~ Waits(r)
  /\ warned[r] < MaxWarnings
  /\ warned' = [warned EXCEPT ![r] = @ + 1]
  /\ Enqueue(Op("phase", r, "in_progress", FALSE))
  /\ UNCHANGED <<at, entryVars, faults, userVars>>

Records(r, s, outcome) ==
  /\ ~ Waits(r)
  /\ at' = [at EXCEPT ![r] = s]
  /\ Enqueue(Op("complete", r, outcome, TRUE))
  /\ UNCHANGED <<warned, entryVars, faults, userVars>>

\* A stage throws: the entry fails, and the server is told of some stages.
Fail(r) ==
  /\ at[r] \in Throwing
  /\ Records(r, IF at[r] \in Reporting THEN "reporting" ELSE "thrown", "failed")

\* uploader.upload resolves.
Upload(r) ==
  /\ at[r] = "upload"
  /\ Records(r, "record", "success")

\* reportFailure, its own error swallowed; the pipeline throws.
Report(r) ==
  /\ at[r] = "reporting"
  /\ Goes(r, "thrown")

-----------------------------------------------------------------------------
(* Around it. *)

\* fullSignOut, up to the ledger's clear.
SignOut ==
  /\ signedOut < SignOuts
  /\ signedOut' = signedOut + 1
  /\ Enqueue([kind |-> "clear", seen |-> Unread])
  /\ UNCHANGED <<at, warned, cleared, entryVars, faults>>

\* The system ends the app: storage stays.
Kill ==
  /\ Fault
  /\ at' = [r \in Runs |->
              IF at[r] \in Ended \union {"idle"} /\ ~ Waits(r)
              THEN at[r] ELSE "killed"]
  /\ ledgerOps' = <<>>
  /\ UNCHANGED <<warned, entryVars, userVars>>

LedgerNext == Read \/ Write \/ Clear

Pipeline(r) ==
  \/ Open(r) \/ Start(r) \/ Unresolved(r) \/ Proceed(r) \/ AssetsFail(r)
  \/ Warn(r) \/ Fail(r) \/ Upload(r) \/ Report(r)

ClientNext ==
  \/ LedgerNext
  \/ \E r \in Runs : Pipeline(r)
  \/ SignOut
  \/ Kill

ClientSpec == ClientInit /\ [][ClientNext]_clientVars

-----------------------------------------------------------------------------
(* Properties. *)

\* Once an entry says how its run ended, no operation that is still on its
\* way, of this run or another, makes it say anything else
\* (RunLedger._queue: operations used to resurrect completed runs).
EndIsFinal ==
  [][\A e \in stored, f \in stored' :
       e.run = f.run /\ e.status # "in_progress" => f.status = e.status]_clientVars

\* An entry has every phase that was written for it, however many pipelines
\* and unawaited warnings use the ledger, and what a sign-out cleared does not
\* come back: a pipeline of the former user that is still running finds no
\* entry to amend (RunLedger._queue, clear).
EntriesKept ==
  \A e \in stored : e.phases = phased[e.run] /\ e.run \notin cleared

\* A pipeline that came to an end after its first stage, well or badly, does
\* not leave its entry in progress, unless the operation that records the
\* end itself failed (runClientScrape; _enqueue keeps the chain alive).
EndIsRecorded ==
  \A e \in stored :
    e.status = "in_progress" =>
      \/ at[e.run] \notin {"done", "thrown"}
      \/ Waits(e.run)
      \/ e.run \in missed
=============================================================================
