---------------------------- MODULE ExtensionSync ----------------------------
(***************************************************************************)
(* The browser extension: its service worker opens a tab per portal and    *)
(* asks the content script there to sync; the content script answers by a  *)
(* message; a ledger in chrome.storage.local has an entry per sync.        *)
(*                                                                         *)
(* A ledger operation reads the array and writes a new one, and nothing    *)
(* orders two of them: the alarm, the button of the popup and the messages *)
(* each run on their own.  The browser may stop the service worker between *)
(* any two steps; a message starts it again.                               *)
(***************************************************************************)
EXTENDS Naturals, SequencesExt

CONSTANTS
  Syncs,     \* syncs, by the id the service worker gives them
  Rounds,    \* calls of runAllSyncs: alarms and clicks on the button
  Portals,   \* registered credentials
  MaxSyncs,  \* MAX_RUNS
  NoSync

ASSUME ExtensionConstants ==
  /\ NoSync \notin Syncs
  /\ Portals \in Nat /\ MaxSyncs \in Nat \ {0}

VARIABLES
  ledger,    \* slc_run_ledger, newest first
  round,     \* of each call of runAllSyncs: its current sync, portals to come
  sync,      \* of each sync, how far it is
  updates,   \* ledger operations between get and set
  messages,  \* on their way to the service worker: id and type
  tabs,      \* syncs whose tab is open
  started,   \* history: the syncs in the order of their entries
  mishap     \* history: an operation overwrote another, or the worker stopped

extVars == <<ledger, round, sync, updates, messages, tabs, started, mishap>>

SyncStatus == {"in_progress", "success", "failed"}
LedgerEntry == [run : Syncs, status : SyncStatus]

SyncStages == {"new", "entry", "tab", "running", "completed", "failed",
               "unready", "unreadyEntry", "gone"}
Update == [owner : Syncs, kind : {"append", "message", "unready"},
           read : Seq(LedgerEntry), next : Seq(LedgerEntry)]

ExtTypeOK ==
  /\ ledger \in Seq(LedgerEntry)
  /\ Len(ledger) <= MaxSyncs
  /\ round \in [Rounds -> [run : Syncs \union {NoSync}, left : 0 .. Portals]]
  /\ sync \in [Syncs -> SyncStages]
  /\ updates \subseteq Update
  /\ messages \subseteq
       [about : Syncs, id : Syncs \union {NoSync}, status : {"success", "failed"}]
  /\ tabs \subseteq Syncs
  /\ started \in Seq(Syncs)
  /\ mishap \in BOOLEAN

ExtInit ==
  /\ ledger = << >>
  /\ round = [n \in Rounds |-> [run |-> NoSync, left |-> Portals]]
  /\ sync = [r \in Syncs |-> "new"]
  /\ updates = {}
  /\ messages = {}
  /\ tabs = {}
  /\ started = << >>
  /\ mishap = FALSE

-----------------------------------------------------------------------------
(* The ledger. *)

Kept(s) == SubSeq(s, 1, IF Len(s) > MaxSyncs THEN MaxSyncs ELSE Len(s))

\* Variant: an id that is not found stands for the newest entry.
IndexOrFirst(id) ==
  LET i == SelectInSeq(ledger, LAMBDA e : e.run = id)
  IN IF i = 0 /\ ledger # << >> THEN 1 ELSE i

IndexOf(id) == SelectInSeq(ledger, LAMBDA e : e.run = id)

\* updateRunStatus up to its set; an unknown id ends it.
ReadToUpdate(owner, kind, id, status) ==
  IF IndexOf(id) = 0
  THEN UNCHANGED updates
  ELSE updates' = updates \union
         {[owner |-> owner, kind |-> kind, read |-> ledger,
           next |-> [ledger EXCEPT ![IndexOf(id)].status = status]]}

Set(u) ==
  /\ u \in updates
  /\ updates' = updates \ {u}
  /\ ledger' = u.next
  /\ mishap' = (mishap \/ ledger # u.read)
  /\ IF u.kind = "append"
     THEN sync' = [sync EXCEPT ![u.owner] = "entry"]
     ELSE UNCHANGED sync
  /\ UNCHANGED <<round, messages, tabs, started>>

-----------------------------------------------------------------------------
(* runAllSyncs. *)

\* appendRun, up to its set.
StartSync(n, r) ==
  /\ round[n].run = NoSync
  /\ round[n].left > 0
  /\ sync[r] = "new"
  /\ \A m \in Rounds : round[m].run # r
  /\ round' = [round EXCEPT ![n] = [run |-> r, left |-> @.left - 1]]
  /\ updates' = updates \union
       {[owner |-> r, kind |-> "append", read |-> ledger,
         next |-> Kept(<<[run |-> r, status |-> "in_progress"]>> \o ledger)]}
  /\ started' = Append(started, r)
  /\ UNCHANGED <<ledger, sync, messages, tabs, mishap>>

OpenTab(n) ==
  LET r == round[n].run
  IN /\ r # NoSync /\ sync[r] = "entry"
     /\ sync' = [sync EXCEPT ![r] = "tab"]
     /\ tabs' = tabs \union {r}
     /\ UNCHANGED <<ledger, round, updates, messages, started, mishap>>

\* Three seconds later the content script gets RUN_SYNC; the round goes on.
AskSync(n) ==
  LET r == round[n].run
  IN /\ r # NoSync /\ sync[r] = "tab" /\ r \in tabs
     /\ sync' = [sync EXCEPT ![r] = "running"]
     /\ round' = [round EXCEPT ![n].run = NoSync]
     /\ UNCHANGED <<ledger, updates, messages, tabs, started, mishap>>

\* Nobody takes the message: the tab is closed and the sync failed.
NotReady(n) ==
  LET r == round[n].run
  IN /\ r # NoSync /\ sync[r] = "tab"
     /\ sync' = [sync EXCEPT ![r] = "unready"]
     /\ tabs' = tabs \ {r}
     /\ UNCHANGED <<ledger, round, updates, messages, started, mishap>>

RecordUnready(n) ==
  LET r == round[n].run
  IN /\ r # NoSync /\ sync[r] = "unready"
     /\ sync' = [sync EXCEPT ![r] = "unreadyEntry"]
     /\ ReadToUpdate(r, "unready", r, "failed")
     /\ UNCHANGED <<ledger, round, messages, tabs, started, mishap>>

\* notifyFailure, once the update is written.
NextPortal(n) ==
  LET r == round[n].run
  IN /\ r # NoSync /\ sync[r] = "unreadyEntry"
     /\ \A u \in updates : u.owner # r
     /\ round' = [round EXCEPT ![n].run = NoSync]
     /\ UNCHANGED <<ledger, sync, updates, messages, tabs, started, mishap>>

-----------------------------------------------------------------------------
(* The content script and the browser. *)

\* The id of a completed sync is that of the envelope, which runClientScrape
\* made up: no entry of the ledger has it.
CompletedId(r) == NoSync

CompleteSync(r) ==
  /\ sync[r] = "running"
  /\ sync' = [sync EXCEPT ![r] = "completed"]
  /\ messages' = messages \union
       {[about |-> r, id |-> CompletedId(r), status |-> "success"]}
  /\ UNCHANGED <<ledger, round, updates, tabs, started, mishap>>

FailSync(r) ==
  /\ sync[r] = "running"
  /\ sync' = [sync EXCEPT ![r] = "failed"]
  /\ messages' = messages \union {[about |-> r, id |-> r, status |-> "failed"]}
  /\ UNCHANGED <<ledger, round, updates, tabs, started, mishap>>

\* The user closes the tab, and with it what runs there.
CloseTab(r) ==
  /\ r \in tabs
  /\ tabs' = tabs \ {r}
  /\ sync' = [sync EXCEPT ![r] = IF @ = "running" THEN "gone" ELSE @]
  /\ UNCHANGED <<ledger, round, updates, messages, started, mishap>>

\* handleSyncComplete, handleSyncFailed.  Both close a tab that the message
\* names, and the content script names none.
HandleSyncMessage(m) ==
  /\ m \in messages
  /\ messages' = messages \ {m}
  /\ ReadToUpdate(m.about, "message", m.id, m.status)
  /\ UNCHANGED <<ledger, round, sync, tabs, started, mishap>>

StopWorker ==
  /\ round' = [n \in Rounds |-> [run |-> NoSync, left |-> 0]]
  /\ updates' = {}
  /\ mishap' = TRUE
  /\ UNCHANGED <<ledger, sync, messages, tabs, started>>

ExtNext ==
  \/ \E n \in Rounds : \/ \E r \in Syncs : StartSync(n, r)
                       \/ OpenTab(n) \/ AskSync(n) \/ NotReady(n)
                       \/ RecordUnready(n) \/ NextPortal(n)
  \/ \E r \in Syncs : CompleteSync(r) \/ FailSync(r) \/ CloseTab(r)
  \/ \E u \in updates : Set(u)
  \/ \E m \in messages : HandleSyncMessage(m)
  \/ StopWorker

ExtSpec == ExtInit /\ [][ExtNext]_extVars

-----------------------------------------------------------------------------
(* Properties. *)

Settled(r) ==
  /\ \A u \in updates : u.owner # r
  /\ \A m \in messages : m.about # r

\* An entry that says failed is of a sync that failed, or whose content script
\* was not there, whichever entries came and went since the message was sent.
FailedIsReal ==
  \A e \in ToSet(ledger) :
    e.status = "failed" => sync[e.run] \in {"failed", "unreadyEntry"}

\* Syncs that ended like this have this status while among the newest, unless
\* two ledger operations overlapped or the worker was stopped.
Recorded(ends, status) ==
  \A i \in DOMAIN started :
    /\ sync[started[i]] \in ends
    /\ Settled(started[i])
    /\ i + MaxSyncs > Len(started)
    /\ \A u \in updates : u.kind # "append"
    /\ ~ mishap
    => [run |-> started[i], status |-> status] \in ToSet(ledger)

\* The ledger tells which syncs failed: no other is called failed, and of the
\* newest none is missed (storage.ts; handleSyncFailed, the catch of
\* runAllSyncs).  Of a sync that completed the ledger says nothing: its entry
\* stays in progress, see CompletionIsRecorded.
LedgerTellsFailures ==
  FailedIsReal /\ Recorded({"failed", "unreadyEntry"}, "failed")

\* What handleSyncComplete is for, and the completion message of
\* docs/CLIENT_PIPELINE_SPEC.md, which has the id of the sync: a sync that
\* completed is a success in the ledger.  The code does not keep it.
CompletionIsRecorded == Recorded({"completed"}, "success")
=============================================================================
