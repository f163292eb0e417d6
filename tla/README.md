# Scholaracle: formal models

TLA+ modules, TLC configurations and TLAPS proofs for the parts of this repository whose
correctness depends on interleavings, failures and order.

Scholaracle has no transactions and no locks besides single MongoDB commands. The API, the
worker processes and the clients share collections; every handler and every job is a
sequence of separate commands, and anything can happen between two of them. The models
therefore take **one command sent to the server as one atomic step**, and everything the
code does between two commands as happening at one of its ends.

Contents: [1 the system](#1-the-system), [2 the modules](#2-the-modules),
[3 what TLC checks](#3-what-tlc-checks), [4 what is proved](#4-what-is-proved),
[5 disagreements and exceptions](#5-disagreements-and-exceptions),
[6 what is not modelled](#6-what-is-not-modelled), [7 plan](#7-plan).

## 1. The system

A parent's device (mobile app or browser extension) logs in to a school portal, extracts
assignments and grades, and uploads them to the API (`packages/api`) as delta operations.
The API stores them, derives alerts, and adds jobs to a queue in MongoDB. Worker processes
(`packages/workers`, `packages/agents`) turn jobs into mails and text messages, at once, in
digests, or as reminders ahead of a due date. Parents and students sign in to an account, a
device is authorised with a connector token, and an app store reports purchases by webhook.
Paths below are relative to `src/packages/`.

| Component | State it keeps | Operations | Interacts with | Hard behaviour | Correct when | Status |
|---|---|---|---|---|---|---|
| **Job queue** `agents/src/queue` | collection `jobs` | add, getNextJob, complete, fail, cancel, resetStalledJobs, cleanup | API and scheduler add; workers claim; two TTL indexes delete | complete/fail write by `_id` without looking at the lock; `fail` is two commands; expiry under a run | one runner per job, at most `maxAttempts` runs, an outcome is final | modelled |
| **Worker process** `agents/src/worker`, `workers/src/worker.ts` | `_running`, `_activeJobs`, loops, promises nobody awaits | start, one loop per type, processJob, stop, exit | the queue; the deploy, which overlaps two processes | check-then-await of the limit; stop races a claim in flight; crash | the counter is exact, the limit nearly holds, `stop` ends and loses little | modelled |
| **Alert fan-out** `agents/src/service`, `recipient-resolver.ts`, `delivery` | jobs and digest items per recipient | one pass over the recipients inside a retried job; the delivery of one mail | worker, queue, digests | a retry repeats a half-done pass; preferences read again | a completed alert reached every entry, the owner's own on one path, mails bounded | modelled |
| **Reminder ladder** `studio-core/src/guidance`, `agents/src/guidance` | send log, count per day, scheduled jobs | schedule, evaluate | ingest, worker, queue | check and record are separate commands; several copies of a job; the clock moves | no step repeated once logged, nothing after submission, cap nearly kept | modelled |
| **Ingest runs** `api/src/routes/ingest/v1`, `database/.../IngestRunRepository` | run documents, data of the user, `dataSources` of the student, alerts | POST runs, envelope, complete (success or failure); reaper | clients, co-parents, worker's reaper, queue | handlers that overlap or die; a status checked in one command and used in another; whole-array writes | a committed run is fully applied, settles once, alerts what it brought, notifies it if a student is found | partly |
| **Digests** `workers/src/digest`, `database/.../pending` | two pending collections, flush jobs | defer, request by hand, three timers | fan-out, API, transports | read, send and delete are separate; timers and processes overlap; failures between the steps | nothing is deleted that was not tried; mails are bounded; the queue empties | partly |
| **Sessions** `auth/src/AuthService`, `api/src/routes/auth`, `mobile/src/api`, `web/lib` | refresh tokens in families, session rows, the client's stored token | login, refresh, logout, delisting, expiry | clients that share storage or retry | two refreshes at once; refresh against logout; a lost answer | nobody loses a session without a reason; what lives is listed; what is dead stays so | partly |
| **Device authorization, connector tokens** `api/src/services/connectorDeviceTokens.ts` | codes, one active token per device, a ledger | approve, mint, poll, issue, revoke | parent, device | four commands per mint; delivery marked before it is answered | the token a device got last works | modelled |
| **Account deletion** `api/src/services/account-deletion` | the documents of a household | one sequence of purges | every request of the household | failures and second attempts half-way; requests beside it | nothing is left | partly |
| **Billing events** `api/src/routes/webhooks/noctusoft`, `api/src/services/billing` | event ids, subscription row, payments, orphans | record, apply, forget, answer | app store | twice, late, at once and out of order; half-applied | acknowledged means applied; charged once; cancelled stays cancelled | partly |
| **Client scrape, run ledger** `scraper-core/src/pipeline`, `mobile/src/ledger` | stages of a pipeline; an array in AsyncStorage behind a queue of promises | start, phases, complete, fail, clear at sign-out | ingest API (its outcome), other pipelines of the app | every ledger operation reads, changes and writes the array; warnings nobody awaits; a cancelled screen leaves its pipeline | an entry has its phases and its end, also when operations fail | partly |
| **Page driver** `mobile/src/scraper/WebViewPageDriver.ts` | calls awaiting an answer, waits for a load end | goto, evaluate, content, timers | a portal's page behind a bridge | answers that come late, pages that navigate and take running functions along | a call is settled by its own answer or its timer | partly |
| **Browser extension** `browser-extension/src` | an array in `chrome.storage`, tabs, messages | sync of each portal, completion, failure | content scripts, the user | the service worker is stopped anywhere; two rounds at once | an entry says what happened to its sync | partly |
| **Email transfer** `api/src/services/email-transfer` | a request in the user, a confirmation per user and side | initiate, confirm old and new, cancel, expiry | links in mails, followed repeatedly | two confirmations at once; a check days before the write | addresses unique, a confirmed transfer is completed | modelled |
| **Shared contacts** `api/src/routes/students` | the array `sharedWith` of a student | invite, accept, decline, edit, remove, leave, admin, change of address | several parents | every route writes the whole array it computed | one live entry per address, rights only where given | partly |
| Billing routes, coupons, administration | the same row | single updates | Billing events | - | - | not modelled |
| Source invites `api/src/services/source-invite` | invites by token hash | issue, redeem | - | issue is two commands | redeemed once | not modelled |
| Glance mails, staleness monitor, nightly repair `workers/src` | a date or a set in memory | timers | transports | lost on restart | once per day | not modelled |
| Enrichers, extractors, recipes, identity matching | portal pages | functions of one client | API | none across actors | outputs of functions | not modelled |
| Asset cache and offline packs `mobile`, `studio-core` | content-addressed files | fetch, verify, evict | API | a crash between download and index | what is served has its hash | not modelled |
| Web, mobile and extension user interfaces; other routes; repositories; AI text; contracts; tests | a screen, one document, none | requests | API | none of their own | - | not modelled |

`PROJECT.json` lists all of them with their files and status, and every hazard at its line.
"Partly" means that some operation of the component is left out; section 6 names it.

How they meet:

- `AlertFanout` and `GuidanceLadder` EXTEND `NotificationWorker`: a handler is what an execution
  does while it is "handling". Each is proved to be a refinement of the worker, so the worker's
  theorems are used as lemmas about them.
- The notify jobs of `IngestRun` are the alerts of `AlertFanout`, seen from their caller
  (`JobContract` says what the caller may rely on); its guidance jobs are `GuidanceLadder`'s `Schedule`.
- What a pass of `AlertFanout` puts into the owner's digest is `Digest`'s `Defer`.
- `Accounts` EXTENDS `Sessions` and `DeviceTokens` and adds the deletion, which writes the state of both.
- What `ClientRun` and `ExtensionSync` upload are the requests that `IngestRun` models from the server's
  side; `PageDriver` is what a stage of `ClientRun` waits for. They share no state with each other or with
  the server, so the modules are independent.
- `EmailTransfer` changes a user's own address, `SharedContacts` the addresses in a student's array; the
  code keeps the two apart, and so do the modules.

## 2. The modules

| Module | What it is |
|---|---|
| `MongoQueue` | the collection `jobs`: one operator per command, the TTL index, the clock as far as guards see it |
| `NotificationWorker` | EXTENDS `MongoQueue`: processes, loops, runs, stop and crash |
| `JobContract` | abstract: what someone who adds a job may rely on, one atomic step per outcome |
| `AlertFanout` | EXTENDS `NotificationWorker`: the handlers of notify and deliver jobs |
| `GuidanceLadder` | EXTENDS `NotificationWorker`: scheduling and evaluation of reminder steps |
| `IngestRun` | handlers of the ingest API, run documents, student, alerts, unawaited adds, reaper, clients |
| `IngestContract` | abstract: Write, Publish, Close |
| `Digest` | pending collections, timers, flushes, manual digests, failures, restarts |
| `Billing` | the store's webhook events applied to one user's subscription |
| `Sessions` | refresh tokens, session rows and the clients that hold a token |
| `DeviceTokens` | device codes and connector tokens |
| `Accounts` | EXTENDS `Sessions`, `DeviceTokens`: the account deletion beside their requests |
| `ClientRun` | pipelines of the app and the queue of their ledger |
| `PageDriver` | calls and navigations over the bridge to a WebView |
| `ExtensionSync` | the extension's rounds, messages and ledger |
| `EmailTransfer` | the change of a user's address by two confirmed links |
| `SharedContacts` | the routes that write a student's `sharedWith` |
| `NotificationWorkerProofs`, `AlertFanoutProofs`, `GuidanceLadderProofs`, `IngestRunProofs`, `DigestProofs`, `BillingProofs`, `AccountsProofs`, `ClientProofs` | theorems; `ClientProofs` has those of the five modules above |
| `MCNotificationWorker`, `MCAlertFanout`, `MCGuidanceLadder`, `MCIngestRun`, `MCDigest`, `MCBilling`, `MCAccounts` | finite instances |
| `MCApart` | a finite instance of the five last components, which share no state: a behaviour is one of one of them |
| `MCExtension` | `ExtensionSync` by itself |

Definitions that a comment calls *Variant* are not part of any specification. Each is a way
the neighbouring definition could be wrong (a dropped guard, a missing reset, an off-by-one);
`PROJECT.json` says which property each of them violates, so every property is known to be
able to fail.

### MongoQueue and NotificationWorker

| TLA+ | Code |
|---|---|
| `status`, `attempts` | fields of the job document; "absent" and "deleted" are its absence before and after |
| `due`, `stale` | `scheduledFor <= now`; `lockedAt` older than five minutes |
| `NextJobs`, `LockJob` | filter, sort and update of the `findOneAndUpdate` in `getNextJob`; the order among equal priorities is left open |
| `SetCompleted`; `FailReads`, `SetFailed` | `complete()`; the `findOne` and the `updateOne` of `fail()` |
| `TtlExpire` | the TTL index on `scheduledFor` (`database/src/indexes.ts`) |
| `phase` | `_running` and how far `stop()` and `shutdown()` have come |
| `loop` | where a polling loop is: at its `while`, awaiting `getNextJob`, or over |
| `active`, `runs` | `_activeJobs`; the promises of `processJob`, each at the command it awaits |
| `claims` | history variable: how often a job was handed out |

What a handler does is abstracted to returning or throwing. `Faults` names what a deployment
is exposed to (`ttl`, `sweep`, `dbError`, `crash`, `shutdown`), so that a theorem can say which
fault it excludes. A command that fails may or may not have been applied (`CompleteThrows`,
`ClaimReplyLost`). The write of `fail()` is the one that is taken as applied, or as failed
without effect: if it is applied and the reply lost, the run ends exactly as after `FailWrites`.

### AlertFanout

| TLA+ | Code |
|---|---|
| `pass[a]` | the handler `_processNotifyJob` of the latest execution of alert `a`: the list it resolved, the entries still to come, what it decided for the owner's own |
| `Resolve`, `ResolveFails` | `resolveAllAlertRecipients`: entries `[place, email]`, one per place (0 the owner's own with its `userId`, then contacts, last the `alertEmail`), the same address at several places or not, of which the audience of the type keeps some; its catch, which goes on with the default recipient `NoEntry` |
| `ReadPreference`, `QueueForDigest` | the read and the insert of `_tryDeferEmailToDigestEnqueue` |
| `QueueDeliver` | `queue.add('deliver', ...)`, a document of the same queue |
| `PassThrows`, `...Throws` | a rejected await: the job is failed and retried from the first recipient |
| `DeliverMails`, `DeliverSkips`, `DeliverThrows` | `_processDeliverJob` down to `EmailDelivery.deliver` |
| `digested`, `mails` | items added to the owner's digest; history: mails accepted by the transport |

The deliver jobs that a pass may add are named in advance (`DeliverJobs`): by alert, addressee
and number of the pass. Preferences and settings are read from any value at any time, since
nothing orders their edits with a pass.

### GuidanceLadder

| TLA+ | Code |
|---|---|
| `Jobs` | assignment, step and copy: every ingest schedules all steps ahead again |
| `Schedule`, `FireTime` | `enqueueGuidanceJobs` and the snapping of `scheduleGuidanceSteps` |
| `evals[j]` | the latest evaluation of a job: its pc, the step the clock gave it, its audience |
| `ReadStatus`, `ResolveStep`, `CheckHour`, `ReadCap`, `Send`, `RecordSend`, `MarkSent` | the commands and checks of `GuidanceLadder.evaluate`, in order |
| `RecordsRace` | first upserts of a day that race: no unique index on student and day, so each inserts a document |
| `DayShift` | the calendar day of the count goes by New York, not by the assignment's zone |

Time is counted in half hours, so the tolerance of 0.51 h around a step is the step's half hour
and its two neighbours.

### IngestRun

| TLA+ | Code |
|---|---|
| `status`, `owner` | the run document's `status` and `userId` |
| `reqs` | a handler in progress: its run, its kind, the command it will send next, what it has read |
| `DataUser` | `resolveDataUserId` |
| `ApplyOp` | one op of `applyOps`; `applied` records who wrote what for whom |
| `OpsApplied`, `AttachSource` | the read and the write of `attachStudentDataSourcesFromBindings` |
| `ReadStudents`, `WriteStudents` | the read and the write of `syncStudentDataSourcesAfterIngest...` |
| `Scan`, `AlertExists`, `AlertMissing`, `CreateAlert` | `generateAlertsFromIngestedAssignments`: list, look up, create; the job only if `FindsStudent` (`resolveStudentIdForJob`) |
| `adds`, `AddLands`, `AddLost` | `void queue.add(...)` |
| `Abandon` | `abandonStaleStartedRuns` |
| `overlap` | history variable: the most alert generations of one user at a time |

A client is whoever sends a request that the handler's first look-up lets through. It may send
requests in any order, repeat them up to `Copies` times, report failure while its upload is
still being handled, or go away. One student suffices, because all sharing between runs is
through the student's array and the user's assignments.

### Digest

| TLA+ | Code |
|---|---|
| `stored` | documents of `email_digest_pending` and `sms_digest_pending` of one user |
| `minute`, `ticked`, `Tick`, `TickDropped` | `safeInterval` at 60 s, and its dropped ticks while a callback runs |
| `flush` | how far the callback of each timer is, with what it has read |
| `Read`, `SendEmail`, `Preview`, `SendSms`, `Delete` | `sendDigestForUser` and `flushSmsDigests`, command by command |
| `RequestItems`, `RequestJob`, `ClaimRequest`, `CompleteRequest` | digests asked for by hand and `processImmediateFlushJobs` |
| `RequestExpires` | the TTL index on `jobs.scheduledFor` deletes a flush job, which is due from the start |
| `late`, `cutOff`, `tried`, `mailed` | history variables: inserted behind a flush, flushes that read and never deleted, handed to a transport, accepted by it |

Schedules and filters (holiday mode, chosen recipients, preview) are constants: which minutes
are due, which items a scheduled flush reads, whom it may address.

### Billing

| TLA+ | Code |
|---|---|
| `row` | the user's document of `subscriptions` (status and the store's subscription ref) |
| `seen`, `Record`, `Dedupe`, `Forget` | `webhook_events`: `recordIfNew`, its `false`, and `forget` in the catch of `handleWebhook` |
| `FindPayment`, `CreatePayment` | `isPaymentRecorded` and `paymentRepo.create` |
| `FindToActivate`, `FindToRevoke`, `FindToSync`, `Write` | the read and the later write of `activateOrRenewSubscription`, `revokeOrMarkPastDue`, `syncStoreSubscriptionState` |
| `Report` | `billing_orphans` |
| `Throw`, `AfterEffect`, `Crash` | a command fails before or after its effect; the process dies |
| `acked`, `applied`, `lost`, `together`, `redone` | history variables: what the store was told, what came to its end, and the exceptions of the two invariants |

### Sessions, DeviceTokens and Accounts

| TLA+ | Code |
|---|---|
| `token`, `rows`, `expired` | `refresh_tokens` (named by the request that made them), `sessions` without `revokedAt`, families past `expiresAt` |
| `Check`, `Reuse`, `FindUser`, `Rotate`, `Create`, `FindRow`, `WriteRow`, `RevokeFamily` | `refreshAccessToken` and `login`, then `upsertSession` |
| `FindLogout`, `LogoutRows`, `FindAgain` | `handleLogout`, which looks the token up twice |
| `held`, `session`, `epoch`, `SingleFlight`, `Refused`, `Unanswered` | the client libraries: the stored token, `_sessionEpoch`, `_refreshPromise`, how each reacts to an error and to silence |
| `auth`, `device`, `ledger` | `slc_device_auth`, `slc_devices`, `revoked_connector_tokens` |
| `FindExisting`, `MarkOld`, `Upsert`, `RecordJti` | the four commands of `mintConnectorTokenForDevice` |
| `Poll`, `Deliver`, `DeliverLost` | the read and the unconditional mark of `deliverTokenOnce`; the answer gets lost |
| `FindParent` ... `Audit`, `FailDeletion` | `deleteParentAccount`, collection by collection, parent first and then each login |
| `excused`, `delisted`, `straggled`, `superseded`, `cut` | history variables: for each client, family, token or parent, whether a reason has occurred that the property excepts |

A client is a token storage: one installed app, or one browser profile with `Tabs` pages that
share it. The two sign out differently (the app without a request) and react differently to a
request that fails; both are modelled from their client libraries.

### ClientRun, PageDriver and ExtensionSync

| TLA+ | Code |
|---|---|
| `at`, `Follows`, `Emitting`, `Throwing`, `Reporting` | how far a `runClientScrape` is, the order of its stages, which of them emit a phase, throw, or report to the server |
| `ledgerOps`, `Enqueue`, `AfterRejection` | `RunLedger._queue` and `_enqueue`: operations called and not settled; a rejection does not reach those behind it |
| `Read`, `Write`, `Clear` | `_load`, `_save` and `clear`, each of which may fail |
| `Warn` | `void emit(...)`: a phase nobody awaits |
| `phased`, `cleared`, `missed` | history variables: phases written, entries cleared, ends whose operation failed |
| `pendingEvals`, `loadResolvers` | `_pending` (ids with their timers) and `_loadResolvers` |
| `inPage`, `posted`, `loadEnds` | functions running in the document, messages and load events on the bridge |
| `SiteNavigates`, `Commit`, `FinishLoad` | the portal's page and the WebView (external) |
| `round`, `sync` | how far `runAllSyncs` and one sync are |
| `updates`, `Set` | ledger operations between `chrome.storage.local.get` and `set` |
| `messages`, `StopWorker` | SYNC_COMPLETE and SYNC_FAILED on their way; the browser stops the service worker between any two steps |

### EmailTransfer and SharedContacts

| TLA+ | Code |
|---|---|
| `request`, `expired` | `users.emailTransferRequest` and its `expiresAt` |
| `CheckAddress`, `StoreRequest` | the look-up of the new address and the write of `initiateUserTransfer` |
| `Confirm`, `Look`, `RereadUser`, `WriteEmail`, `DeleteConfirmations` | a confirmation, command by command: upsert, the two look-ups, the user again, the write, the clean-up |
| `Admitted` | the unique index on `users.email` |
| `withdrawn`, `cutShort`, `swept` | history variables: transfers no longer pending, confirmations that threw, confirmations cleaned away |
| `agreed`, `raced` | history variables: sides whose link was accepted since the last clean-up, users whose clean-up overtook a confirmation |
| `shared` | `students.sharedWith` |
| `underway[h].next`, `WriteArray` | the array a route computed from what it read, and `StudentRepository.update` with it |
| `EntryOf`, `InviteOf`, `AcceptedOf`, `ChangingEntry` | the `findIndex` of each route: the first entry that fits |
| `ConfirmChange`, `LookUp`, `DropConfirmations` | POST transfer-confirm after its read |
| `promoted`, `collided` | history variables: who was made an admin, addresses changed to while an entry had them |

## 3. What TLC checks

Runs that must pass:

| Run | Instance | Question |
|---|---|---|
| `worker_safety` | 2 processes (symmetric), 2 jobs of 2 types with 2 attempts, `Concurrency` 1; ttl, dbError, crash, shutdown | Is a job ever run twice at once, or more often than it may? |
| `worker_progress` | fair; 1 process, 2 jobs; crash, shutdown, sweep with `MaxSweeps` 2 | Does every job get an outcome? Does `stop` end? |
| `fanout_safety` | 1 process, 1 alert of 2 attempts for parents, one address that stands at up to three places of the list; every command may fail before or after its effect, preferences change at any time | Has a completed alert reached every entry of its list? Is the owner's own entry served on one path? How far does the stale check of `Concurrency` overshoot? |
| `ladder_safety` | 1 process, `Concurrency` 2, the third step of an assignment scheduled by 2 ingests (symmetric), evaluated in the half hours around midnight; dbError, crash | How far can the daily cap be exceeded? Is what was sent logged? Is a settled step silent? |
| `ingest_safety` | 2 runs over 2 sources of a student, one by the owner and one by a co-parent, 2 items; handlers die | What does a commit imply? Does a run settle once? How many alerts? Is `IngestContract` implemented? |
| `ingest_progress` | fair; 2 runs, one by the owner and one by a co-parent, 1 item, whose student id is unknown and resolves as the owner's only student; handlers do not die | Does every run leave "started"? Do the items of a committed run get jobs if a student is found for them? |
| `digest_flush` | fair; 1 process with three timers, an alert by email, one by SMS, a preview asked for by hand; 2 minutes a day; 1 fault | Is anything deleted untried? How often is an alert mailed? Has a completed flush job flushed? Does the queue empty? |
| `billing_safety` | 6 events about 2 subscriptions (start, change, failed payment, lost dispute; buy and renew with one payment), `start` delivered twice, 2 handlers at once, 1 fault | Is an acknowledged event applied? Is a payment recorded once? Does a cancelled subscription come back, does an old cancel end a new one? |
| `account_safety` | a parent with the app, a student login in a browser with 2 pages, a device; 4 requests, 2 at once, deletions among them, 1 fault or expiry | Does a client keep its session? Is a live session listed? Does a dead family stay dead? Does a delivered token work? Does a deletion leave nothing? |
| `apart_safety` | one of: 2 pipelines, a ledger of 2 entries, a warning, and a sign-out or a fault; 2 calls and 2 gotos with a navigation of the site; 2 rounds over 2 portals with 3 syncs and a ledger of 2; a user with 2 transfers, of which the first may expire, and a cancel beside a confirmation; 2 users who want one address; 2 requests at once on a student's contacts; a change of a contact's address with expiry | Does an entry keep its phases and its end? Is a call settled by its own answer? Does the extension's ledger tell the failures? Is a confirmed transfer handled, an address changed only on both confirmations, a withdrawn transfer left alone? Are live entries distinct, and are rights only where given? |

Two runs, `ladder_reminder` and `extension_complete` (one sync of the extension), must find a
violation; see section 5.

`apart_safety` puts five components into one run. Their behaviours are not interleaved: the
components share no variable, a variable `part` says whose behaviour it is, and side by side they
would reach the product of the states each reaches alone and nothing else. Of syncs, pipelines,
handlers and requests that differ in name only, the first begins first (`SyncsInOrder` and the like
in `MCApart`); a symmetry set of all of them would cost their product at every state.

Most of these properties are of the form "X, except ...", where the exceptions are history
variables or a named predicate. The exceptions are the ways in which the code really does
violate X; the property says that there is no other way. Section 5 lists them.

Why these bounds. A double run needs two loops and one document, so two processes with a loop
per type and two jobs reach it (were the lock not atomic). An overshoot needs two
loops that pass the check together: the fan-out's two loops at `Concurrency` 1. Two
attempts distinguish the first failure from the last one, and one attempt makes them the same.
A pass must fail after the owner and before the contact, which takes two people and two
attempts. The cap is exceeded when two evaluations read before either records, at `MaxStudent`
1; two copies of one step make one of them late, and the midnight splits a read from its record.
A lost update of the student's array needs two sources; a co-parent needs two users; one run
with two items and one with one of them makes items that only one run brings and one that both
bring, which is what duplicate alerts need. A flush races another through two timers that share
one queue (the scheduled and the manual one), and a second minute lets the day return. A
subscription is revived or ended wrongly by two events about two refs, one read before and
written after the other; a charge is recorded twice by a payment that two events report, or by
one without an id that is retried. A session is lost by two pages with one token, or by a fault
between the two writes of a rotation, after a login: four requests make login, two refreshes and
a logout, or a login, a deletion, its retry and one request beside them. A read or a write
of the ledger that fails, or the end of the app, takes one fault; several are left to the proofs. A late
answer meets a later call with two calls, and a load end another navigation with two gotos. Two
rounds race with one sync each, and the third is cut off a ledger of two. Both links of a transfer
followed at once take two handlers; two transfers let the second inherit what is left of the first,
and a clean-up overtake a confirmation of the other.
An array is overwritten by an older one with two requests; the entries of one address are two after
a decline. Every action of the specifications fires in some passing run.

Bounds that are not in the code, all of them guards: `MaxSweeps` (how often `resetStalledJobs`
may count an attempt), `Copies` in `IngestRun` (repeats of a request), `MaxFaults`,
`MaxDeviceFaults`, `MaxAllFaults` (failed commands, crashes, lost answers, expiries), `Passes`
(executions of an alert that are followed), `Instants` (values of the clock), `DayMinutes`,
`MaxDeliveries`, `MaxRequests`, `MaxDeviceRequests`, `MaxDeletions`, `MaxTotal`, `MaxOverlap`,
`MaxBeside` (requests in a behaviour with a deletion), `MaxWarnings`, `SignOuts`, `SiteMoves`,
`MaxContacts` and the numbers of `Handlers` and `Routes` (requests at one time) and `Mixed` (whether session and device
requests occur in one behaviour; they share nothing but the deletion, so in `account_safety`
they do not). No proof uses any of them, so the theorems cover what the runs cut off: more
repeats, more requests at once, several faults, all kinds of requests mixed.

`worker_*`, `digest_*`, `fanout_safety` and `ladder_safety` check for deadlock. The ingest,
billing and account runs and `apart_safety` do not: once every request is sent and every event
delivered, the model really has nothing left to do.

### Fairness

Only what the event loop, a timer or the process supervisor does on its own is fair, and weak
fairness suffices, since none of these steps is disabled again and again by others.

- Worker: time passes for a scheduled job (`BecomeDue`, `BecomeStale`), a loop and a waiting
  `stop()` keep polling, a run goes on, a process that is down is started again, `stop` is
  followed by the exit. `ResetStalled` is fair where the sweep is configured at all. Callers,
  faults and signals are not.
- Ingest: a handler goes on to its end and an unawaited add lands (event loop), the reaper runs
  every few minutes. Clients are not fair: nobody obliges one to upload or to complete.
- Digest: each thread goes on (its timer fires when idle), a dead process is restarted, time
  passes. No alert need be deferred and nothing need fail.

The liveness results hold where handlers and transports return: a handler that hangs is a
step that fairness excludes, and the code has no timeout of its own around it. The fan-out, the
ladder, billing and accounts have no liveness property of their own. The first two inherit the
worker's: a pass or an evaluation is an execution, with finitely many steps. Of the last two
the code promises no progress: a client that loses its answer is not obliged to ask again.

## 4. What is proved

The theorems hold for every value of the constants that satisfies the named assumptions
(`QueueConstants`, `WorkerConstants`, `FanoutConstants`, `LadderConstants`, `IngestConstants`,
`DigestConstants`, `BillingConstants`, `SessionConstants`, `DeviceConstants`,
`AccountConstants`, `ClientRunConstants`, `PageDriverConstants`, `ExtensionConstants`,
`TransferConstants`, `ContactConstants`): any number of jobs, processes, people, assignments, runs,
items, events, users, clients, devices, calls, syncs, contacts, requests and faults. The
assumptions are types, plus what the code fixes: `Concurrency` positive, finitely many job types,
runs and processes, for the ladder at least one type and one process (its bound is about a
deployment that runs something), one phone number per user, batches of different manual digests
disjoint and by email, previews by email, a paid event reports a granted status, only a payment id
ties two events to one charge, an app has one page, a student's login is no parent and belongs to
students of one household (`StudentProvisioner` makes a user for one student), users start with
different addresses (the unique index), identifiers differ from the sentinels beside them.

| Theorem | Says | Excluding |
|---|---|---|
| `NotificationWorkerProofs`!`TypeCorrect` | `TypeOK`; `_activeJobs` is never negative | - |
| `ActiveJobsCounted` | `_activeJobs` = number of runs in the process | - |
| `OvershootBounded` | fewer than `Concurrency` + number of loops | - |
| `StopAbandonsLittle` | the exit cuts off at most one run per loop | - |
| `OneRunnerPerJob` | nobody runs a job twice at once | sweep |
| `AttemptsBounded`, `GivenUpWhenExhausted` | at most `maxAttempts` runs, given up after exactly that many | sweep |
| `OutcomesFinal` | completed and failed are final | sweep, dbError |
| `ContractKept` | queue and workers implement `JobContract` | sweep, dbError |
| `AlertFanoutProofs`!`FanoutImplementsWorker` | fan-out and delivery are executions of the worker | - |
| `FanTypeCorrect` | types | sweep |
| `AlertReachesAll` | a completed alert has a job or item for every entry of its last list | sweep |
| `OnePathOnly` | no pass serves the owner's own entry in the digest and at once | sweep |
| `MailsBoundedByAttempts` | per alert and place of its list, mails <= attempts of the alert x attempts of a delivery; an address has as many places as the list repeats it | sweep |
| `GuidanceLadderProofs`!`LadderImplementsWorker` | evaluations are executions of the worker | - |
| `LadderTypeCorrect` | types | no sweep, by assumption |
| `RemindersAreLogged` | a completed job that reminded has its step in the log | as above |
| `SettledStepsStaySilent` | what is claimed after submission or after the log entry is silent | as above |
| `DailyCapHolds` | reminders of a day <= cap + (one or two times) the evaluations in flight less one | as above |
| `IngestRunProofs`!`TypeCorrect` | `TypeOK`; no counter goes negative | - |
| `UploadsComplete` | an uploaded or committed run is applied under its owner | - |
| `SettledOnce` | one handler of a run gets past commit or failure | - |
| `AlertsLimited` | alerts of an item <= overlapping completions | - |
| `JobsMatchAlerts` | jobs and pending adds <= alerts; = if a student is found for the user and nothing is lost; 0 if none is found | - |
| `ContractKept` | handlers and reaper implement `IngestContract` | - |
| `DigestProofs`!`TypeCorrect` | `TypeOK` | - |
| `AlertsTried` | nothing sendable is deleted untried, unless inserted behind a flush | - |
| `RequestsFlushed` | a completed flush job left none of its items | - |
| `MailsLimited` | mails of an item <= flush threads of its queue + flushes cut off | - |
| `BillingProofs`!`BillTypeCorrect` | types | - |
| `AckedAreApplied` | an acknowledged event is applied, in work, or lost in a named way | - |
| `PaymentsOnce` | a payment is recorded once, with two exceptions | - |
| `CancelledStays` | a cancelled subscription comes back only as listed | - |
| `CancelEndsItsOwn` | a running one is ended only as listed | - |
| `AccountsProofs`!`AccTypeCorrect` | types of sessions, devices and deletions | - |
| `DeadFamiliesStayDead` | no live token after the last one, but from a refresh past its check | - |
| `TakenTokensWork` | the token a device got last is accepted until another mint or a revocation | - |
| `HeldSessionsAreListed` | a live stored token has a session row, unless delisted | - |
| `SessionsSurvive` | rotation costs no client its session, unless excused | - |
| `DeletionsAreComplete` | a deletion beside no other request leaves nothing of the household, unless an attempt was cut off between students and logins | - |
| `ClientProofs`!`ClientTypeCorrect` | types of pipelines, queue and ledger | - |
| `PhasesAreKept` | an entry has the phases written for it; what was cleared stays cleared | - |
| `EndsAreRecorded` | an ended run is not left in progress, unless its last operation failed | - |
| `EndsAreFinal` | a recorded end is not overwritten | - |
| `DriverTypeCorrect`, `CallsSettle` | types; a call is settled by its own answer or timer | - |
| `ExtTypeCorrect`, `FailuresAreTold` | types; the extension's ledger calls failed what failed, and misses no failure of the newest syncs unless disturbed (`mishap`) | - |
| `TransferTypeCorrect`, `ChangesAreConfirmed` | types; an address changes only on accepted links of both sides since the clean-up, unless a clean-up overtook a confirmation | - |
| `ConfirmationsAreHandled` | a transfer with both links accepted has a handler at work, unless cut short or swept | - |
| `OnlyPendingIsWritten` | no confirmation takes up a withdrawn transfer | - |
| `ContactTypeCorrect`, `LiveAddressesStayDistinct` | types; live entries of one address only after a colliding change | - |
| `RightsAreGiven` | who administers a student was made an admin in person | - |

The exclusions are not conveniences. With `resetStalledJobs`, a slow run and its successor
overlap and the count of runs is off; with command errors, `complete()` may be applied, throw,
and be followed by a `fail()` that takes the outcome back. TLC shows both in seconds.

The arguments, in brief:

- *Counting* (`CountInv`): the runs are a finite set, each is identified by its job and the
  number of its claim, and `_activeJobs` counts those of its process. The identification is
  needed because a claim adds a record to a set and the counter assumes that it is a new one.
- *Loops* (`LoopInv`): runs plus claims in flight stay below the limit plus the loops, and after
  `stop()` saw zero active jobs, runs plus claims in flight are at most the loops. The property
  alone is not inductive: a loop that awaits has already passed the check.
- *Lock* (`JobInv`): the status of a document determines who runs it and how often it has run:
  pending means `claims = attempts` and no runner; processing means at most one runner, with
  `claims = attempts + 1`; what `fail()` read is still the stored number. This turns the
  unguarded writes of `complete` and `fail` into the single step of `JobContract`.
- *Refinement by the handlers*. Every step of `AlertFanout` and `GuidanceLadder` is a step or a
  stutter of `NotificationWorker`, so `CountInv` and `JobInv` hold there without a second proof.
  `FanInv` adds where the latest pass of each alert is (`PassOK`: entries that are reached
  and those still to come make up the list), which deliver jobs exist, one to a place (`AddedOK`) and that a mail belongs
  to an execution (`MailOK`). `LadderInv` says of each job what its evaluation has ruled out by
  its position (`EvalOK`), and that runs are the latest claims (`LatestRuns`).
- *Applied* (`AppliedInv`): for every handler of an envelope, payload = written + still to do,
  under the owner it resolved; hence `markUploaded`, which matches on the owner, implies that
  all of it is written.
- *Settling* (`SettleInv`): a handler past its commit or failure exists only for a closed run,
  at most once, and a closed run is never opened again.
- *Alerts* (`AlertInv`): alerts of an item plus handlers about to create one are at most
  `overlap`, since whoever looks the item up after the first insert finds it.
- *Digests*. `RequestInv`: a flush job is carried by at most one callback, is "processing" or
  expired as long as it is, and its items are gone when the callback is about to complete it. `SeenInv`:
  what is sendable, not late and still in the queue of a flush past its read was read by that
  flush, and has been handed over unless its recipient is still to come. `ReadInv` and
  `MailInv`: every mail of an item is accounted for by a flush that read it and is still at
  work, by one that was cut off, or, once the item has left, by a thread that flushed it then.
- *Billing*. `Inv`: what a handler's position says of its event and of the row it read, and that
  rows are never deleted; the two action properties follow from it and one step. `Recorded` and
  `Accounted`: a recorded id is applied, lost or held by exactly one handler. `Once`: as long as
  a charge has no exception, at most one handler is about to record it, and none once it is.
- *Accounts*. `SessInv` and `DevInv`: what a handler's position says of its request; that tokens
  of a family belong to one client; that a token in the ledger has a mint. `Listed`: whoever has
  stored a token of a family stores a row next, or a row is there, or somebody is about to remove
  the token too. `Survival`: for each client without an exception, what it stores, which of its
  requests present that token, and which one will replace it (`ClientInv`); the reasons to end a
  family only grow (`Reasons`). The property alone says nothing of a client with a request under
  way, which is when everything happens; the invariant is mostly about those.

- *Daily cap* (`CapInv`). `RunsBounded` bounds the runs: each is the claim of a slot, so the runs in
  handling inject into processes x slots. `Flying` are the evaluations past the cap check whose send is
  not yet recorded; a run has one job and a job one evaluation, so they are at most as many. `Tallied`
  says, per day, how far the sends recorded may be ahead of the count (racing first upserts lose all
  but one), and that once the count has reached the cap, sends recorded plus those in flight stay
  within the bound. A crash only takes evaluations out of flight; a retry is a new one that reads
  the count again.
- *Deletion* (`DelInv`). `AloneInv`: beside a deletion that counts, no request of the household is
  under way and every other deletion of it has failed. `FormInv`: what a deletion holds in hand by its
  position. `GoneInv`: the login of a student that is gone is gone too, or a deletion past the students
  still has it on its list, or an attempt was cut off there. `StageInv` lists what is purged by each
  position. The hard case is the second attempt: it finds only the students the first one left, so the
  logins of the others must be gone for another reason, which is `GoneInv`.
- *Run ledger* (`ClientInv`). Only the first operation of the queue has read, so its copy is the stored
  array, or empty after a failed read; a run's operations stand in the queue as start, phases, one end;
  `phases` of an entry equals what was written. The properties alone say nothing of the copy in flight.
- *Page driver* (`DriverInv`): the property is inductive with the types.
- *Extension* (`ExtInv`). Operations do overwrite each other here, so the invariant is about every array
  at once: the stored one and each that an operation has read or is about to write is a cut of the
  sequence of all entries, newest first, its entries real. An operation on an entry that was cut finds
  none and changes nothing.
- *Email transfer* (`TransferInv`). `ConfirmInv`: for a pending transfer with both links followed,
  undisturbed, some handler has still to look at a side it has not seen, or has seen both. Whoever
  wrote its confirmation last sees the other one; the invariant names that handler. `AgreedInv`: what
  is stored as a confirmation, or was found by a handler that has yet to write, goes back to a link
  accepted since the clean-up. The property alone says nothing of the handlers between.
- *Contacts* (`ContactInv`): rights are with accepted entries whose holder was promoted, and addresses
  are distinct, in the stored array and in all that are about to be written over it. What the look-ups
  of the first entry and the filter of a removal return are lemmas; the filter is a recursive function
  over the positions, and its lemma is an induction by least counterexample, since the library's
  induction theorems cannot be instantiated.

Left to TLC: liveness (`EveryJobSettles`, `StopTerminates`, `RunsLeaveStarted`,
`CommittedItemsNotified`, `AlertsLeaveQueue`, `RequestsSettle`), since fairness and ENABLED are out
of the prover's reach, and the violations of section 5. Every invariant and action property that a
passing run checks is a theorem. `JobContract` is proved (`ContractKept`) and not
checked in a run. No module that is proved about declares a RECURSIVE operator.

## 5. Disagreements and exceptions

Two runs check a sentence of a comment or a document and find a behaviour of the code that
contradicts it; `PROJECT.json` quotes the lines.

| Run | The sentence | The code |
|---|---|---|
| `ladder_reminder` | "Future ladder fire times"; the first two steps "snap to 4pm" | the evaluation at 16:00 accepts a step only within half an hour of its unsnapped offset, so for an assignment due at noon the job is no step and nothing is sent |
| `extension_complete` | the completion carries the id of the sync (`docs/CLIENT_PIPELINE_SPEC.md:328`), and `handleSyncComplete` sets its entry to success | the content script sends the envelope's own id (`content-script.ts:70`), under which the ledger has no entry (`storage.ts:80`): a sync that completed stays "in_progress" |

Other comments that the code does not keep, seen while modelling and visible in the models, without
a run of their own:

| Comment | The code |
|---|---|
| `fail()` retries "or move[s] to failed" (`MongoQueue.ts:186`) | a TTL index on `scheduledFor` (`database/src/indexes.ts:39`) deletes due jobs in any status, also under a run; `fail()` then finds nothing |
| sign-out "purges every per-user artifact from the device" (`signOut.ts:2`) | a pipeline that goes on after its screen was cancelled (`SyncScreen.tsx:271`) and starts its run after the clear (`signOut.ts:40`) leaves an entry |
| `goto` navigates "and wait[s] for it to load" (`IPageDriver.ts:57`) | a load end of the page before resolves the wait as well (`WebViewPageDriver.ts:129`) |
| "Both must click confirmation links" (`email-transfer-service.ts:65`) | confirmations are by user and side, not by transfer (`:168`, `:204`): one left of an earlier transfer counts for the next (`agreed` in `ChangeIsConfirmed`) |
| only the owner promotes an admin (`docs/parental-access-control.md:167`) | an admin may as well (`CanAdmin`, `students.ts:3902`); `AdminsWerePromoted` says that somebody did, not who |
| a contact may update itself (`students.ts:647`) | the entry is the first with the address (`:663`, `:668`), which after decline and a second invitation (`:3804`) is the declined one, so the contact is refused |
| the service worker "closes the tab" (`service-worker.ts:6`) | it closes `msg.tabId` (`:104`, `:113`), which no message carries |

What follows is met by the passing properties as a named exception, or is visible in the models
without contradicting a property. Each is what the code does, with the place where it shows.

Queue and worker
- `stop()` waits for `_activeJobs` = 0 first and for the loops second; a claim in flight starts a
  job in between, and the exit cuts it off (`StopAbandonsOnePerLoop`).
- Nothing calls `resetStalledJobs`: a job whose process died stays "processing"; `worker_progress`
  is about a deployment that would call it.

Fan-out and ladder
- When the recipients cannot be resolved, the pass goes on with a student id as address; the notify
  job completes, and the delivery is skipped without an error (`ResolveFails`, `DeliverSkips`).
- The list of recipients is not freed of duplicates, though `recipient-resolver.ts:7` says one per
  person: an owner whose address is also a contact's or the student's `alertEmail` gets a digest item
  and a mail from one pass, or several mails (`OwnEntry`, `OnePathPerPass`, `MailsWithinBudget`).
- A contact with a phone number and no address gets nothing: the agents of `worker.ts` mail only.
- A step is dropped for good when its evaluation falls into quiet hours or more than half an hour
  late (`CheckHour`, `ResolveStep`).
- The count of a day goes by New York's calendar and is read before the mail and raised after it, and
  without a unique index the first sends of a day can count as one (`RecordsRace`), so the cap is
  exceeded by the other evaluations in flight, or by twice as many (`DailyCapOvershoot`).

Ingest and digests
- An alert whose student cannot be resolved (an unknown id, and a user who owns no student or several,
  as a co-parent's partition may) is stored without a notify job; its fingerprint keeps every later
  completion from adding one (`FindsStudent`, third part of `JobsFollowAlerts`).
- POST runs resolves the owner by the source alone, the envelope also by the student: a co-parent's
  first upload of a new source is refused with 409 after its ops were written.
- The student's `dataSources` array is read and written as a whole, so of two completions one takes
  the other's entry back.
- A mail that the service refused counts as tried: its alerts are deleted with the others.
- A flush job whose process died stays "processing"; `RequestsSettle` counts it as settled, as nothing
  will take it up before the TTL index removes it.
- `deleteByUserId` also deletes what was inserted after the flush had read the queue (`late`). Without
  slots only the hour of a schedule is compared, so a user is due in each of its sixty minutes.

Billing
- An event whose handler dies, or cannot forget the id, or whose retry is answered as a duplicate while
  the first handler is yet to throw, is lost (`lost`).
- A first charge has no payment id: when a later command throws, the retry records it again
  (`redone`); two handlers of one payment both record it (`together`).
- `payment_failed` and `paused` name no subscription and overwrite "cancelled", after which a late
  start finds nothing cancelled and grants again; a purchase without a ref does the same
  (`CancelledIsNotRevived`).
- A cancel that read the row before a newer subscription was stored ends that one (`Stale` in
  `CancelSparesNewer`).

Accounts
- After a failure between the two writes of a rotation, or with two pages of one browser, the next
  refresh revokes the family (`excused`).
- An answer to a refresh that arrives after the sign-out stores the tokens of the old session
  (`straggled`).
- DELETE `/sessions` marks rows only; the tokens live on (`delisted`). A logout whose token a deletion
  or the TTL index removed in between ends without revoking.
- Two approvals of one code may hand the device the token that lost; a poll whose answer is lost leaves
  the device without one (`superseded`, `DeliverLost`).
- A deletion that failed after the students and before their logins leaves the logins for good (`cut`).
  `slc_devices` and `revoked_connector_tokens` are not among the purged collections.

Clients, addresses and contacts
- A failed read of the ledger counts as an empty one, so the next write drops all older entries; an
  entry whose last operation failed stays in progress (`missed`).
- Ledger operations of the extension overwrite each other: the entry of a sync may be missing, or in
  progress for good (`mishap`).
- A confirmation that the clean-up of another overtakes writes its document after it, or completes
  what the user document holds by then: a transfer that nobody confirmed (`raced`).
- A confirmation that throws after its upsert, and the clean-up of another transfer, leave a transfer
  whose links were both followed undone (`cutShort`, `swept`).
- A contact's new address is compared with the others when the change is asked for and not when it is
  done (`collided`); two requests on a student at once lose one of the changes.

## 6. What is not modelled

- The side of a component that a comment in its module leaves out: urls, popups and the sign-in
  detection of the page driver; options, popup and notifications of the extension; names, roles,
  phones and alert settings of a contact, and the entries that an account deletion pulls.
- Parts with no state shared between actors: extraction, matching, rendering, screens, AI text. They
  are most of the repository's lines (portal extractors, three user interfaces, seed data, and routes
  that read or write one document), and a model of them would restate them. The models cover the
  parts in which the order of steps decides.
- Inside the modelled components: trace steps and cursors of ingest runs (append-only, or never
  sent), delete ops, repair bookkeeping and post-ingest intelligence (not read back by the rest),
  the communication log, the opt-out on a relay's error code, the diagnostics route of the digests,
  the reading operations of the queue; refunds and the copy of the subscription in the user document
  (failures swallowed, read by reports only); registration, OAuth, magic links, password reset,
  suspension and second factors (a login with another first check); shares with other families in a
  deletion, and the purged collections besides the three (purged by the same loop).
- Source invites: redemption is one conditional update. Issuing is two commands, so that two issues
  at once leave two open invites; nothing else follows from it.
- Coupons, checkout and the writes of administrators: single updates of the row that `Billing` models.
- The other timers (glance mails, staleness, nightly repair): state in memory, one reader and writer.
- Daylight saving in the ladder; several students per user in ingest, except that `OneStudent` says who owns only one; several users in a digest.
  Users share no document of the digest collections, and one user's flush only delays another's.
- A hung command or handler; MongoDB failovers that undo an acknowledged write (the code uses
  the default write concern and does not handle it).
- Mail and SMS services, the app store, portals: they accept or refuse, deliver or do not.

## 7. Plan

Done: queue and worker, fan-out, ladder, ingest, digests, billing events, sessions, device tokens,
deletion, the three clients, email transfer, contacts; every safety property that a run checks is
proved. Left, in this order:

1. Refunds in `Billing` (a refund by the store and one by an administrator for the same payment),
   and the maximum of a coupon, which is read and then counted.
2. An abstract specification of the run ledger (an entry per run, written in one step) that
   `ClientRun` implements as long as no read fails.
3. The recipients of a digest and of an alert as one module, so that a change of preference between
   the two is seen from both.
4. Source invites: one small module.
