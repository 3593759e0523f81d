# Verification of the Vantage Movers server

TLA+ models of the concurrent core of the Vantage Movers server (`src/`), the
TLC configurations that check them on small instances, and TLAPS proofs of the
main results for every value of the constants. The code is the reference: every
definition that models code is tied to its lines in `PROJECT.json` (`map`).

The server is a Vercel deployment of short-lived function invocations over one
MongoDB. Nothing is kept in memory between two invocations, and an invocation
may be killed at any await. What the program must get right is therefore what
happens *between* documents: who may work on a row, what a retry repeats, and
what survives when an external service (Google Sheets, Twilio, the Granot CRM)
did something the server did not hear of.

## 1. Inventory

| Component | State it keeps | Operations | Interacts with |
|---|---|---|---|
| Sheet sync outbox and drainer (`services/sheetSync`) | `SheetSyncJob` rows, `SheetSyncLease`, `SheetSyncRun`, `sheet_sync` metadata on documents, writer fence, quota ledger | upsert or tombstone jobs in the transaction of the domain write; drain: claim, plan, write, persist metadata, settle; admin retry | every service that writes leads, bookings or cancellations; Google Sheets |
| Lead messaging (`services/leadMessaging`) | `LeadMessage` rows: status, attempt, lease, provider status, SID | record the intent, dispatch inline or from a queue or cron, retry, status callback, operator retry | lead creation, Twilio |
| Granot lifecycle (`services/granotLifecycle`) | observation receipts, decisions, record links, booking and release cases, temporal winner and acceptance evidence on leads | capture, claim, process, decide, synchronise a lead, settle, requeue | domain commands, leads, bookings, the Granot collector |
| Domain commands (`services/domainCommands`) | `DomainCommand` rows: idempotency key, checksum, result; entity changes | execute once per key, replay, post-commit work | leads, bookings, Granot lifecycle, timeline |
| Durable work leases (`services/durableWork`) | lease documents with owner, epoch, expiry | acquire, heartbeat, assert, release | sheet sync, collectors, reporting |
| Leads (`services/leads`) | form and call leads | ingest, correct, delete, duplicate detection | outbox, messaging, Granot lifecycle |
| Bookings, cancellations, employee bookings | booked and cancelled leads | upsert, correct through the lead, delete, cancel | outbox, Granot cases |
| Sheet ingest (`bestRelocationSheetIngest`, `ingestion`) | row fingerprints, plans, health | read a partner's sheet, plan, adopt or update leads | leads, Google Sheets |
| RingCentral (`services/ringcentral`) | sync cursor and its lease, processed-call ledger, call leads, subscriptions | cron scan of the Call Log, webhook lookup of one call, ingestion, final results | leads, domain commands, number activity |
| Granot HTTP collector, CSV and automation | runs, retention | scrape, parse, submit observations | Granot lifecycle |
| Reporting (`services/reporting`) | runs, deliveries, manifests, destinations, snapshots | confirm, claim, stage a tab, write, verify, promote, recover, clean up | Google Sheets, durable leases |
| Sales outreach, sales intelligence | enrolments, contact attempts, projections | evaluate rules, rebuild | leads, RingCentral |
| Number activity, job number timeline, daily operations, analytics, search | projections and read models | project, rebuild, query | events of the other components |
| Operations registry, catalogue, reference data | sources, numbers, companies, rates | versioned edits, CRUD | ingestion |
| Admin services | users, approvals | retry jobs, retry messages, requeue receipts | the queues above |
| Google clients, HTTP API, auth, models, configuration, scripts | none of its own | I/O, validation, schemas, cron table (`vercel.json`) | all |

### What is hard, and what makes each part correct

*Sheet sync.* A domain write commits its outbox row in its own transaction while
a drain is in the middle of planning or sending the previous version of the same
document. Runs are killed, lose their lease, or get no answer for a request that
Google executes. Correct means: no live run forgets a job it claimed; once no
job is outstanding for a document its row shows the newest version; every job is
eventually settled; a deleted document leaves no row behind.

*Lead messaging.* Twilio cannot be asked whether it took a text. Dispatchers die
between the request and the write of its outcome, callbacks come late, twice or
before the SID is stored, operators retry. Correct means: a lead is texted at
most once per message; the row never says something about the text that is not
true or that it later takes back; a final provider status stays; no message is
left in flight.

*Granot lifecycle.* Two invocations can process one receipt because the lease is
checked when the receipt is settled and not when decisions or leads are written.
Observations are processed out of temporal order, leads arrive and change
between the reads of one processing. Correct means: at most one decision per
attempt and a match clock that agrees with them; a final decision is never
touched again; the temporal winner of a lead only moves forward; acceptance
evidence is that of the present winner; every receipt settles.

*Domain commands.* A command that committed must replay its result, also when
its post-commit work was lost. *Leases.* An owner whose lease lapsed must not be
able to act on it. *Leads, bookings, cancellations, ingest.* Repeated and
concurrent submissions converge on one document, with the outbox in step.
*Reporting.* Google knows no lease: a worker that lost its own can still rename
tabs, and the rename and the transaction that records it are two steps. Correct
means: whoever opens the workbook sees one complete report; run and destination
move together; a batch whose acknowledgement was lost is neither left out nor
taken for written; the cleanup never deletes a tab that readers use; every run
ends.

*RingCentral.* The record of a finished call appears in the Call Log some time
after the call, so a scan by start time can be too early for it; two transports
and a run that lost its lease ingest the same call at once; the result of a call
is rewritten. An invocation takes its date before it asks for the lease. Correct
means: completed windows join and pass no call, a call whose telephony session is
known has one lead, a caller is paid for once at least, results only get newer and
catch up.

*Registry.* Versioned edits do not overwrite each other. *Collectors, outreach.*
One run at a time, resumable. The projections and read models are functions of
the rest and are correct when rebuilding them changes nothing.

The full list of hazards, each at its line and with the properties that would
catch it, is in `PROJECT.json` (`hazards`).

## 2. Modules

| Module | Models | Composes / extends |
|---|---|---|
| `SheetSync` | outbox, drainer, lease, fence and admin retry, with the form-lead and booking writes that feed them, and Google as an external party | implements `SheetMirror` |
| `SheetMirror` | abstract: a change owes its documents a row, rows are written forward, a debt is struck off when it is paid | – |
| `LeadText` | abstract: what a message row promises about the text | – |
| `LeadMessaging` | intents, dispatchers, drains, callbacks, operator retries, with Twilio as an external party | implements `LeadText` |
| `GranotReceipts` | receipts, claims, processor, synchronisation of one lead, acceptance evidence | implements `ObservationJournal` |
| `ObservationJournal` | abstract: how an observation is decided, who wins the lead, whose evidence it carries | – |
| `ReportPublication` | abstract: a run ends once, and the destination moves exactly when one completes | – |
| `ReportingDelivery` | runs, deliveries, workers, the workbook's tabs, the cleanup janitor | implements `ReportPublication` |
| `CallLeads` | the cron's scan, the webhook, ingestion and final results, with the Call Log as an external party | implements `CallLedger` |
| `CallLedger` | abstract: what is promised about the lead of a call and the result on it | – |
| `MC…` | small instances: constants and symmetry | the module they name |
| `…Proofs` | theorems and their proofs | the module they name, TLAPS |

### SheetSync

`doc` are the domain documents with their version and the row location the
server believes in; `job` the outbox rows; `row` and `stray` what is really in
the sheet; `wire` the requests sent to Google that have not taken effect or have
not been answered; `lease`, `fence` the lease and the writer fence; `pc`, `todo`,
`work`, `plan`, `ok` the local state of a drain run.

| Code | Action |
|---|---|
| `createFormLead`, booking upsert, corrections, deletions with their `enqueue…` calls | `WriteLead`, `WriteBooking`, `CorrectLead`, `DeleteLead`, `DeleteBooking` |
| `runSheetSyncDrain`: lease and run creation, `claimDueJobs` | `Start`, `Claim` |
| the loop over claims: held-checks, `planJob`, deferral | `Check`, `PlanJob`, `PlanFails`, `OutOfTime` |
| `applyDeliveryRequests`: skip after failure, quota ledger, request, answer, failure, ambiguity | `BeginWrite`, `SkipRequest`, `QuotaDenied`, `Send`, `Land`, `Answer`, `Reject`, `Abandon`, `Unconfirmed` |
| `persistDocSheetSync`, `settleJob`, the finally block, `releaseClaimedJobsForRun` | `Persist`, `SettleJob`, `Finish`, `Abort` |
| kills, lease expiry, a run frozen past its lease, topology fence | `Crash`, `ExpireLost`, `Stall`, `RaiseFence`, `LowerFence` |
| admin retry | `AdminRetry` |

A document is represented by its version. Row contents are the version they were
rendered from, and whether a chain job writes the lead row or the booking row is
kept apart because the retry hints are about exactly that. Row numbers in a tab,
append pre-reads and the identity checks of positional deletes are not modelled
(see section 7).

`SheetMirror` forgets jobs, runs, leases and requests. Under the mapping `Mirror` a
document is owed a row as long as a job that covers it may still run, or may be
put back by an operator; `MirrorsDocuments` says that every step of `SheetSync` is
a change that takes on the debt in the step that commits it, a write of one row
that goes forward, a stray write by a request that outlived its run, or a debt
struck off because the row shows the document as it is.

### LeadMessaging

`row` are the documents; `pc`, `at` and `left` what each dispatcher does, for
which message and attempt, and how many candidates its drain may still take;
`calls`, `texts` and `news` are Twilio's side: requests under way, texts it
accepted, callbacks it has issued. The actions follow the
service: the intent, the drain with its sweep of expired `sending` rows
(`StartDrain`), `Claim`, the request and its answer or its absence, the write of
the outcome (conditional on the claim), the retry schedule, callbacks, and
`RequestLeadMessageRetry`. `LeadText` is a state machine with four ideas –
undecided, accepted, concluded (sent, not sent, unknown), reopened – and
`KeepsItsPromise` states that `LeadMessaging` implements it under the mapping
`Verdict`: a conclusion is true when it is made, and only an operator reopens
one, never when the text was sent.

### GranotReceipts

`receipt` is the processing part of a receipt; `window` whether its 24 hours are
still open; `decision[r][n]` the decision stored under the unique key
(observation, attempt); `command` the stored `synchronizeLead` command of the
observation's idempotency key; `lead` one lead with its temporal winner, revision
and acceptance proof; `work` the invocations of the drainer.

| Code | Action |
|---|---|
| `capture.ts`, passing time, other writers of the lead | `Capture`, `ComesDue`, `WindowCloses`, `LeadArrives`, `EditLead` |
| `drainer.ts` claim, start of processing, heartbeat, expiry | `Claim`, `Start`, `KeepLease`, `ExpireOrphan`, `Stall` |
| `processor.ts`: one action per read of the database | `LoadReceipt`, `FindDecision`, `PrepareDecision`, `ReadRevision` |
| `synchronizeLeadFromGranot`, `persistDecision`, temporal compare-and-swap, replanning | `SynchronizeLead`, `PersistDecision`, `Replan`, `PersistReplan` |
| settling: completion with certification, pending match, technical failure, lost lease | `Complete`, `FinalizePendingMatch`, `FinalizeTechnicalFailure`, `LeaseLost` |
| failing dependencies, commits whose answer is lost, kills | `TechnicalError`, `Crash` |
| `operations.ts` requeue | `RequeueDeadLetterReceipt` |

Live mode with every gate open is modelled. The observations concern one lead,
which they match once it exists. The fields that observations speak of are an
abstract set; which of them differ is what the plan depends on.

`ObservationJournal` knows the decisions, the lead and no workers. Under the
mapping `Journal`, `KeepsTheJournal` says what the commits of any number of
invocations add up to: an observation is decided attempt by attempt, once each,
until one concludes; it writes the lead once, in the commit that decides it
`applied` and makes it the winner; evidence belongs to the winner's latest
decision and only the next winner withdraws it.

### ReportingDelivery

`run`, `delivery`, `manifest` and `dest` are the documents; `tabs` is the
workbook, where the index of a tab is its immutable sheet ID; `pc` and `job` are
what each worker does and remembers; `janitor` is the tab that the cleanup has
listed and not yet deleted.

| Code | Action |
|---|---|
| `claimNextQueuedReportingRun`, delivery fence, cancellation request | `Claim`, `Bind`, `RequestCancel` |
| `cancelIfRequested`, `failRun`, cleanup request | `Cancel`, `CancelDelivery`, `EnqueueCleanup`, `GiveUp`, `FailDelivery` |
| destination, registry and capacity checks, manifest | `Start`, `Refuse`, `LoadManifest`, `PersistManifest` |
| `createOrResumeDeliveryArtifact` | `ResumeArtifact`, `FindArtifact`, `MissArtifact`, `AddTab`, `MarkTab`, `RecordArtifact` |
| header, pages, batches, acknowledgement, checkpoint, verification | `Begin`, `WriteHeader`, `ReadPage`, `SourceChanged`, `NextBatch`, `Put`, `Acknowledge`, `RecordChecksum`, `Checkpoint`, `EndWriting`, `Verify` |
| promotion: plan, reservation, rename, confirmation, commit | `Inspect`, `Reserve`, `Adopt`, `Check`, `Rename`, `Confirm`, `MarkApplied`, `RecordRename`, `Commit` |
| ambiguous promotion and `recoverRenameBatchSubmitted` | `RecordAmbiguous`, `Recover`, `CaughtFailure`, `CaughtInRecovery` |
| lost leases, killed and stalled workers | `LeaseLost`, `Abandon`, `Stall` |
| `cleanupDeliveryArtifacts` | `JanitorList`, `JanitorDelete` |

A report is a number of pages with a number of batches each, a tab the set of
rows that were written to it. Figures, formats and the query are left out.

### CallLeads

`call` is the Call Log; `lead` and `rev` are the leads and their revisions, by call
and by the invocation that made them; `ledger` says whose lead the processed call's
row names; `cursor` and `lease` are the sync state, `work` what each invocation does.
`origin` and `reached` are history: where the first completed window began, before
which the sync promises nothing, and how far the completed windows went.

| Code | Action |
|---|---|
| RingCentral and the clock | `Appears`, `IsRewritten`, `Tick` |
| `runRingCentralCallLogSync`: date, lease and window, pages, records, success | `Enter`, `Acquire`, `Contended`, `Fetch`, `TakeRecord`, `Finish` |
| lost lease, recorded errors, kills, slow claims and pages | `LeaseLost`, `Fail`, `Crash`, `Stall`, `ExpireLost` |
| `qualifyWebhookCallFromCallLog` | `ReadRecord` |
| `ingestRingCentralQualifiedCall`: duplicates, transaction, duplicate key | `Classify`, `CreateLead`, `Raced` |
| final result: plan, command, revision conflict and its retries | `ReadLead`, `PatchLead`, `RetryPatch`, `GiveUpPatch` |
| `correctCallLead`, `beginCallLeadRemoval` | `EditLead`, `RemoveLead` |

An invocation takes its date on entry (`Enter`), and claims with it later, so that
the end of its window, and the date after which it holds that a lease is over, may
be old when it claims. A call whose record names its telephony session is in the
set `Identified`: the leads' unique index is on the session alone (`Taken`), and
webhooks ask for sessions only. Of another call two invocations that found no
ledger row both make a lead, and the second one's upsert makes the ledger name its
own. An invocation's slot stands for the id of the lead it makes, which is sound
because it makes one lead of a call at most: it finds the ledger row afterwards
(`NothingMadeYet`, proved). A removal leaves the ledger row, which names nothing then.
An edit stands for a correction that only matters through the revision it leaves;
corrections of `duplicate` are left out (section 7).

A webhook reads the log and dates what it read in one step; the code takes the
date (`call-log-vetting.ts:152`) when the response is there, a moment later.

`CallLedger` forgets the cursor, leases and invocations. Under the mapping `Ledger`,
`KeepsTheLedger` says what any number of runs and webhooks add up to: the step that
makes a lead decides whether it is a duplicate, and a duplicate follows a lead of
an earlier call that was paid; the result on a lead is one that the Call Log has
shown for that very call, and only one dated later replaces it; a call with a
session has one lead at a time; a lead that was removed stays removed.

## 3. Runs

States are distinct states; times are those of two TLC workers.

| Run | Instance | Shows |
|---|---|---|
| `sheet_safety` | a lead and a booking attached to it, 2 runs, 3 jobs, 3 versions, 2 attempts, 1 disruption of any kind, crashes; 1.3M states | `TypeOK`, `NoProcessingLeak`, `SettledRowsAreCurrent` and `RowsMoveForward` with chain jobs, tombstones and partial failure hints; `MirrorsDocuments`, the refinement of `SheetMirror` |
| `sheet_progress` | the same with 2 versions, fairness and kills; 250k states | `EveryJobIsSettled` |
| `sheet_orphan` | one booking | `DeletedBookingsHaveNoRow` is violated (finding) |
| `lead_messages` | 1 message, 3 dispatchers, 2 attempts, 1 manual retry, 3 faults, drain limit 2, 4 provider statuses, fairness; 380k states | `TypeOK`, `AtMostOneText`, `KeepsItsPromise`, `FinalStatusesStay`, `NothingStaysInFlight` |
| `receipts_safety` | 2 conflicting observations, 2 invocations, 3 match attempts, 2 claims to the dead letter, 2 tries, 1 fault, 1 edit, 1 requeue; 3.8M states | `TypeOK`, `MatchAttemptsArePending`, `LatestIsTheLastDecision`, `ProofsAreGenuine`, `WinnerMovesForward`, `DecidedForGood`; `KeepsTheJournal`, the refinement of `ObservationJournal` |
| `receipts_progress` | fairness, 1 observation, 2 invocations, 2 faults, 1 edit; 168k states | `EveryReceiptSettles` |
| `receipts_poison`, `receipts_lost`, `receipts_race` | smallest instance that shows it | a documented statement is violated (findings) |
| `reporting_delivery` | 2 runs for one tab, a full page and an empty report, 2 workers, 1 cancellation, 1 lost worker, 1 swallowed Google failure, fairness; 742k states | `TypeOK`, `ReadersSeeAWholeReport`, `OnlyPromotedReportsShow`, `ResumedWritesAreComplete`, `JanitorSparesPublishedTabs`, `PublishesOnce`, `EveryRunEnds` |
| `reporting_preserve` | 1 run, 1 worker, 1 failed read | `FailedReplacementPreservesTheOldTab` is violated (finding) |
| `call_leads` | 2 calls of one caller, the first with a session, the second without, 2 cron runs, 1 webhook, 2 moments, 1 retry, a budget for one failure, kill, stall, rewritten result or removal, or for two edits, fairness; 606k states | `TypeOK`, `NoCallIsPassed`, `OneLeadPerCall`, `DuplicatesFollowAPaidLead`, `WindowsJoin`, `ResultsMoveForward`; `KeepsTheLedger`, the refinement of `CallLedger`; `EveryCallBecomesALead`, `ResultsCatchUp` |

**Why the bounds are enough.** Each safety instance is the smallest in which the
hazards it is for can occur together. Two runs (or invocations) are what a lost
lease needs: one that lost it and one that holds it; a third dispatcher of a
message adds the inline dispatch that raced a cron and a queue wake-up. Three
outbox jobs of a key are the aborted one, the newer pending one and a tombstone
or the one that a further write adds; three versions of a document are one that
is in the sheet, one that is being written and one that comes in between. Two
attempts reach
the last one, where retry turns into failure. Three match attempts have a first,
a middle and a last one. Two observations that disagree on every field have an
older and a newer one; `BornWinners` lets the lead have been written before or
not. Disruptions and faults are drawn from one budget, so that every kind is
met in every position. Two reports of one destination are what a stale rename
needs, one with a page and one without, because an empty report takes another way
through the code; a workbook of a published tab, a staging tab of each run and a
recovery tab has every title in conflict. Two calls of one caller, the later one
starting when the earlier one's window closes, are the least in which a call is a
duplicate, lies at the edge of a window or is reached only by the overlap; a
clock with two moments has a record that appears in the moment of its call and
one that appears the overlap later, and the first window already differs from the
second. A fetch of `call_leads` may return any order of calls that began together. Its limit
of two records cuts no window of two calls off; with a limit of one, which does, the
run passes as well (578k states), and `CursorPassesNoCall` (section 5) is proved for every limit.
Another command edits a lead only between the
plan and the write of a final result; elsewhere a new revision is not seen by any
step. `MaxVersion`, `NumJobs`, `MaxDisruptions`, `MaxFaults`, `MaxManual`,
`MaxEdits`, `MaxRequeues`, `MaxCancels`, `MaxLosses`, `MaxErrors`, `MaxTime` and
`Budget` bound the environment only (of `Budget` a fault costs two, an edit one); `MaxAttempts`, `MaxTechnical`, `Offsets`, `MaxTries`,
`DrainLimit`, `Pages`, `PageBatches`, `PageLimit`, `Overlap`, `Rolling` and
`Lookback` are the code's own constants, or sizes of its data, made small.

Deadlock checking is off in the runs in which a bounded environment really
comes to rest.

**Every property has a mutant** (`PROJECT.json`, `mutants`): a plausible slip in
a mapped definition, such as a dropped ownership test, a settlement that ignores
newer versions or a comparison without an operand, which TLC must find to violate
the property under the same configuration.

## 4. Fairness

*Sheet sync*: weak fairness of a run's own steps (a live invocation runs on), of
a sent request taking effect, of an orphaned lease's expiry (a date), and of the
fence being lowered. New drains come from the cron (`*/5`). Runs may be killed;
the job that a killed run had claimed is exempt from `EveryJobIsSettled`, because
the code does nothing about it (section 6).

*Lead messaging*: weak fairness of starting a drain and of dispatching (cron), of
a lease date and a retry date passing. A request is given up after the Twilio
client's ten seconds. Nothing is assumed of Twilio itself, nor of callbacks.

*Granot receipts*: weak fairness of dates passing and of a live invocation's own
steps; strong fairness of a receipt being claimed by some invocation, because
the cron (`vercel.json:126-129`, every five minutes, an invocation of its own)
finds a due receipt again each time it becomes claimable. Faults are finite.

*Reporting*: weak fairness of a worker's own steps (the platform runs an
invocation until it returns or dies) and of a free open run being claimed (the
heartbeat cron, every five minutes). Neither cancellations nor the janitor are
owed anything. `EveryRunEnds` is about a destination that stays acceptable: a refusal
as `DESTINATION_CHANGED` is retryable (`reportingRunRepository.ts:25-28`), so a run
whose destination goes on being refused may be claimed again and again; that is
outside the model. A changed source document ends the run (`SourceChanged`), where
the stream meets it or where the manifest is validated on a resume or a recovery.

*Call leads*: weak fairness of the clock, of a cron run's own steps including its
start (`vercel.json:79`, every 30 minutes) and of the expiry of a dead run's lease
(a date). Nothing is assumed of webhooks: what they bring early, the cron brings
at last.

## 5. Proofs

TLAPS checks the theorems below for every value of the constants that satisfies
the named assumption of the module (`SheetSyncAssumption`,
`LeadMessagingAssumption`, `GranotReceiptsAssumption`, `ReportingAssumption`,
`CallLeadsAssumption`: bounds are natural numbers, the sets are disjoint where
the code keeps them apart, markers such as `None` are no members of the sets they
stand outside of). TLC evaluates each assumption in the runs of that module.

**SheetSync** (`SheetSyncProofs`). `TypeCorrect` proves `TypeOK`, which bounds
the charged attempts, and `ClaimsAreAccountedFor` proves `NoProcessingLeak`: a
`processing` job is on the list of the live run it names, or its run is gone.
Neither is inductive. `IInv` adds that a job that is claimed has attempts left
(`Unexhausted`), that a job's key names documents of its kind (`JobsNamed`), and
that a run holds a list only at the labels at which the code holds one
(`ListsMatchLabel`). The first is what keeps `attempts + 1` in range when a claim
is charged, the last what a release at the end of a run relies on.

`SheetSyncRowsProofs` builds on it. `SettledRowsStayCurrent` proves
`SettledRowsAreCurrent`: a document with no job that is still to run has a row that
shows its last version, or none if it is deleted. The one exception is a booking
that was deleted before its row was located, and that is exactly finding 1. Its
invariant `RowsInv` has five
parts:

- `RowsKept`: a row is current, or some job is pledged to write it again: it
  waits, or has failed, or its run is gone or will give it back, or has a write
  for the row that failed, is deferred or is yet to be sent and up to date.
- `StaleCovered`: a write that the owner of the lease has planned and that an edit
  has overtaken is followed by such a job. This is where the outbox row in the
  transaction of the domain write is needed: the edit finds the job `processing`
  and inserts a second one.
- `InFlight`: a request that a run awaits carries the versions of the writes it
  was rendered from, is the run's only one, goes after all upserts if it deletes,
  and once it has landed the row shows it while the run owns the lease. Requests
  of lost runs make a row `stray`, of which the property does not speak.
- `DeletedStay`: tombstones and planned deletions are those of deleted documents,
  a deleted document does not come back, and the tombstone of a booking whose row
  was located when it was deleted carries the location. The last is what makes
  deleted bookings provable: the job's own copy counts, not the document's.
- `PlansMatchLabel`: nothing is planned before the planning, nothing unsent is
  left after the last request.

Each operation on a document is a lemma that the jobs it enqueues serve every row
it changes (`RewrittenKeepsRows`, with the counts of free outbox slots from
`FiniteSetTheorems`), each step of a run one that pledges are kept or fulfilled.

`SheetMirrorProofs` proves `RowsNeverMoveBack` (`RowsMoveForward`) and `SheetIsAMirror`
(`MirrorsDocuments`). A row could go back if the owner of the lease sent what it
had rendered before another run wrote something newer. So `RowsOrdered` says two
things: no row, request or plan shows a version its document has not had yet
(`NothingFromTheFuture`), and what the lease's owner still plans to write is no
older than the row, than any request on its way to it, or than what any other run
that is past its planning could still send there (`OwnerIsNewest`). It holds
because a run reads the documents after it got the lease, and whoever lost the
lease read them before; requests that no longer belong to the owner make the row
`stray` when they land. For the refinement, the steps that enqueue map to
`Change`, a landing to `Write` or `Stray`, and every other step to `Settle` or a
stutter; the debt that `Settle` strikes off is paid by `SettledRowsAreCurrent` in the
state after the step.

**LeadMessaging** (`LeadMessagingProofs`). The inductive invariant says that
nothing is under way for a message that may be claimed (`Quiet`), that whatever
is under way belongs to the latest attempt (`Current`), that one dispatcher works
on a message (`Alone`), that a SID is stored only for an accepted text
(`SidsAreReal`) and that attempts stay within the retries granted (`Budgeted`).
From it follow `TextedAtMostOnce`, `FinalStatusesStayFinal` and `PromiseKept`:
the initial states of `LeadMessaging` map to initial states of `LeadText` under
`Verdict`, and every step to a step or a stutter (`StartDrain` of an expired row
to `GiveUp`, an acceptance to `Accept`, an operator's retry to `Reopen`, written
outcomes to `Conclude`).

**GranotReceipts** (`GranotReceiptsProofs`). All seven safety properties of
`receipts_safety` are theorems: `TypeCorrect`, `MatchClockCountsDecisions`,
`LatestIsLast`, `EvidenceIsGenuine`, `WinnersAdvance`, `DecidedReceiptsStay` and
`JournalIsKept`, the refinement of `ObservationJournal`. The
processor is not fenced, so the argument cannot be that only the claim's owner
writes. It is about attempts:

1. A processing that holds the claim works on attempt `match + 1`; one that lost
   it works on that or an earlier attempt (`Timely`), since only the holder moves
   the match clock and a worker that holds no claim cannot get one without
   starting over.
2. Attempts up to `match` are decided `pending_match`, attempts above `match + 1`
   are undecided (`MatchAttemptsArePending`). A processing that finds its attempt
   undecided, owner or not, therefore decides attempt `match + 1`
   (`FreshIsPresent`), and `latest` becomes the highest decided attempt.
3. What a worker is about to settle by is the stored decision of its attempt
   (`Informed`), so settling writes what is recorded, whoever recorded it.
4. A certified or finally decided receipt has decided its attempt `match + 1`,
   so nobody has an attempt left to decide for it (`CertifiedIsDecided`,
   `NothingLeftToDecide`) and, being completed, it passes no fence.
5. A lead that is not there has no winner and no evidence (`Unborn`), and only a
   plan made for a lead that is there sets out to write one. Without this a stored
   command could name a winner for a lead that does not exist.
6. A plan other than "no match" was made for a lead that was there, and a lead
   stays (`Seen`); a worker that settles by a stored decision finds that decision
   still the latest of its observation. So a commit of `SynchronizeLead` is a `Write`
   of the journal, `PersistDecision` and `PersistReplan` enter the one attempt that is
   open, and `Complete` certifies. A lemma on the way, `EvidenceIsKept`, shows that the
   withdrawal of evidence in `pointReceiptToDecision` never takes effect: when it
   runs, the lead carries no evidence of an earlier decision of that observation.
   Evidence ends only with a new winner.

`AppliedOnWonLeadsIsWritten` says where finding 3 ends. `AppliedMeansWritten` is not an
invariant, and `receipts_lost` shows it. If the lead has a temporal winner when it
appears, it is one: a lead that was won stays won (`LeadsStayWon`), so a compare-and-swap
on it fails only against a winner that is no older than the observation
(`AfterMisses`), and the plan made after such a miss is never `applied`
(`OldPlansWriteNothing`). The theorem's hypothesis is on the constant
`BornWinners`; the finding needs its other value.

**ReportingDelivery** (`ReportingDeliveryProofs`). All safety properties of
`reporting_delivery` are theorems: `DocumentsAreTyped`, `OneWholeReportIsShown`,
`NoUnverifiedReportShows`, `NoRowIsLost`, `PublishedTabsAreNotDeleted` and
`DeliveryPublishes`, the refinement of `ReportPublication`. The invariant has three
layers. `Types` and `Epochs` bound every remembered epoch by the run's, so that at
most one worker holds a lease and a fence is never that of the future. The
documents and tabs agree with each other (`World`): the tabs that the destination
names or named are those of completed runs (`LineageOK`), one tab is published and
a tab is renamed away or deleted only when it may be (`TitlesOK`), and what a
delivery records of its tab is true of it, the acknowledged batches included
(`DeliveriesOK`). And each worker, holding the lease or not, remembers something
that is still true (`RemembersRight`), is where the run's status says as long as
the delivery is fenced for it (`InPhase`), and is within the report (`InRange`). A
step of one worker is shown to leave the others' part true once, from what it does
to epochs and statuses, and not once for each pair of actions. The commit needs no
more than its guard: it names the worker's own reservation, which nobody else can
have made.

**CallLeads** (`CallLeadsProofs`). All seven safety properties of `call_leads` are
theorems: `TypeCorrect`, `NoSecondLead`, `EveryCallerIsPaidFor`,
`CompletedWindowsJoin`, `ResultsNeverMoveBack`, `CursorPassesNoCall` and
`LedgerIsKept`, the refinement of `CallLedger`. The invariant says that nothing is
dated ahead of the clock and no record before its call (`Dated`), that the cursor is
nowhere ahead of what was reached (`CursorBehind`), that an invocation about to make a lead has made none
of that call (`NothingMadeYet`), that the duplicate it is about to write follows a lead
that was paid, because what was paid was paid whatever is removed later
(`RemembersRight`), and that the window of the lease's holder begins where the cursor
says (`HolderFollowsCursor`). It says nothing of where that window ends: the holder
may have claimed with an old date, and the cursor may move back.

What the sync has promised is therefore counted by `reached`, the latest end of a
completed window, and not by the cursor. `CursorPassesNoCall` shows that a cursor
which moved back does no harm: windows overlap, and a run whose window ends before
`reached` has nothing new to promise. It adds `RunsCover`: every call that a window
owes a lead is in what the run still has to do, or has its ledger row, or lies
beyond the pages: as many other calls as a run can fetch began no earlier and before
the window's end (`Crowded`). A fetch returns the newest records first, so a call that
is missing from it is behind a full load of others (`PagesReachBack`), and the log
only grows, so it stays behind them (`CrowdStays`). The theorem assumes nothing of
`PageLimit`: a window with more calls than `MAX_PAGES` pages hold is the only way in
which the cursor passes a call (section 6).

`NoSecondLead` is about the calls in `Identified`; for the others it is false, and
the model shows how (section 6). For `LedgerIsKept` the invariant is joined by
`ReadingsShown`: whatever a worker has listed or has in hand, to write it in the end,
is a result that the Call Log has shown for that call. It is preserved because the
log only moves on (`ShownStays`) and because a worker carries a result only together
with the call it was read for. `CreateLead` maps to `Enter`, with the duplicate that
`RemembersRight` says follows a paid lead, `PatchLead` to `Renew`, `RemoveLead` to
`Remove`, what the log does to `Show`, and all else to a stutter.

**Model-checked only.** All liveness (`EveryJobIsSettled`, `NothingStaysInFlight`,
`EveryReceiptSettles`, `EveryRunEnds`, `EveryCallBecomesALead`, `ResultsCatchUp`:
fairness and `ENABLED` are beyond the prover), and the refutations. No module
uses `RECURSIVE`.

## 6. Findings

Each is a run whose counterexample TLC finds; `PROJECT.json` (`findings`) quotes
the statement that is refuted.

1. `sheet_orphan`. A booking deleted between its first append and the write of its
   row location gets a tombstone without a target: its row stays in the sheet.
2. `receipts_poison`. When a decision is stored and its receipt is not settled, a
   change of the lead or the end of the 24 hours makes every retry reject the
   stored decision as an integrity error. The receipt is dead-lettered although
   it has a decision, and requeueing it does not help.
3. `receipts_lost`. On a lead without a temporal winner the compare-and-swap of an
   `already_current` observation never succeeds; planned again after an edit of
   the lead, it is recorded `applied` and the lead is never written. The theorem
   `AppliedOnWonLeadsIsWritten` shows that this needs a lead without a temporal winner.
4. `receipts_race`. The compare-and-swap looks at the temporal order and not at the
   lead's revision: a newer observation becomes the winner as `already_current`
   over values that an older one has just written.
5. `reporting_preserve`. A marker read that fails after Google has applied the
   rename is caught and fails the run as ambiguous. Its tab has replaced the old
   one, the destination still names the old one, and every later run is refused.
   With no failing read and one lost lease instead (`MaxErrors = 0`,
   `MaxLosses = 1`), TLC finds the same end: a worker that lost its lease after its
   check renames, and its successor is refused and fails the run.

Further behaviour that the models contain, without a run of its own. Most of it no
statement of the repository rules out; where one does, it is quoted:

- Nothing reclaims a `processing` outbox job whose run was killed; the index that
  the schema declares for such a sweep (`SheetSyncJob.ts:93`) has no user.
- Two workers of one report run that both build its manifest conflict, and the
  second, which may hold the lease, fails the run for good.
- A worker that dies between adding its staging tab and marking it leaves a tab
  that no search finds; each retry collides with its title and fails the run.
- A window with more records than `MAX_PAGES` pages loses the oldest of them
  silently, and the cursor moves past them. `CursorPassesNoCall` shows that no other
  schedule of runs, faults and kills loses a call.
- A call known by its Call Log id only can get two leads. The unique index is on the
  telephony session (`CallLead.ts:214-217`), the ledger row keyed by `callLogId` is
  upserted (`processed-calls-store.ts:222-229`), and without adoption nothing is read
  again inside the transaction. A run that classified such a call, lost its lease to
  a slow step and went on makes a second lead after its successor made the first.
  `ringcentral-call-lead-qualification.md:180` says: "Same physical call (webhook +
  cron, concurrent cron, or double webhook) has one terminal winner". In the model,
  `OneLeadPerCall` stated for all calls is violated after 16 states.
- A run takes its date on entry (`call-log-sync.service.ts:165-169`) and claims with it
  after the index check (`:203-211`). If another run claims and finishes in between,
  the first run's window ends earlier and its success sets `lastSyncTo` back, although
  no lease was lost. Nothing is missed by it (`CursorPassesNoCall`), and the windows
  still join (`CompletedWindowsJoin`), but `ringcentral-call-lead-qualification.md:79`
  speaks of an advance: "`lastSyncFrom`/`lastSyncTo` advance **only** in the fenced
  full-success update". In the model, `[][cursor' >= cursor]_vars` is violated after
  10 states, without a fault.
- After a removal, an invocation that had found no ledger row before it makes another
  lead of the same call.
- A scan dates the results it reads by the end of its window
  (`call-log-sync.service.ts:233,319`), which is before it reads them; a webhook dates
  its result by its own clock. A result that a webhook read earlier and writes
  later may therefore replace the one a scan read, until a later scan corrects it.
  `ResultsMoveForward` speaks of the recorded dates, `ResultsCatchUp` of the outcome.
- Of two calls of one caller that are ingested at once, or the later one first,
  both are paid for, as `ringcentral-call-lead-qualification.md:152` accepts.

## 7. What is not modelled, and the plan

*Left out of the modelled components.* Sheet sync: row numbers within a tab,
append pre-reads and their duplicate detection, the identity check before a
positional delete, the legacy inline mode, cancellation and call-lead jobs, run
metrics. Lead messaging: the capacity counters, quiet hours, templates and bodies.
Granot lifecycle: shadow mode and the gates, the creation of leads and record
links, booking and release cases, discrepancies. Domain commands appear only as
the stored `synchronizeLead` command, leases only as those of the sheet sync, the
report worker and the call-log sync. Reporting: snapshots and the mode without
delivery, report definitions, confirmation, schedules, queries and figures.
RingCentral: corrections
that change whether a call lead is a duplicate (`correctCallLead`, refused for a booked
lead), after which `DuplicatesFollowAPaidLead` need not hold, adoption of and
convergence with Granot leads with the scope lock they take, the shadow and dry-run modes,
subscriptions, the capture of webhooks, rate limits, analytics, and calls that do
not qualify.

*Components without a module* are listed in `PROJECT.json` with the reason: the
collector, sales outreach and intelligence, number activity and the timeline, the
operations registry, daily operations, sheet ingest, employee bookings, the Google
clients, analytics and search, cancellations, the catalogue, HTTP, auth and
configuration, scripts.

*What to take next*, in the order of what matters most:

1. `DomainCommands`: execution once per key, replay by checksum, and post-commit
   work that is lost by a kill after the commit; abstract specification: one
   effect per key.
2. `SheetWriter`: rows in a tab, appends whose answer is lost, pre-reads, deletes
   by position with their identity check, implementing the `row` of `SheetSync`.
3. `GranotReceipts` extended by lead creation, link races and booking cases, and
   composed with `CallLeads` where both create or adopt a lead of one call.
4. `LeadMessaging` extended by the capacity guard.
5. Optimistic concurrency in the operations registry, and repeated sheet ingest.
6. The theorems of the new modules.
