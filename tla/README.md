# Verification of Sijil

Sijil is a customs-clearance assistant: a FastAPI backend (`src/backend/app`), Celery
workers, PostgreSQL, Redis as broker and an object store. Users upload the documents of a
shipment; workers extract their fields, turn the invoice into classified line items,
compare the documents with each other, look up permits and rules of origin, and compile a
report. This directory holds TLA+ models of that backend, the TLC configurations that
check them and TLAPS proofs about them. Paths below are relative to `src/backend/app`
unless they start with `src/`.

## 1. The system

### How the parts interact

    HTTP handler --(commit, then send_task)--> Redis --> Celery worker --(commit, then send_task)--> ...
         |                                                    |
         +------------------ PostgreSQL ----------------------+          object store, LLM, OCR

* All shared state is in PostgreSQL at READ COMMITTED. A handler or a task is one session
  and one transaction (`config/database.py`, `workers/*_tasks.py`); there is no version
  column, no `SELECT ... FOR UPDATE`, no advisory lock. SQLAlchemy writes only the columns
  whose value differs from the one it loaded, and an UPDATE keeps its row lock until the
  transaction ends.
* Work is chained by messages sent after the commit. A message is acknowledged when a worker
  takes it (`workers/celery_app.py` leaves Celery's defaults), nothing is retried, and
  nothing scans the database for unfinished work. Redis redelivers a reserved message
  after its visibility timeout.
* Tasks: `process_document` -> `classify_shipment_from_document` (invoices) and
  `check_shipment_consistency`; classification -> `triage_shipment_permits` and
  `determine_shipment_origin`; `reclassify_line_item`, `generate_report` on request.

### Inventory

| Component | State | Operations | Hard behaviour | What makes it correct |
|---|---|---|---|---|
| Document pipeline (`services/document_service.py`, `services/document_extraction_service.py`, `workers/document_processing_tasks.py`) | `documents` rows, stored objects, broker messages | upload, correct, extract | transactions of several requests and workers on the same shipment row; locks kept through a language-model call; crash between commit and send; redelivery | no task outruns its row, nothing queued is lost, corrections stay, no lock cycle |
| Shipment status (`services/shipment_status_transitions.py`) | `shipments.status` | derived by upload, correct, extract | derived from what other transactions have committed so far | agrees with the documents once everything is over |
| Consistency (`services/consistency_service.py`, `services/discrepancy_service.py`) | `discrepancies` rows | check (re-derives all rows), acknowledge | two checks of one shipment; documents that settle meanwhile; acknowledging a row being rewritten | one row per rule, none stale, acknowledgments kept |
| Line items and classification (`services/line_item_extraction_service.py`, `services/classification_service.py`, `services/line_item_service.py`) | `line_items`, `classification_results` | materialize + classify (one transaction), reclassify, override | repeated and concurrent materialization, foreign keys, stale reads across language-model calls | classified when visible, overrides kept, follow the invoice, changes announced downstream |
| Permit triage (`services/permit_triage_service.py`) | `permit_requirements` | delete-then-insert per shipment | concurrent triages, codes that change while one runs | one row per (regulator, permit type), agrees with the effective codes |
| CEPA origin (`services/cepa_origin_service.py`, `services/origin_service.py`) | `origin_determinations` (with the user's value breakdown) | determine (upsert per line item), submit breakdown | placeholder rows against a unique key; a task that loaded no breakdown overwriting one | a submitted breakdown is kept; the determination is the rule applied to it |
| Reports (`services/report_service.py`, `services/report_generation_service.py`) | `reports` rows, PDF objects | request, generate, download | lost or repeated task; failure after the PDF is stored | READY means the PDF exists; GENERATING ends |
| Status stream (`api/v1/shipments.py`) | one poller per client, with a database connection | poll until a status to stop at or a timeout | a client that has gone, a shipment that never changes | no stream outlives its time limit |
| Billing (`services/billing_service.py`) | `subscriptions` | webhooks (a checkout changes no state) | repeated, reordered and overlapping webhooks, concurrent first inserts, the commit after the answer | a row mixes events only when webhooks overlap, and is the newest of a provider that delivers in order |
| Authentication, tenancy (`services/auth_service.py`, `middleware/auth.py`, every `*_scoped` query) | `users`, `companies`, tokens | register, login, refresh, scope | two registrations between check and insert; the answer before the commit | companies whole and unique, answers true; every row reached belongs to an accessible company |
| Tariff knowledge base (`services/tariff_seed_service.py`, `repositories/tariff_kb_repository.py`) | `tariff_headings` | seed (a script run once by hand), vector search | | |
| Clients of LLM, OCR, embeddings, object store (`integrations/`) | none | calls | failures and timeouts | failures are absorbed where the callers say so |
| Settings, error handling, rate limiting, schemas, migrations | none of their own | | | |
| Frontend (`src/frontend`), CI, Docker | client state | | | |

The full list, with what is modelled of each part, is `components` in `PROJECT.json`; the
hazards, each at its line with the properties aimed at it, are `hazards`.

## 2. The modules

| Module | Models | Checked by |
|---|---|---|
| `DocumentPipeline` | upload, correction and extraction of one shipment's documents, the shipment status, row locks, messages, crashes, redelivery | `MCDocumentPipeline` |
| `DocumentLifecycle` | what a client may assume of each document; abstract specification | refined by `DocumentPipeline` (`LifecycleSpec`) |
| `DocumentPipelineProofs` | types, locks and stored rows of `DocumentPipeline` | TLAPS |
| `PipelineHistory` | `DocumentPipeline` with history variables that name the overlaps two of its promises except | `MCPipelineHistory` |
| `PipelineStatusProofs` | no work is lost, the status at rest, `DOCUMENTS_UPLOADING` is left; extends `DocumentPipelineProofs` and `PipelineHistory` | TLAPS |
| `DocumentLifecycleProofs` | the refinement of `DocumentLifecycle`, corrections; extends the same two | TLAPS |
| `Consistency` | the consistency check, its reconciliation with the stored rows, acknowledging | `MCConsistency` |
| `ConsistencyProofs` | theorems about `Consistency` | TLAPS |
| `LineItems` | materialization, classification, reclassification, override | `MCLineItems` |
| `LineItemsProofs` | theorems about `LineItems` | TLAPS |
| `EffectiveCodes` | the codes, messages and workers that triage and origin share | through the two below |
| `PermitTriage` | the triage task, the rules it matches | `MCShipmentAnalysis` |
| `CepaOrigin` | the determination task, `_evaluate`, the breakdown request | `MCShipmentAnalysis` |
| `ShipmentAnalysis` | composes `PermitTriage` and `CepaOrigin` on the same workers | `MCShipmentAnalysis` |
| `ShipmentAnalysisProofs` | theorems about `ShipmentAnalysis` and the two it composes | TLAPS |
| `Reports` | request, generation and download of reports | `MCReports` |
| `ReportsProofs` | theorems about `Reports` | TLAPS |
| `StatusStream` | the event stream, composed with `DocumentPipeline` | `MCStatusStream` |
| `Accounts` | registration, login, refresh | through `Billing` |
| `Billing` | the webhooks of registered companies, composed with `Accounts` | `MCBilling` |
| `BillingProofs` | theorems about `Accounts` and `Billing` | TLAPS |

A module whose name begins with `MC` holds only constants, symmetry and constraints for TLC. An operator
whose comment begins with "Mutant" is a plausible bug in the code; `mutants` in `PROJECT.json`
says which property finds it. Nothing else uses it.

### DocumentPipeline

A process (`Workers`, `Handlers`) carries out one call, split where another process can
run: at every `await` on the database and before every lock. `doc`, `shipment`, `objects`
are committed state; `row`, `view`, `write` what a transaction has read or is about to
write; `docLock`, `shipmentLock` the row locks it holds; `queue` the waiting messages;
`classifySent`, `checkSent` the messages passed on.

| Steps | Code |
|---|---|
| `UploadRead`, `UploadStore`, `UploadCommit`, `UploadEnqueue` | `DocumentService.upload_document`: shipment and status read, object stored, rows inserted and status written, commit, send |
| `CorrectRead`, `CorrectSiblings`, `CorrectShipment`, `CorrectCommit` | `DocumentService.correct_extracted_fields`: guard on NEEDS_MANUAL_REVIEW, merge, siblings read after the autoflush (which takes the row lock), status derived, commit |
| `Take`, `MarkProcessing`, `FlushProcessing`, `ExtractFields`, `RecomputeSiblings`, `RecomputeShipment`, `ExtractCommit` | `process_document_task` and `DocumentExtractionService.extract` |
| `SendClassify`, `SendCheck` | the sends after either commit |
| `Fail`, `Redeliver` | a process that crashes or raises: rollback, locks released, no further sends; a message delivered again |

`DocumentLifecycle` has three steps per document: uploaded, extracted once, corrected out of
review. `LifecycleSpec` maps a document's stage to its committed status.

### PipelineHistory

Two promises of the pipeline do fail when transactions at READ COMMITTED overlap. The history
variables record which overlap that takes, and no step depends on them, so that `HSpec` allows every
behaviour of `Spec`: any number of workers and requests, corrections and redelivery included.

| Variable | Recorded |
|---|---|
| `blind` | processes that have read the siblings' statuses (`list_by_shipment`) before another committed a settled document |
| `stale` | the last such commit was of a blind process |
| `outdated` | requests that have loaded their document before another commit to it |
| `repeated` | documents whose message the broker delivered once more |

`StatusAgreesUnlessBlind` and `CorrectionsKept` say that nothing but these overlaps breaks the promise:
not the number of workers, nor uploads, lock waits or overlaps that are over, nor, for the corrections,
a crash. (A status at rest is promised only without one: a lost task leaves its document queued.)

### Consistency

Documents settle as `DocumentPipeline` says (`Settle`, then `SendCheck`). A check reads the
documents (`CheckShipment`), then the rows (`LoadExisting`), then writes and commits
(`Reconcile`); inserted, updated and removed rows follow `_reconcile`. An update writes the
columns that differ from the loaded row (`WrittenOver`). Row ids are reused only when
nobody remembers them, as fresh uuids are. The similarity ratio of two names is the
constant relation `Similar`; summing quantities and parsing decimals are abstracted to the
value they give.

### LineItems

`Materialize` deletes and inserts in the worker's transaction, `ListLineItems` reads what
`classify_shipment` reads, `Write` commits line items and results together, `Send` chains
triage and origin. `announced` records the codes as they were when triage and origin were
last sent, so that "every change is followed by a message" can be stated without modelling
the consumers. `Verdicts` is what the language model may answer.

### EffectiveCodes, PermitTriage, CepaOrigin, ShipmentAnalysis

`codes` is what `LineItems` calls the effective codes; `ChangeCodes` is any commit of it
(classification, reclassification, override) with the two messages that `ChangesAnnounced`
says follow. Both tasks start with `list_by_shipment`, which is one SELECT for the line items
and one for their classifications (`ListLineItems`, `LoadCodes`).

| Steps | Code |
|---|---|
| `TakeTriage`, `TriageLoadCodes`, `DeletePermits`, `LockPermits`, `ReplacePermits` | `triage_shipment` and `replace_for_shipment`; the DELETE works on the rows committed when it starts (`doomed`) and waits for whoever deletes the same |
| `TakeOrigin`, `OriginLoadCodes`, `LoadDeterminations` | `determine_shipment`; the eager load fills the session (`loaded`), from which later SELECTs return old rows |
| `ReadBreakdown`, `FindForUpsert`, `Flush`, `CommitOrigin` | `_determine_line_item` and `upsert`: the row the breakdown is read from (`seen`) and the row written (`base`) come from two SELECTs |
| `DivisionFails`, `InsertCollides`, `Deadlocked` | a total of zero, the unique key, row locks in two orders: the task is rolled back and not repeated |
| `SubmitRead`, `SubmitCommit`, `SubmitCollides`, `SubmitSend` | `submit_value_breakdown`, with its placeholder row |

Codes are sequences of digit groups and separators, so that prefix matching and normalizing are
what the code does. `Evaluate` follows `_evaluate` on whole amounts.

### Reports

`version` counts the commits of each part that a report bundles; `Read` is one statement of
`generate`, in its order. `Commit` writes the columns that differ from the loaded row, which is
what makes a repeated task harmless or not. A fault in a statement aborts the transaction, so
that even `generate`'s FAILED is rolled back (`TaskDies`).

### StatusStream

The generator of `GET /shipments/{id}/events`: `Poll`, `TimeOut`, and `Disconnected` when the
loop notices that the client has gone. It runs beside the whole of `DocumentPipeline`.

### Accounts, Billing

A registration is split at its two checks, its two flushes, its commit and its answer. `get_db`
commits when the handler has returned; FastAPI runs that code before the answer up to 0.117 and
after it from 0.118 on, and `pyproject.toml` asks for `>=0.115`, so `commitsFirst` is chosen at
the start. A webhook reads the row (`Receive`), then writes it and commits (`CommitWebhook`, or
`AnswerEarly` before it). The provider is external; `delivery` says how it delivers, and it may report
on any registered company, as the code does not ask for a checkout. `outdated` and `mixed` are
history, as in `PipelineHistory`: webhooks that have read their row before another's commit to it, and
companies whose row such a webhook was the last to write.

## 3. What the runs show

| Run | Bounds | Result |
|---|---|---|
| `pipeline_faults` | 2 workers, 2 requests, 2 documents, 1 failure, 1 redelivery | `LockOrder`, `TaskFindsDocument`, `UploadingMeansQueued`, `NoWorkLost` hold |
| `pipeline_solo` | 1 worker (the `--pool=solo` deployment), 2 uploads at a time, 3 documents, 1 stream of 2 polls, fair | `StatusAgreesAtRest`, `StatusConverges`, `StreamEnds` hold |
| `pipeline_overlaps` | 2 workers, 2 requests, 2 documents, 2 fields, 1 failure of a worker, 1 redelivery | `StatusAgreesUnlessBlind`, `CorrectionsKept` hold |
| `pipeline_progress` | 2 workers, 2 requests, 2 documents, fair | `QueuedSettles`, `LifecycleSpec` hold |
| `pipeline_two_workers` | 2 workers, 1 request, no corrections | `StatusAgreesAtRest` fails: finding |
| `consistency` | 1 worker, and 2 with a failure, 3 documents, 3 settling commits, 1 user, fair | `OneRowPerFieldSolo`, `RowsAgreeAtRest`, `RowsConverge`, `BlockingMeansQuantitiesDifferSolo` (1 worker), `AcknowledgmentSurvives` hold |
| `items` | 1 worker, and 2, 1 invoice that settles twice, 4 answers of the language model, 1 failure, fair | `NoDuplicateLineItems`, `ReviewedUnlessSure` (1 worker), `LineItemsAreClassified`, `UpsertNeverCollides`, `ChangesAnnounced`, `OverrideSurvives`, `InvoiceIsClassified` hold |
| `items_correction` | 1 worker, 1 invoice, 1 correction | `LineItemsFollowInvoice` fails: finding |
| `analysis` | 1 worker with 3 requests and a failure, and 2 with 2 requests; 2 line items (symmetric), 2 codes, 2 breakdowns | `PermitsAgreeAtRest`, `DeterminationsAgreeAtRest`, `VerdictNeedsBreakdown`, `DeterminedBreakdownKept` hold (1 worker; type correctness for both) |
| `origin_breakdown` | as `analysis`, 1 worker | `BreakdownKept` fails: finding |
| `reports` | 1 worker and 2, 2 reports, 1 edit, 1 fault, 1 repeated message, fair | `ReadyIsCurrent`, `HistoryKept`, `ReportSettles` hold |
| `tenants` | 2 registrations, 3 events, 2 plans (one unknown), 2 webhooks at a time, 3 in all, 1 fault, every discipline of the provider, both orders of commit and answer | `AccountsAreWhole`, `AnswersAreTrue`, `RowIsOneEvent`, `SubscriptionFollowsWebhooks` hold |

Each passing run but `pipeline_solo`, `pipeline_overlaps` and `pipeline_progress` also checks
the `TypeOK` of its module. A run with "1 worker and 2" chooses the pool in `Init`; a property
that the code keeps only with one worker says so (`Solo`), and the others hold for both.

**Why the bounds are enough.** Every race in this code is between two transactions on one
row or one table, so two workers and two requests give every pair of kinds; a third document
lets the status depend on a document that neither process touches; one failure or
redelivery at any step is what "a crash at any point" means. Three settling commits give two
documents that disagree and a correction of one of them; a second correction adds only
repetition. Rows are bounded (`MaxCopies` rows of a field, `MaxItems` line items, `MaxBatches`
batches of permits) above what the other bounds let the code create; a step that would need one
more waits (the guards on `FreshIds` and `FreeBatches` name the bound). In `analysis` two line items are what a permit shared by both, a deadlock and a task
aborted half-way need; the two codes have one permit and two, the breakdowns lie at the threshold
and at a total of zero. Two polls stand for the 240 of a stream: only their number is left out.
One edit suffices for `reports` because every part is compared on its own. In `pipeline_overlaps`
neither document is an invoice: that only adds a message after the commits it is about. Three events
and three webhooks give a repetition, both orders and a mixed row (one event for the row, two that
overlap on it), two registrations every clash of license and address. Two constraints bound `tenants`:
the provider reports when both registrations are answered (`RegistrationsFirst`; they share no row with
webhooks), and the third event is of the company of the first two (`LongIfOneCompany`).
`CHECK_DEADLOCK FALSE` is set where users may stop sending requests and the system may rest.

**Fairness.** Liveness assumes weak fairness of each step of a worker and of the steps of a
request after it started: the processes run, the broker delivers, a lock holder finishes
(`FairSpec` in each module). Users are never forced to act and nothing is assumed of
failing processes; liveness is claimed for behaviours without failures, because a lost task is not
repeated. `StreamSpec` adds that the generator's loop goes round (the event loop runs it), also
when its client has gone. `Reports` asks for fairness of a request only once it has started.

### Findings

Each is a run with `expect: violation`; `findings` in `PROJECT.json` quotes the sentence.

1. *Status stuck in EXTRACTING* (`pipeline_two_workers`): two extractions finish together,
   each sees the other's document still queued.
2. *Corrections never reach the line items* (`items_correction`): the bulk DELETE hits the
   foreign key of the classifications and the task fails for good.
3. *A submitted breakdown is lost* (`origin_breakdown`): with one worker, a determination in
   progress overwrites the placeholder row that holds it with nulls.

The same models show, with the constants changed as stated, disagreements that are kept out
of the run list, which is limited to one run per question:

* two corrections of one document at once merge from the same row, and the second write drops
  the first (`pipeline_overlaps`, `CorrectionsKept` without `outdated`), where Section 31 of
  the design document promises optimistic locking with a version column; a redelivered message
  re-extracts a corrected document (the same without `repeated`);
* a correction and an extraction on one worker leave a wrong status (`pipeline_solo` with a field
  in `Keys`, or `StatusAgreesUnlessBlind` without `stale`); a slow second upload sends the shipment
  back to DOCUMENTS_UPLOADING, where it stays until its document is extracted
  (`UploadingMeansQueued` is what remains true);
* two checks of one shipment insert two rows for one field (`consistency` with `OneRowPerField`),
  against "one row per comparison rule per shipment, updated in place rather than duplicated"
  in `models/discrepancy.py`; an older check overwrites a newer one, and two checks mix the columns
  of a row (the other properties without `Solo`, five settling commits); with an invoice and a
  packing list whose quantity may be unreadable on either, four settling commits and no failure,
  the mixed columns are a blocking row with the text of a missing value
  (`BlockingMeansQuantitiesDiffer`), which `services/consistency_service.py:34-35` calls "a
  warning, never a blocking error";
* two workers materialize an invoice twice and mix the columns of a classification (`items`,
  `NoDuplicateLineItems` and `ReviewedUnlessSure` without `Solo`);
* two triages leave both sets of permits, or the older one, and two determinations an older verdict
  or a mixed row (`analysis`, without `Solo`);
* a total of zero keeps every line item of the shipment from being determined (`analysis`,
  `DeterminationsAgreeAtRest` without `ZeroTotal`);
* overlapping webhooks mix the plan of one with the period of another; repeated or reordered ones
  leave the row at an older event; and with FastAPI 0.118 an answer, its tokens included, may
  go out for a registration or a webhook whose commit then fails (`tenants`, `RowIsOneEvent`
  without `mixed`, `SubscriptionFollowsWebhooks` without `InOrder`, `AnswersAreTrue` without its
  second case).

Two observations on the stream that no document contradicts: without a document that needs review
a shipment never reaches a status to stop at, so that its stream always runs to the time limit; and
a stream opened while another document of a NEEDS_MANUAL_REVIEW shipment is being extracted ends at
its first poll.

## 4. What is proved

Every theorem holds for any sets of documents, workers, requests, values and keys, and for any
bound on failures, redeliveries, events and settling commits. Besides the constants' `ASSUME`s a
theorem has only the hypotheses it states. Only `ImplementsLifecycle` has one, no redelivery, because
TLC finds a document extracted twice with it. Where overlapping transactions break a promise of the
pipeline or of the webhooks, the theorem does not exclude them: its property excepts, by a history
variable, the one overlap that does, and covers all others. All invariants were checked with TLC on small instances before they
were proved. A module proves the types first, then each property with what it adds to them.

**`DocumentPipelineProofs`**: `TypeCorrect`, and `SafetyInvariant` (`Spec => []SafetyInv`), from
which `LockOrderHolds`, `TaskFindsDocumentHolds` and `LeavesCreatedHolds` (CREATED exactly while no
document is committed) follow. None of the three
is inductive. `SafetyInv` adds why they hold: a worker never runs a request's steps (`Roles`); a row
lock is held exactly between the UPDATE that takes it and the end of the transaction (`LocksHeld`);
an upload in progress is the only process that knows its document, and the status it read is CREATED
or the shipment has left CREATED for good (`UploadsOwnTheirRow`); no transaction is about to write
CREATED or a document that is not settled (`PendingWrites`); a committed row has its object and a
message has its row (`RowsAreStored`). Each action has a lemma per part it can disturb;
`CommitEffect`, `ReleasedLocks` and `SameRows` say what the shared helpers change.

**`PipelineStatusProofs`**, on top of `SafetyInv`:

* `NoWorkIsLost`. `WorkInv` says which message or process carries each document, and how far: a
  QUEUED one is in the queue, with an extracting worker or with an upload before its send; a settled
  one has had its messages or is carried by who is about to send them.
* `StatusAlwaysAgreesUnlessBlind`. `StatusInv`: unless the last settling commit was blind, the status
  agrees with the documents or one is still queued; and what a process that is not blind has computed
  from its siblings is right or another document is queued. So one settling commit that is not blind
  repairs whatever earlier ones have left. Two extractions (finding 1), or an extraction and a
  correction, that are blind to each other are the exception.
* `UploadingAlwaysQueued`. `UploadingInv`: while the shipment is in DOCUMENTS_UPLOADING, a document is
  queued and whoever settles one writes the shipment too, because the status it has computed is
  another (`Moving`, `UploadingOf`); and only an upload, which adds a queued document, writes it.

**`DocumentLifecycleProofs`**:

* `ImplementsLifecycle`, for `MaxRedeliveries = 0`: `Spec => LifecycleSpec`, every step maps to one of
  the three steps of `DocumentLifecycle` or to a stutter. `CarrierOf(d)`: a QUEUED document has at most
  one carrier, and whoever extracts it finds it QUEUED. A redelivered message is a second carrier.
* `CorrectionsAreKept`: the fields that a request merges into are at least the committed ones unless it
  is `outdated`, and a document not yet extracted has none (`FieldsInv`), which is what an extraction
  finds that is not `repeated` (`CarrierOf`, for each document on its own).

**`ConsistencyProofs`**: `ConsistencyTypeCorrect`, and for any number of workers
`AcknowledgmentsAreKept` (an action property: no column of a row that an UPDATE writes is its
acknowledgment). With one worker `FieldsHaveOneRow` and `MissingNeverBlocks`: `OneWorkerInv` says that
a check that has loaded a row still knows it, but for its acknowledgment (`Knows`), so that the columns
it leaves out of an UPDATE are those it would have written. `RowsFollowDocuments` adds
`AgreementInv`: without a message left, the rows are those of the documents, or the check that is
under way has compared the current ones.

**`LineItemsProofs`**: `LineItemsTypeCorrect`, `LineItemsAlwaysClassified`, `UpsertsNeverCollide`,
`OverridesAreKept` and `EveryChangeIsAnnounced` for any number of workers. `TaskOf` is the heart of
`LineItemsInv`: what a task lists is committed or of its own batch, and it has loaded a
classification exactly where one exists; `AnnouncedInv` names the process that still owes the
messages. `ReclassifiesWhatIsThere`: a committed line item stays, so that a message to reclassify
finds its row. With one worker `LineItemsAreDistinct` and `UnsureIsReviewed`: a batch is the first of its
shipment, and a classification loaded is still the committed one but for an override
(`OneWorkerInv`).

**`ShipmentAnalysisProofs`**: `AnalysisTypeCorrect` for any number of workers; its invariant
`AnalysisInv` counts messages and requests against their bounds and says that a row which a session
has found is never gone. The rest is for one worker (`Solo`, part of each property), and TLC violates
each of the three invariants with two:

* `PermitsFollowCodes` (`TriageInv`): the DELETE works on all permits there are, and the last triage
  taken has read the current codes.
* `VerdictsHaveBreakdowns` and `BreakdownsAreKept` (`BreakdownInv`): since a session loaded a row,
  only requests have changed it, and they only fill its breakdown in; what it flushes leaves the
  breakdown alone but on a placeholder, which it has not loaded; and the row as it will be committed
  (`Merged`) is complete.
* `DeterminationsFollowCodes` (`OnceInv`, `SettlesInv`): when no message waits and no request is about
  to send one, nobody has changed anything since the task that runs was taken, and each line item is
  still to do, in hand, or settled by what is flushed. A total of zero is the exception the
  property names.

`Rule` takes the first matching rule with `SelectInSeq`, whose minimum exists because `<` is well
founded on `Nat` (`NatMin`).

**`ReportsProofs`**: `ReportsTypeCorrect`, `ReadyIsAlwaysCurrent` and `HistoryIsKept`. `RowOf` and
`TaskOf`: an object under a report's key, and every version a task has read, is no older than the
request; a task that is about to mark a report READY has stored its PDF. `OnceOf`: a report whose
message is not repeated is GENERATING until its only task commits, which is why no later step changes
what it shows.

**`BillingProofs`**: the five properties of the `tenants` run, `AccountsAreAlwaysWhole`,
`AnswersAreAlwaysTrue`, `RowIsAlwaysOneEvent`, `SubscriptionAlwaysFollows` and `BillingTypeCorrect`.

* `AccountsInv`: what each step of a registration implies for the tables (`Stages`), who holds an
  uncommitted unique key, so that two registrations past an insert differ in it (`Holds`,
  `Unique`), and what an answer was given for (`Answers`). The unique keys alone do not give
  uniqueness: the argument needs that the second INSERT waits for the first transaction.
* `BillingInv`: an UPDATE writes columns of its own event and leaves those of the row, so that a column
  is always one of some event of the company; a webhook that is not `outdated` has read the row it
  updates (`FreshReads`), so that the columns left out of the UPDATE are those of its event too; with a provider that waits for answers
  no two webhooks meet (`MeetsNoOther`); with in-order delivery the event one carries is not older
  than any that was acknowledged for its company (`DeliversNewer`).
* `TypesInv`: rows belong to registered companies (`BillingRest`), and a role is
  set with the user's INSERT and gone with the rollback (`AccountsRest`).

So each invariant, action property and refinement that a passing run checks is also a theorem, but for
`StatusAgreesAtRest` in `pipeline_solo`, whose theorem is `StatusAlwaysAgreesUnlessBlind`. The
provers showed three places where a model had to say more: the bounds of `FreshIds` and `FreeBatches`
are guards now (a CHOOSE from no id had no meaning), the sets of workers and requests whose members
are counted are finite, and the rules' thresholds are numbers.

Model-checked only: what holds under fairness (`StatusConverges`, `StreamEnds`, `QueuedSettles`,
`RowsConverge`, `InvoiceIsClassified`, `ReportSettles`), because liveness and `ENABLED` are out of the
prover's reach; with it all of `StatusStream`, whose only property is of that kind; and the three
runs that expect a violation.

## 5. Plan

Done: every module of section 2 and a theorem for each safety property of the runs. Left, in order
of importance:

1. Composing `LineItems` with `ShipmentAnalysis` instead of the `ChangeCodes` that stands for it. The
   proof would show that each announcement of `LineItems` is a `ChangeCodes` of `EffectiveCodes` or
   stutters; TLC needs smaller instances of both first.
2. The properties that hold with one worker, stated for several under a weaker hypothesis: that no two
   tasks of one shipment overlap. The invariants use `OneWorker` only for that.
3. A safety property of `StatusStream` worth proving (the two observations of section 3 say what the
   code does not promise).

Runs are kept small enough for a few minutes each on two TLC workers.

## 6. Not modelled

Reads that change nothing (listing, pagination, the signature of a link); tenant scoping, a WHERE
clause of every API query (`broker_company_id` is never assigned, so that no broker has a managed
company yet); logout, which only clears a cookie; the seeding of tariff headings; field parsing, name
similarity, prompts and the ranking of tariff headings (constants stand for their results);
logging and wording; schema validation, rate limiting and settings, which reject or tune
requests before they reach the modelled code; the frontend, migrations as scripts, CI and
Docker. Liveness, and anything about `ENABLED`, is outside the reach of TLAPS and stays with
TLC.
