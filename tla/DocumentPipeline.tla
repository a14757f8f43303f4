-------------------------- MODULE DocumentPipeline --------------------------
(***************************************************************************)
(* The document pipeline of one shipment: upload and manual correction     *)
(* (HTTP handlers, services/document_service.py), extraction (Celery       *)
(* workers, services/document_extraction_service.py) and the status they   *)
(* derive together for the shipment they share.                            *)
(*                                                                         *)
(* Each handler or worker call is one PostgreSQL transaction at READ       *)
(* COMMITTED, split at the points where another process can run: every     *)
(* SELECT sees what is committed at that moment (plus the transaction's    *)
(* own writes), an UPDATE takes a row lock that is kept until the          *)
(* transaction ends, and SQLAlchemy emits an UPDATE only for a column      *)
(* whose value differs from the one the transaction loaded.  The broker    *)
(* messages are sent after the commit, one send at a time.                 *)
(*                                                                         *)
(* Rejected requests (404, 400, 422, 409) change nothing and are not       *)
(* steps.  The rows of other shipments are never touched.                  *)
(***************************************************************************)
EXTENDS Naturals

CONSTANTS
  Docs,            \* documents that may be uploaded to the shipment
  Invoices,        \* those uploaded with doc_type = commercial_invoice
  Workers,         \* Celery worker processes
  Handlers,        \* HTTP requests that can be in progress at once
  Keys,            \* names of extracted fields an operator may correct
  NoProc,          \* "no process holds the row lock"
  NoDoc,           \* "the process works on no document"
  NoStatus,        \* "no shipment status" (Python None, or no pending UPDATE)
  Faulty,          \* processes that may crash, or fail and roll back
  MaxFailures,     \* bound on such failures
  MaxRedeliveries  \* bound on messages the broker delivers once more

Procs == Workers \cup Handlers

ASSUME ProcsAssumption ==
  /\ Workers \cap Handlers = {}
  /\ NoProc \notin Procs
  /\ Faulty \subseteq Procs
ASSUME DocsAssumption == NoDoc \notin Docs /\ Invoices \subseteq Docs
ASSUME BoundsAssumption == MaxFailures \in Nat /\ MaxRedeliveries \in Nat

\* The members of DocumentStatus a row is committed with, and ABSENT for "no
\* row".  FAILED is never assigned; PROCESSING is flushed, and seen by the
\* transaction that writes it, but always replaced before the commit.
DocumentStatus == {"ABSENT", "QUEUED", "EXTRACTED", "NEEDS_MANUAL_REVIEW"}
InProgress == {"QUEUED", "PROCESSING"}
Settled == {"EXTRACTED", "NEEDS_MANUAL_REVIEW"}

\* The members of ShipmentStatus that some code path assigns.
ShipmentStatus ==
  {"CREATED", "DOCUMENTS_UPLOADING", "EXTRACTING", "NEEDS_MANUAL_REVIEW"}
ASSUME NoStatusAssumption == NoStatus \notin ShipmentStatus

\* A documents row: its status, and the keys of extracted_fields whose value
\* is an operator's correction (every other value is the extraction's).
DocumentRow == [status : DocumentStatus, fields : SUBSET Keys]
AbsentRow == [status |-> "ABSENT", fields |-> {}]

VARIABLES
  shipment,      \* committed shipments.status
  doc,           \* committed documents rows
  objects,       \* documents whose bytes are in object storage
  shipmentLock,  \* transaction that has updated the shipments row
  docLock,       \* transaction that has updated each documents row
  queue,         \* process_document messages waiting, per document
  classifySent,  \* documents whose last settling commit was followed by classify_...
  checkSent,     \* ... and by check_shipment_consistency
  pc, job,       \* per process: next step and document
  row,           \* per process: the document row it has loaded or will commit
  view,          \* per process: shipment status loaded or computed
  write,         \* per process: shipment status its transaction writes, or NoStatus
  failures, redeliveries

db == <<shipment, doc, objects>>
locks == <<shipmentLock, docLock>>
broker == <<queue, classifySent, checkSent>>
local == <<pc, job, row, view, write>>
faults == <<failures, redeliveries>>
vars == <<db, locks, broker, local, faults>>

PC == {"idle", "storing", "inserting", "enqueue",
       "correcting", "correctShipment", "correctCommit",
       "fetched", "flushProcessing", "extracting", "recompute",
       "recomputeShipment", "extractCommit", "sendClassify", "sendCheck"}

TypeOK ==
  /\ shipment \in ShipmentStatus
  /\ doc \in [Docs -> DocumentRow]
  /\ objects \subseteq Docs
  /\ shipmentLock \in Procs \cup {NoProc}
  /\ docLock \in [Docs -> Procs \cup {NoProc}]
  /\ queue \in [Docs -> Nat]
  /\ classifySent \subseteq Docs
  /\ checkSent \subseteq Docs
  /\ pc \in [Procs -> PC]
  /\ job \in [Procs -> Docs \cup {NoDoc}]
  /\ \A p \in Procs : pc[p] # "idle" => job[p] \in Docs
  /\ row \in [Procs -> DocumentRow]
  /\ view \in [Procs -> ShipmentStatus \cup {NoStatus}]
  /\ write \in [Procs -> ShipmentStatus \cup {NoStatus}]
  /\ failures \in 0..MaxFailures
  /\ redeliveries \in 0..MaxRedeliveries

\* The shipment has just been created by POST /shipments.
Init ==
  /\ shipment = "CREATED"
  /\ doc = [d \in Docs |-> AbsentRow]
  /\ objects = {}
  /\ shipmentLock = NoProc
  /\ docLock = [d \in Docs |-> NoProc]
  /\ queue = [d \in Docs |-> 0]
  /\ classifySent = {}
  /\ checkSent = {}
  /\ pc = [p \in Procs |-> "idle"]
  /\ job = [p \in Procs |-> NoDoc]
  /\ row = [p \in Procs |-> AbsentRow]
  /\ view = [p \in Procs |-> NoStatus]
  /\ write = [p \in Procs |-> NoStatus]
  /\ failures = 0
  /\ redeliveries = 0

-----------------------------------------------------------------------------
(* Reading and writing through a transaction.                              *)

\* Mutant: the docstring's "awaiting Phase 3" wired up half-way.
ComputeShipmentStatusPhase3(status) ==
  IF \E d \in Docs : status[d] \in InProgress THEN "EXTRACTING" ELSE "CLASSIFYING"

\* Mutant: a queued document still counts as being uploaded.
ComputeShipmentStatusByStage(status) ==
  IF \A d \in Docs : status[d] = "ABSENT" THEN NoStatus
  ELSE IF \E d \in Docs : status[d] = "QUEUED" THEN "DOCUMENTS_UPLOADING"
  ELSE IF \E d \in Docs : status[d] = "NEEDS_MANUAL_REVIEW" THEN "NEEDS_MANUAL_REVIEW"
  ELSE "EXTRACTING"

\* compute_shipment_status over the statuses of the shipment's documents.
ComputeShipmentStatus(status) ==
  IF \A d \in Docs : status[d] = "ABSENT" THEN NoStatus
  ELSE IF /\ \A d \in Docs : status[d] \notin InProgress
          /\ \E d \in Docs : status[d] = "NEEDS_MANUAL_REVIEW"
       THEN "NEEDS_MANUAL_REVIEW"
       ELSE "EXTRACTING"

\* Mutant: the SELECT runs before the autoflush, so the own update is not seen.
StatusesCommitted(p, s) == [d \in Docs |-> doc[d].status]

\* What p's SELECT on the shipment's documents returns: committed rows, and its
\* own uncommitted status s for the document it has updated.
StatusesSeenBy(p, s) ==
  [d \in Docs |-> IF d = job[p] THEN s ELSE doc[d].status]

CanUpdate(lock, p) == lock \in {NoProc, p}

Goto(p, label) == pc' = [pc EXCEPT ![p] = label]

\* The process is done with its call and forgets its session.
Finish(p) ==
  /\ Goto(p, "idle")
  /\ job' = [job EXCEPT ![p] = NoDoc]
  /\ row' = [row EXCEPT ![p] = AbsentRow]
  /\ view' = [view EXCEPT ![p] = NoStatus]
  /\ write' = [write EXCEPT ![p] = NoStatus]

\* Mutant: the session goes back to the pool without ending its transaction.
KeepLocks(p) == UNCHANGED locks

\* The end of a transaction, either way, releases its row locks.
ReleaseLocks(p) ==
  /\ shipmentLock' = IF shipmentLock = p THEN NoProc ELSE shipmentLock
  /\ docLock' = [d \in Docs |-> IF docLock[d] = p THEN NoProc ELSE docLock[d]]

\* session.commit(): flush the pending shipment UPDATE (waiting for its row
\* lock), make the document row and the shipment status visible.
Commit(p) ==
  /\ write[p] # NoStatus => CanUpdate(shipmentLock, p)
  /\ shipment' = IF write[p] = NoStatus THEN shipment ELSE write[p]
  /\ doc' = [doc EXCEPT ![job[p]] = row[p]]
  /\ ReleaseLocks(p)
  /\ UNCHANGED <<objects, job, row, view, write>>

-----------------------------------------------------------------------------
(* POST /shipments/{id}/documents: DocumentService.upload_document.        *)

\* A fresh document id; the shipment row is loaded now and not read again.
UploadRead(h, d) ==
  /\ pc[h] = "idle"
  /\ doc[d] = AbsentRow /\ d \notin objects
  /\ \A p \in Procs : job[p] # d
  /\ Goto(h, "storing")
  /\ job' = [job EXCEPT ![h] = d]
  /\ view' = [view EXCEPT ![h] = shipment]
  /\ UNCHANGED <<db, locks, broker, row, write, faults>>

\* The status an upload writes, decided from the shipment as it was loaded.
StatusAfterUpload(seen) ==
  IF seen = "CREATED" THEN "DOCUMENTS_UPLOADING" ELSE NoStatus

\* Mutant: enqueue while the row is only flushed (get_db would commit later).
UploadStoreAndEnqueue(h) ==
  /\ pc[h] = "storing"
  /\ objects' = objects \cup {job[h]}
  /\ row' = [row EXCEPT ![h] = [status |-> "QUEUED", fields |-> {}]]
  /\ write' = [write EXCEPT ![h] = StatusAfterUpload(view[h])]
  /\ queue' = [queue EXCEPT ![job[h]] = @ + 1]
  /\ Goto(h, "inserting")
  /\ UNCHANGED <<shipment, doc, locks, classifySent, checkSent, job, view, faults>>

\* The bytes are stored first; then the row is inserted, not yet committed.
UploadStore(h) ==
  /\ pc[h] = "storing"
  /\ objects' = objects \cup {job[h]}
  /\ row' = [row EXCEPT ![h] = [status |-> "QUEUED", fields |-> {}]]
  /\ write' = [write EXCEPT ![h] = StatusAfterUpload(view[h])]
  /\ Goto(h, "inserting")
  /\ UNCHANGED <<shipment, doc, locks, broker, job, view, faults>>

UploadCommit(h) ==
  /\ pc[h] = "inserting"
  /\ Commit(h)
  /\ Goto(h, "enqueue")
  /\ UNCHANGED <<broker, faults>>

UploadEnqueue(h) ==
  /\ pc[h] = "enqueue"
  /\ queue' = [queue EXCEPT ![job[h]] = @ + 1]
  /\ Finish(h)
  /\ UNCHANGED <<db, locks, classifySent, checkSent, faults>>

-----------------------------------------------------------------------------
(* PATCH /shipments/{id}/documents/{id}: correct_extracted_fields.         *)

\* Mutant: the 409 is not raised.
CorrectableAnyTime(d) == doc[d].status # "ABSENT"

\* A correction of any other document is refused with 409 Conflict.
Correctable(d) == doc[d].status = "NEEDS_MANUAL_REVIEW"

\* Load the row and merge the corrected key into
\* the fields as they were loaded.
CorrectRead(h, d, k) ==
  /\ pc[h] = "idle"
  /\ Correctable(d)
  /\ Goto(h, "correcting")
  /\ job' = [job EXCEPT ![h] = d]
  /\ row' = [row EXCEPT ![h] =
               [status |-> "EXTRACTED", fields |-> doc[d].fields \cup {k}]]
  /\ UNCHANGED <<db, locks, broker, view, write, faults>>

\* The autoflush before the sibling SELECT updates the document row, waiting
\* for its lock; then the siblings are read.
CorrectSiblings(h) ==
  /\ pc[h] = "correcting"
  /\ docLock[job[h]] = NoProc
  /\ docLock' = [docLock EXCEPT ![job[h]] = h]
  /\ view' = [view EXCEPT ![h] =
                ComputeShipmentStatus(StatusesSeenBy(h, "EXTRACTED"))]
  /\ Goto(h, "correctShipment")
  /\ UNCHANGED <<db, shipmentLock, broker, job, row, write, faults>>

\* A separate SELECT loads the shipment; an equal status is not written.
CorrectShipment(h) ==
  /\ pc[h] = "correctShipment"
  /\ write' = [write EXCEPT ![h] =
                 IF view[h] # shipment THEN view[h] ELSE NoStatus]
  /\ Goto(h, "correctCommit")
  /\ UNCHANGED <<db, locks, broker, job, row, view, faults>>

\* Mutant: an invoice is checked but never classified.
NextTaskCheckOnly(d) == "sendCheck"

NextTask(d) == IF d \in Invoices THEN "sendClassify" ELSE "sendCheck"

\* What follows the commit that settles document d: classification for an
\* invoice, then a consistency check; until then neither has been requested.
Chain(p) ==
  /\ Goto(p, NextTask(job[p]))
  /\ classifySent' = classifySent \ {job[p]}
  /\ checkSent' = checkSent \ {job[p]}
  /\ UNCHANGED queue

CorrectCommit(h) ==
  /\ pc[h] = "correctCommit"
  /\ Commit(h)
  /\ Chain(h)
  /\ UNCHANGED faults

-----------------------------------------------------------------------------
(* The Celery task process_document: DocumentExtractionService.extract.    *)

\* Mutant: the message stays in the queue.
NeverAcknowledge(d) == UNCHANGED queue

Acknowledge(d) == queue' = [queue EXCEPT ![d] = @ - 1]

\* The message is acknowledged when it is taken (Celery's default); a document
\* that does not exist is a no-op.
Take(w, d) ==
  /\ pc[w] = "idle"
  /\ queue[d] > 0
  /\ Acknowledge(d)
  /\ IF doc[d].status = "ABSENT"
     THEN UNCHANGED <<pc, job, row>>
     ELSE /\ Goto(w, "fetched")
          /\ job' = [job EXCEPT ![w] = d]
          /\ row' = [row EXCEPT ![w] = doc[d]]
  /\ UNCHANGED <<db, locks, classifySent, checkSent, view, write, faults>>

\* status = PROCESSING is autoflushed before the sibling SELECT, waiting for the
\* document's row lock, then the shipment is loaded.
MarkProcessing(w) ==
  LET computed == ComputeShipmentStatus(StatusesSeenBy(w, "PROCESSING")) IN
  /\ pc[w] = "fetched"
  /\ docLock[job[w]] = NoProc
  /\ docLock' = [docLock EXCEPT ![job[w]] = w]
  /\ write' = [write EXCEPT ![w] =
                 IF computed # shipment THEN computed ELSE NoStatus]
  /\ Goto(w, IF computed # shipment THEN "flushProcessing" ELSE "extracting")
  /\ UNCHANGED <<db, shipmentLock, broker, job, row, view, faults>>

\* session.flush(): the shipment UPDATE keeps its row lock until the commit.
FlushProcessing(w) ==
  /\ pc[w] = "flushProcessing"
  /\ shipmentLock = NoProc
  /\ shipmentLock' = w
  /\ Goto(w, "extracting")
  /\ UNCHANGED <<db, docLock, broker, job, row, view, write, faults>>

\* Download, OCR and the language model: a confidence on either side of the
\* threshold; any exception counts as confidence 0.  The fields column is not
\* rewritten when the extraction returns what the transaction loaded.
ExtractFields(w) ==
  /\ pc[w] = "extracting"
  /\ \E outcome \in Settled, same \in BOOLEAN :
       /\ same => row[w].status \in Settled /\ row[w].fields = {}
       /\ row' = [row EXCEPT ![w] =
                    [status |-> outcome,
                     fields |-> IF same THEN doc[job[w]].fields ELSE {}]]
  /\ Goto(w, "recompute")
  /\ UNCHANGED <<db, locks, broker, job, view, write, faults>>

RecomputeSiblings(w) ==
  /\ pc[w] = "recompute"
  /\ view' = [view EXCEPT ![w] =
                ComputeShipmentStatus(StatusesSeenBy(w, row[w].status))]
  /\ Goto(w, "recomputeShipment")
  /\ UNCHANGED <<db, locks, broker, job, row, write, faults>>

\* The transaction reads its own EXTRACTING if it has written it, the committed
\* status otherwise; only a different status is written.
RecomputeShipment(w) ==
  /\ pc[w] = "recomputeShipment"
  /\ write' = [write EXCEPT ![w] =
                 IF shipmentLock = w \/ view[w] # shipment THEN view[w] ELSE NoStatus]
  /\ Goto(w, "extractCommit")
  /\ UNCHANGED <<db, locks, broker, job, row, view, faults>>

ExtractCommit(w) ==
  /\ pc[w] = "extractCommit"
  /\ Commit(w)
  /\ Chain(w)
  /\ UNCHANGED faults

-----------------------------------------------------------------------------
(* Messages to the later stages, common to extraction and correction.      *)

SendClassify(p) ==
  /\ pc[p] = "sendClassify"
  /\ classifySent' = classifySent \cup {job[p]}
  /\ Goto(p, "sendCheck")
  /\ UNCHANGED <<db, locks, queue, checkSent, job, row, view, write, faults>>

SendCheck(p) ==
  /\ pc[p] = "sendCheck"
  /\ checkSent' = checkSent \cup {job[p]}
  /\ Finish(p)
  /\ UNCHANGED <<db, locks, queue, classifySent, faults>>

-----------------------------------------------------------------------------
(* Faults.                                                                 *)

\* The process crashes, or an exception makes it roll back: its transaction is
\* undone, its remaining sends are not made, and a task it had taken is gone.
Fail(p) ==
  /\ p \in Faulty /\ pc[p] # "idle"
  /\ failures < MaxFailures
  /\ failures' = failures + 1
  /\ ReleaseLocks(p)
  /\ Finish(p)
  /\ UNCHANGED <<db, broker, redeliveries>>

\* The broker's visibility timeout expires on a message a worker has reserved
\* and not yet started: it is delivered twice.
Redeliver(d) ==
  /\ queue[d] > 0
  /\ redeliveries < MaxRedeliveries
  /\ redeliveries' = redeliveries + 1
  /\ queue' = [queue EXCEPT ![d] = @ + 1]
  /\ UNCHANGED <<db, locks, classifySent, checkSent, local, failures>>

-----------------------------------------------------------------------------
Request(h) ==
  \/ \E d \in Docs : UploadRead(h, d)
  \/ \E d \in Docs, k \in Keys : CorrectRead(h, d, k)

HandlerStep(h) ==
  \/ UploadStore(h) \/ UploadCommit(h) \/ UploadEnqueue(h)
  \/ CorrectSiblings(h) \/ CorrectShipment(h) \/ CorrectCommit(h)
  \/ SendClassify(h) \/ SendCheck(h)

WorkerStep(w) ==
  \/ \E d \in Docs : Take(w, d)
  \/ MarkProcessing(w) \/ FlushProcessing(w) \/ ExtractFields(w)
  \/ RecomputeSiblings(w) \/ RecomputeShipment(w) \/ ExtractCommit(w)
  \/ SendClassify(w) \/ SendCheck(w)

Next ==
  \/ \E h \in Handlers : Request(h) \/ HandlerStep(h)
  \/ \E w \in Workers : WorkerStep(w)
  \/ \E p \in Procs : Fail(p)
  \/ \E d \in Docs : Redeliver(d)

Spec == Init /\ [][Next]_vars

\* A request once begun and a worker with work to do keep running; clients are
\* free never to send a request and the broker never to redeliver.
FairSpec ==
  /\ Spec
  /\ \A h \in Handlers : WF_vars(HandlerStep(h))
  /\ \A w \in Workers : WF_vars(WorkerStep(w))
-----------------------------------------------------------------------------
(* Properties.                                                             *)

\* A process waits for the row lock that q holds.
WaitsForDocument(p, q) ==
  pc[p] \in {"correcting", "fetched"} /\ docLock[job[p]] = q
WaitsForShipment(p, q) ==
  /\ \/ pc[p] = "flushProcessing"
     \/ pc[p] \in {"inserting", "correctCommit", "extractCommit"} /\ write[p] # NoStatus
  /\ shipmentLock = q

\* Row locks are taken in one order, document before shipment, and only by a
\* running transaction: whoever holds the shipment row waits for nobody, and
\* whoever holds a document row waits at most for the shipment row.  So no
\* upload, correction and extraction can block each other in a cycle, although
\* a worker keeps its locks through the whole language-model call.
LockOrder ==
  /\ shipmentLock # NoProc =>
       \A q \in Procs \ {shipmentLock} :
         ~WaitsForDocument(shipmentLock, q) /\ ~WaitsForShipment(shipmentLock, q)
  /\ \A d \in Docs : docLock[d] # NoProc =>
       /\ job[docLock[d]] = d
       /\ \A q \in Procs : ~WaitsForDocument(docLock[d], q)

\* "Commit before enqueue": a worker that dequeues process_document always finds
\* the committed row and the stored bytes, whatever was rolled back or crashed.
TaskFindsDocument ==
  \A d \in Docs :
    queue[d] > 0 \/ (\E w \in Workers : job[w] = d) =>
      doc[d].status # "ABSENT" /\ d \in objects

\* The shipment leaves CREATED with the commit of its first document and does
\* not return, even though every upload decides from a status read earlier.
LeavesCreated ==
  shipment = "CREATED" <=> \A d \in Docs : doc[d].status = "ABSENT"

\* An upload that has read CREATED before the others got ahead moves the shipment back to
\* DOCUMENTS_UPLOADING, but never for good: whenever it is there, a document is still to be
\* extracted, and the transaction that settles the last one moves the shipment on.
UploadingMeansQueued ==
  shipment = "DOCUMENTS_UPLOADING" => \E d \in Docs : doc[d].status = "QUEUED"

\* The inductive invariant behind the first three.
UploadPCs == {"storing", "inserting", "enqueue"}
CorrectPCs == {"correcting", "correctShipment", "correctCommit"}
ExtractPCs == {"fetched", "flushProcessing", "extracting", "recompute",
               "recomputeShipment", "extractCommit"}
HoldsShipment == {"extracting", "recompute", "recomputeShipment", "extractCommit"}
HoldsDocument == HoldsShipment \cup {"flushProcessing", "correctShipment", "correctCommit"}

Roles ==
  /\ \A p \in Procs : pc[p] = "idle" => job[p] = NoDoc
  /\ \A w \in Workers : pc[w] \notin UploadPCs \cup CorrectPCs
  /\ \A h \in Handlers : pc[h] \notin ExtractPCs

\* A row lock is held exactly by the transactions past the UPDATE that takes it.
LocksHeld ==
  /\ \A d \in Docs, p \in Procs :
       docLock[d] = p <=> job[p] = d /\ pc[p] \in HoldsDocument
  /\ \A p \in Procs : shipmentLock = p => pc[p] \in HoldsShipment

\* An upload owns its document until the commit, and the status it remembers is
\* CREATED or proof that the shipment has left CREATED.
UploadsOwnTheirRow ==
  \A p \in Procs :
    /\ pc[p] \in {"storing", "inserting"} =>
         /\ doc[job[p]].status = "ABSENT"
         /\ \A q \in Procs \ {p} : job[q] # job[p]
         /\ view[p] \in ShipmentStatus
         /\ view[p] # "CREATED" => shipment # "CREATED"
    /\ pc[p] = "inserting" =>
         /\ job[p] \in objects
         /\ row[p].status = "QUEUED"
         /\ write[p] = StatusAfterUpload(view[p])
    /\ pc[p] \notin {"idle", "storing", "inserting"} => doc[job[p]].status # "ABSENT"

\* What a transaction is about to commit.
PendingWrites ==
  \A p \in Procs :
    /\ pc[p] \in CorrectPCs => row[p].status = "EXTRACTED"
    /\ pc[p] \in {"recompute", "recomputeShipment", "extractCommit"} =>
         row[p].status \in Settled
    /\ pc[p] \in {"correctShipment", "recomputeShipment"} => view[p] # "CREATED"
    /\ write[p] # "CREATED"

RowsAreStored ==
  \A d \in Docs :
    /\ doc[d].status # "ABSENT" => d \in objects
    /\ queue[d] > 0 => doc[d].status # "ABSENT"

SafetyInv ==
  /\ TypeOK
  /\ Roles
  /\ LocksHeld
  /\ UploadsOwnTheirRow
  /\ PendingWrites
  /\ RowsAreStored
  /\ LeavesCreated

Carried(d) == queue[d] > 0 \/ \E p \in Procs : job[p] = d

\* As long as no process fails, no work is lost: a queued document has a message
\* or a process on its way to it, and once its last settling commit is over, the
\* consistency check, and for an invoice the classification, were requested.
NoWorkLost ==
  failures = 0 =>
    \A d \in Docs : Carried(d) \/
      /\ doc[d].status \notin InProgress
      /\ doc[d].status \in Settled =>
           d \in checkSent /\ (d \in Invoices => d \in classifySent)

AtRest ==
  /\ \A p \in Procs : pc[p] = "idle"
  /\ \A d \in Docs : queue[d] = 0

\* What the docstring of compute_shipment_status promises: whichever paths moved
\* the documents, the shipment ends with the status derived from them.
StatusAgreesAtRest ==
  AtRest /\ failures = 0 =>
    shipment = "CREATED" \/
    shipment = ComputeShipmentStatus([d \in Docs |-> doc[d].status])

\* The life of each document as its clients know it.
Lifecycle == INSTANCE DocumentLifecycle WITH
  stage <- [d \in Docs |-> doc[d].status]
LifecycleSpec == Lifecycle!Spec

\* Every queued document is eventually extracted or sent to review.
QueuedSettles ==
  \A d \in Docs : doc[d].status = "QUEUED" ~> doc[d].status \in Settled

\* The shipment's status eventually agrees with its documents for good.
StatusConverges ==
  <>[](\/ shipment = "CREATED"
       \/ shipment = ComputeShipmentStatus([d \in Docs |-> doc[d].status]))
=============================================================================
