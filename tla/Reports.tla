------------------------------ MODULE Reports ------------------------------
(***************************************************************************)
(* Compliance reports of one shipment: POST /shipments/{id}/report creates *)
(* a row and sends generate_report; the task reads what the report bundles *)
(* with several statements at READ COMMITTED, stores a PDF and updates the *)
(* row; GET /reports/{id} signs a link to the PDF of a READY row.          *)
(*                                                                         *)
(* What the other components commit is a version number per part.  A       *)
(* report's shipment always exists: it is a foreign key and no code        *)
(* deletes shipments, so generate's "shipment is None" branch cannot run.  *)
(***************************************************************************)
EXTENDS Naturals, FiniteSets, Sequences, Functions

CONSTANTS
  ReportIds,         \* reports that may be requested
  Workers, Pools,    \* Celery workers, and the sets of them a deployment may run
  None,              \* a null column, an absent row or object
  MaxEdits,          \* bound on commits by other components
  MaxFaults,         \* bound on processes that die or lose the database
  MaxRedelivered     \* bound on reports whose message the broker repeats

\* What generate reads, a statement each, in its order: list_by_shipment loads the
\* classifications and the origin determinations of the line items after them.
Parts == <<"shipment", "line items", "classifications", "origins", "discrepancies", "permits">>

VARIABLES
  version,     \* per part: what is committed
  reports,     \* reports rows: [status, storage_path]
  objects,     \* object store: the PDF under each key
  requested,   \* history: the versions when the report was requested
  hpc,         \* per report: progress of its POST
  queue,       \* messages per report
  redelivered, \* reports whose message was repeated
  pool,        \* the workers that run
  wpc, job,    \* per worker: next step, and the report it works on
  loaded,      \* per worker: the row as generate loaded it
  bundle,      \* per worker: the parts it has read
  edits, faults

shared == <<version, reports, objects, requested, hpc, queue, redelivered>>
task == <<wpc, job, loaded, bundle>>
vars == <<shared, pool, task, edits, faults>>

Keys == ReportIds \cup {"shipment"}
Contents == [Range(Parts) -> 0..MaxEdits]
Rows == [status : {"GENERATING", "READY", "FAILED"}, storage_path : Keys \cup {None}]

ASSUME ReportsAssumption ==
  /\ None \notin Keys \cup Contents \cup Rows
  /\ Pools \subseteq SUBSET Workers
  /\ {MaxEdits, MaxFaults, MaxRedelivered} \subseteq Nat

Init ==
  /\ version = [p \in Range(Parts) |-> 0]
  /\ reports = [r \in ReportIds |-> None]
  /\ objects = [k \in Keys |-> None]
  /\ requested = [r \in ReportIds |-> None]
  /\ hpc = [r \in ReportIds |-> "none"]
  /\ queue = [r \in ReportIds |-> 0]
  /\ redelivered = {}
  /\ pool \in Pools
  /\ wpc = [w \in Workers |-> "idle"]
  /\ job = [w \in Workers |-> None]
  /\ loaded = [w \in Workers |-> None]
  /\ bundle = [w \in Workers |-> <<>>]
  /\ edits = 0 /\ faults = 0

\* Another component commits a part.
Edit ==
  /\ edits < MaxEdits
  /\ edits' = edits + 1
  /\ \E p \in Range(Parts) : version' = [version EXCEPT ![p] = @ + 1]
  /\ UNCHANGED <<reports, objects, requested, hpc, queue, redelivered, pool, task, faults>>

-----------------------------------------------------------------------------
Created(r) ==
  /\ reports' = [reports EXCEPT ![r] = [status |-> "GENERATING", storage_path |-> None]]
  /\ requested' = [requested EXCEPT ![r] = version]

Sent(r) == queue' = [queue EXCEPT ![r] = @ + 1]

At(r, from, to) == hpc[r] = from /\ hpc' = [hpc EXCEPT ![r] = to]

\* Mutant: the message goes out before the commit.
SendThenCommit(r) ==
  \/ At(r, "none", "committed") /\ Sent(r) /\ UNCHANGED <<reports, requested>>
  \/ At(r, "committed", "done") /\ Created(r) /\ UNCHANGED queue

\* trigger_generation: the row is committed, then the message sent.
CommitThenSend(r) ==
  \/ At(r, "none", "committed") /\ Created(r) /\ UNCHANGED queue
  \/ At(r, "committed", "done") /\ Sent(r) /\ UNCHANGED <<reports, requested>>

TriggerGeneration(r) ==
  /\ CommitThenSend(r)
  /\ UNCHANGED <<version, objects, redelivered, pool, task, edits, faults>>

TriggerFails(r) ==
  /\ faults < MaxFaults
  /\ faults' = faults + 1
  /\ At(r, "committed", "done")
  /\ UNCHANGED <<version, reports, objects, requested, queue, redelivered, pool, task, edits>>

\* A message nobody acknowledged in time is delivered once more.
Redeliver(r) ==
  /\ hpc[r] = "done" /\ reports[r] # None
  /\ Cardinality(redelivered) < MaxRedelivered /\ r \notin redelivered
  /\ redelivered' = redelivered \cup {r}
  /\ Sent(r)
  /\ UNCHANGED <<version, reports, objects, requested, hpc, pool, task, edits, faults>>

-----------------------------------------------------------------------------
EndTask(w) ==
  /\ wpc' = [wpc EXCEPT ![w] = "idle"]
  /\ job' = [job EXCEPT ![w] = None]
  /\ loaded' = [loaded EXCEPT ![w] = None]
  /\ bundle' = [bundle EXCEPT ![w] = <<>>]

\* generate_report_task and get_by_id; a report nobody finds is dropped.
Take(w, r) ==
  /\ w \in pool /\ wpc[w] = "idle" /\ queue[r] > 0
  /\ queue' = [queue EXCEPT ![r] = @ - 1]
  /\ IF reports[r] = None
     THEN UNCHANGED task
     ELSE /\ wpc' = [wpc EXCEPT ![w] = "read"]
          /\ job' = [job EXCEPT ![w] = r]
          /\ loaded' = [loaded EXCEPT ![w] = reports[r]]
          /\ UNCHANGED bundle
  /\ UNCHANGED <<version, reports, objects, requested, hpc, redelivered, pool, edits, faults>>

\* One statement: get_by_id of the shipment, a list_by_shipment, or what it loads after.
Read(w) ==
  LET part == Parts[Len(bundle[w]) + 1] IN
  /\ wpc[w] = "read"
  /\ bundle' = [bundle EXCEPT ![w] = Append(@, version[part])]
  /\ wpc' = [wpc EXCEPT ![w] = IF Len(bundle'[w]) = Len(Parts) THEN "build" ELSE "read"]
  /\ UNCHANGED <<shared, pool, job, loaded, edits, faults>>

\* _build_pdf shows every part as it was read.
Pdf(read) == [p \in Range(Parts) |-> read[CHOOSE n \in 1..Len(Parts) : Parts[n] = p]]

\* Mutant: one object per shipment.
ReportKeyOfShipment(r) == "shipment"

ReportKey(r) == r

Upload(w) ==
  /\ wpc[w] = "build"
  /\ objects' = [objects EXCEPT ![ReportKey(job[w])] = Pdf(bundle[w])]
  /\ wpc' = [wpc EXCEPT ![w] = "ready"]
  /\ UNCHANGED <<version, reports, requested, hpc, queue, redelivered, pool, job, loaded, bundle,
                 edits, faults>>

\* The PDF cannot be laid out or stored: the exception is absorbed.
GenerationFails(w) ==
  /\ wpc[w] = "build"
  /\ wpc' = [wpc EXCEPT ![w] = "failed"]
  /\ UNCHANGED <<shared, pool, job, loaded, bundle, edits, faults>>

\* An UPDATE writes the columns that differ from the loaded row.
Column(old, new, current) == IF new = old THEN current ELSE new

\* Mutant: the path is written only once the caller asks for the link.
ReadyWithoutPath(w) ==
  [status |-> Column(loaded[w].status, "READY", reports[job[w]].status),
   storage_path |-> reports[job[w]].storage_path]

ReadyRow(w) ==
  [status |-> Column(loaded[w].status, "READY", reports[job[w]].status),
   storage_path |-> Column(loaded[w].storage_path, ReportKey(job[w]), reports[job[w]].storage_path)]

FailedRow(w) ==
  [reports[job[w]] EXCEPT !.status = Column(loaded[w].status, "FAILED", @)]

Commit(w) ==
  /\ \/ wpc[w] = "ready" /\ reports' = [reports EXCEPT ![job[w]] = ReadyRow(w)]
     \/ wpc[w] = "failed" /\ reports' = [reports EXCEPT ![job[w]] = FailedRow(w)]
  /\ EndTask(w)
  /\ UNCHANGED <<version, objects, requested, hpc, queue, redelivered, pool, edits, faults>>

\* The worker dies, or a statement fails: generate's except catches that too, but the
\* transaction is aborted and its FAILED is rolled back with it.
TaskDies(w) ==
  /\ wpc[w] # "idle" /\ faults < MaxFaults
  /\ faults' = faults + 1
  /\ EndTask(w)
  /\ UNCHANGED <<shared, pool, edits>>

-----------------------------------------------------------------------------
\* The workers finish their tasks and a POST its own, whatever clients do.
Progress(w) ==
  Read(w) \/ Upload(w) \/ GenerationFails(w) \/ Commit(w) \/ \E r \in ReportIds : Take(w, r)

Next ==
  \/ Edit
  \/ \E r \in ReportIds : TriggerGeneration(r) \/ TriggerFails(r) \/ Redeliver(r)
  \/ \E w \in Workers : Progress(w) \/ TaskDies(w)

Spec == Init /\ [][Next]_vars

FairSpec ==
  /\ Spec
  /\ \A r \in ReportIds : WF_vars(hpc[r] # "none" /\ TriggerGeneration(r))
  /\ \A w \in Workers : WF_vars(Progress(w))

-----------------------------------------------------------------------------
\* A row's path is null or leads to its own PDF.
TypeOK ==
  /\ version \in Contents
  /\ reports \in [ReportIds -> Rows \cup {None}]
  /\ \A r \in ReportIds : reports[r] # None => reports[r].storage_path \in {None, r}
  /\ objects \in [Keys -> Contents \cup {None}]
  /\ requested \in [ReportIds -> Contents \cup {None}]
  /\ hpc \in [ReportIds -> {"none", "committed", "done"}]
  /\ queue \in [ReportIds -> 0..2]
  /\ redelivered \subseteq ReportIds
  /\ pool \in Pools
  /\ wpc \in [Workers -> {"idle", "read", "build", "ready", "failed"}]
  /\ job \in [Workers -> ReportIds \cup {None}]
  /\ loaded \in [Workers -> Rows \cup {None}]
  /\ \A w \in Workers : /\ bundle[w] \in Seq(0..MaxEdits) /\ Len(bundle[w]) <= Len(Parts)
                        /\ job[w] = None <=> wpc[w] = "idle"

\* get_report: the PDF behind the link, when there is one.
Download(r) ==
  IF reports[r] # None /\ reports[r].status = "READY" /\ reports[r].storage_path # None
  THEN objects[reports[r].storage_path] ELSE None

\* A READY report can be downloaded, and no part of it is older than its request,
\* whatever repeated, failed or overlapping tasks have written to the row.
ReadyIsCurrent ==
  \A r \in ReportIds : reports[r] # None /\ reports[r].status = "READY" =>
    /\ Download(r) # None
    /\ \A p \in Range(Parts) : Download(r)[p] >= requested[r][p]

\* What a report shows never changes, however many others are generated (unless its
\* own message is repeated): "a report history rather than a single mutable slot".
HistoryKept ==
  [][\A r \in ReportIds : Download(r) # None /\ r \notin redelivered' => Download(r)' = Download(r)]_vars

\* Without crashes and database errors every requested report becomes READY or FAILED,
\* also when its PDF cannot be built or stored.
ReportSettles ==
  [](faults = 0) => \A r \in ReportIds :
    hpc[r] # "none" ~> reports[r] # None /\ reports[r].status # "GENERATING"
=============================================================================
