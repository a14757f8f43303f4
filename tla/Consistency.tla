----------------------------- MODULE Consistency -----------------------------
(***************************************************************************)
(* Cross-document consistency of one shipment: the Celery task             *)
(* check_shipment_consistency (services/consistency_service.py) re-derives *)
(* the discrepancy rows from whatever documents are settled, and users     *)
(* acknowledge rows over HTTP (services/discrepancy_service.py) meanwhile. *)
(*                                                                         *)
(* A check is one transaction at READ COMMITTED: it reads the documents,   *)
(* then the rows, and writes when it commits.  Its writes and its commit   *)
(* are one step: nothing reads in between, and the wait for a row lock     *)
(* only delays it.  (Two checks that wait for each other's rows are        *)
(* resolved by PostgreSQL aborting one: CheckFails.)                       *)
(*                                                                         *)
(* Documents settle as DocumentPipeline says; the order in which a SELECT  *)
(* without ORDER BY returns rows is arbitrary.                             *)
(***************************************************************************)
EXTENDS Naturals, FiniteSets, Sequences

CONSTANTS
  Docs, DocType,     \* documents and the doc_type of each
  Values, NoValue,   \* values of an extracted field, and "missing or unreadable"
  Similar,           \* pairs of names whose similarity ratio reaches the threshold
  Contents,          \* per document: the extracted_fields it may settle with
  NoDoc,             \* "no document of this type"
  Workers, Pools,    \* Celery workers, and the sets of them a deployment may run
  Handlers,          \* HTTP requests in progress at once
  MaxSettles,        \* bound on documents settling
  MaxCopies,         \* bound on rows of one field
  MaxFailures        \* bound on checks that fail

DocTypes == {"commercial_invoice", "packing_list", "bill_of_lading", "air_waybill"}

\* The fields compared: Discrepancy.field, the natural key of a row.
Fields == {"quantity", "seller_shipper_name", "buyer_consignee_name"}

ASSUME ConsistencyAssumption ==
  /\ DocType \in [Docs -> DocTypes]
  /\ Contents \in [Docs -> SUBSET [Fields -> Values \cup {NoValue}]]
  /\ IsFiniteSet(Workers) /\ Pools \subseteq SUBSET Workers
  /\ NoDoc \notin Docs /\ NoValue \notin Values
  /\ MaxSettles \in Nat /\ MaxFailures \in Nat /\ MaxCopies \in Nat

NotSettled == [settled |-> FALSE]
NoCandidate == [severity |-> "none"]
NoRow == [found |-> NoCandidate]
RowIds == Fields \X (1..MaxCopies)
NoId == <<"none", 0>>
NotLoaded == [id |-> NoId, row |-> NoRow]

VARIABLES
  content,   \* per document: its committed extracted_fields, or NotSettled
  rows,      \* discrepancies table, by row id
  unsent,    \* settling commits whose check message is not sent yet
  pending,   \* check_shipment_consistency messages waiting
  pool,      \* the workers that run
  wpc,       \* per worker: next step of its check
  found,     \* per worker: the candidates of its check
  loaded,    \* per worker: the row id it has loaded for each field, and its values
  hrow,      \* per handler: the row it is about to acknowledge
  settles, failures

vars == <<content, rows, unsent, pending, pool, wpc, found, loaded, hrow, settles, failures>>
table == <<content, rows>>
worker == <<pool, wpc, found, loaded>>

-----------------------------------------------------------------------------
(* The comparison rules.                                                   *)

Settled(d) == content[d] # NotSettled

\* The documents that a SELECT may return last among those of type t.
LastOf(t) ==
  LET ofType == {d \in Docs : DocType[d] = t /\ Settled(d)}
  IN  IF ofType = {} THEN {NoDoc} ELSE ofType

\* by_type: the last document of a type wins.
ByType ==
  [commercial_invoice : LastOf("commercial_invoice"), packing_list : LastOf("packing_list"),
   bill_of_lading : LastOf("bill_of_lading"), air_waybill : LastOf("air_waybill")]

\* The document compared with the invoice: the packing list for the quantity,
\* whichever transport document is present for the names.
Target(byType, field) ==
  IF field = "quantity" THEN byType["packing_list"]
  ELSE IF byType["bill_of_lading"] # NoDoc THEN byType["bill_of_lading"]
  ELSE byType["air_waybill"]

\* Quantities must be equal; names only similar.
Agree(field, a, b) == IF field = "quantity" THEN a = b ELSE <<a, b>> \in Similar

\* Mutant: a missing value counts as blocking.
SeverityStrict(field, a, b) == "blocking"

\* A missing value is a warning, never blocking; so is a name that differs.
Severity(field, a, b) ==
  IF field # "quantity" \/ a = NoValue \/ b = NoValue THEN "warning" ELSE "blocking"

\* The text of the row (its suggested resolution changes with it): which document
\* misses the value, or the two values that disagree.
Description(target, a, b) ==
  IF a = NoValue THEN <<"missing", "commercial_invoice">>
  ELSE IF b = NoValue THEN <<"missing", DocType[target]>>
  ELSE <<DocType[target], a, b>>

Candidate(byType, field) ==
  LET invoice == byType["commercial_invoice"]
      target == Target(byType, field)
      a == content[invoice][field]
      b == content[target][field]
  IN  IF invoice = NoDoc \/ target = NoDoc THEN NoCandidate
      ELSE IF a # NoValue /\ b # NoValue /\ Agree(field, a, b) THEN NoCandidate
      ELSE [severity |-> Severity(field, a, b),
            documents |-> <<invoice, target>>, description |-> Description(target, a, b)]

Candidates(byType) == [f \in Fields |-> Candidate(byType, f)]

-----------------------------------------------------------------------------
Init ==
  /\ content = [d \in Docs |-> NotSettled]
  /\ rows = [r \in RowIds |-> NoRow]
  /\ unsent = 0 /\ pending = 0
  /\ pool \in Pools
  /\ wpc = [w \in Workers |-> "idle"]
  /\ found = [w \in Workers |-> [f \in Fields |-> NoCandidate]]
  /\ loaded = [w \in Workers |-> [f \in Fields |-> NotLoaded]]
  /\ hrow = [h \in Handlers |-> NoId]
  /\ settles = 0 /\ failures = 0

\* An extraction or a correction commits (DocumentPipeline), new values included.
Settle(d) ==
  /\ settles < MaxSettles
  /\ \E c \in Contents[d] : content' = [content EXCEPT ![d] = c]
  /\ settles' = settles + 1
  /\ unsent' = unsent + 1
  /\ UNCHANGED <<rows, pending, worker, hrow, failures>>

\* Mutant: the message is not sent.
SendCheckNot ==
  /\ unsent > 0
  /\ unsent' = unsent - 1
  /\ UNCHANGED <<pending, table, worker, hrow, settles, failures>>

\* After the commit, never before it.
SendCheck ==
  /\ unsent > 0
  /\ unsent' = unsent - 1
  /\ pending' = pending + 1
  /\ UNCHANGED <<table, worker, hrow, settles, failures>>

TakeCheck(w) ==
  /\ w \in pool /\ wpc[w] = "idle" /\ pending > 0
  /\ pending' = pending - 1
  /\ wpc' = [wpc EXCEPT ![w] = "compare"]
  /\ UNCHANGED <<table, unsent, pool, found, loaded, hrow, settles, failures>>

\* check_shipment: read the settled documents and derive the candidates.
CheckShipment(w) ==
  /\ wpc[w] = "compare"
  /\ \E byType \in ByType : found' = [found EXCEPT ![w] = Candidates(byType)]
  /\ wpc' = [wpc EXCEPT ![w] = "load"]
  /\ UNCHANGED <<table, unsent, pending, pool, loaded, hrow, settles, failures>>

\* existing_by_field: one row per field, the last one returned if there are more.
LoadExisting(w) ==
  /\ wpc[w] = "load"
  /\ \E pick \in [Fields -> 0..MaxCopies] :
       /\ \A f \in Fields :
            LET copies == {n \in 1..MaxCopies : rows[<<f, n>>] # NoRow}
            IN  IF copies = {} THEN pick[f] = 0 ELSE pick[f] \in copies
       /\ loaded' = [loaded EXCEPT ![w] =
            [f \in Fields |-> IF pick[f] = 0 THEN NotLoaded
                              ELSE [id |-> <<f, pick[f]>>, row |-> rows[<<f, pick[f]>>]]]]
  /\ wpc' = [wpc EXCEPT ![w] = "reconcile"]
  /\ UNCHANGED <<table, unsent, pending, pool, found, hrow, settles, failures>>

EndCheck(w) ==
  /\ wpc' = [wpc EXCEPT ![w] = "idle"]
  /\ found' = [found EXCEPT ![w] = [f \in Fields |-> NoCandidate]]
  /\ loaded' = [loaded EXCEPT ![w] = [f \in Fields |-> NotLoaded]]
  /\ UNCHANGED pool

-----------------------------------------------------------------------------
(* _reconcile and the commit.                                              *)

\* Uuids that no row has and nobody remembers.
FreshIds(f) ==
  {r \in RowIds : /\ r[1] = f /\ rows[r] = NoRow
                  /\ \A w \in Workers : loaded[w][f].id # r
                  /\ \A h \in Handlers : hrow[h] # r}

FreshId(f) == CHOOSE r \in FreshIds(f) : TRUE

\* Mutants: the rule that found nothing is recorded too; the existing row is ignored.
InsertedAlways(w) == {f \in Fields : loaded[w][f].id = NoId}
InsertedAgain(w) == {f \in Fields : found[w][f] # NoCandidate}

Inserted(w) == {f \in Fields : found[w][f] # NoCandidate /\ loaded[w][f].id = NoId}
Deleted(w) == {f \in Fields : found[w][f] = NoCandidate /\ loaded[w][f].id # NoId}
\* SQLAlchemy emits an UPDATE only for a row with a changed column.
Updated(w) ==
  {f \in Fields : /\ found[w][f] # NoCandidate /\ loaded[w][f].id # NoId
                  /\ found[w][f] # loaded[w][f].row.found}

\* Only the columns that differ from the loaded ones are written, so what another
\* transaction wrote to the others since then stays.
WrittenOver(current, old, new) ==
  [column \in {"severity", "documents", "description"} |->
     IF new[column] = old[column] THEN current[column] ELSE new[column]]

\* Mutant: the acknowledgment is reset with the other columns.
UpdatedRowUnacknowledged(row, old, new) ==
  [found |-> WrittenOver(row.found, old, new), acknowledged |-> FALSE]

\* acknowledged is deliberately left untouched.
UpdatedRow(row, old, new) ==
  [found |-> WrittenOver(row.found, old, new), acknowledged |-> row.acknowledged]

\* Mutant: rows that no longer apply are left alone.
KeepAll(w) == {}

\* Rows whose field was not seen are removed.
Removed(w) == {loaded[w][f].id : f \in Deleted(w)}

Reconciled(w) ==
  [r \in RowIds |->
     LET f == r[1] IN
     IF f \in Inserted(w) /\ r = FreshId(f)
       THEN [found |-> found[w][f], acknowledged |-> FALSE]
     ELSE IF r \in Removed(w) THEN NoRow
     ELSE IF f \in Updated(w) /\ r = loaded[w][f].id
       THEN UpdatedRow(rows[r], loaded[w][f].row.found, found[w][f])
     ELSE rows[r]]

\* An UPDATE that matches no row any more raises StaleDataError.
UpdatesLostRow(w) == \E f \in Updated(w) : rows[loaded[w][f].id] = NoRow

Reconcile(w) ==
  /\ wpc[w] = "reconcile"
  /\ ~UpdatesLostRow(w)
  /\ \A f \in Inserted(w) : FreshIds(f) # {}   \* bound MaxCopies
  /\ rows' = Reconciled(w)
  /\ EndCheck(w)
  /\ UNCHANGED <<content, unsent, pending, hrow, settles, failures>>

\* The task fails, rolls back, and is not retried.
ReconcileStale(w) ==
  /\ wpc[w] = "reconcile"
  /\ UpdatesLostRow(w)
  /\ EndCheck(w)
  /\ UNCHANGED <<table, unsent, pending, hrow, settles, failures>>

CheckFails(w) ==
  /\ wpc[w] # "idle"
  /\ failures < MaxFailures
  /\ failures' = failures + 1
  /\ EndCheck(w)
  /\ UNCHANGED <<table, unsent, pending, hrow, settles>>

-----------------------------------------------------------------------------
(* POST .../discrepancies/{id}/acknowledge.                                *)

AcknowledgeRead(h, r) ==
  /\ hrow[h] = NoId
  /\ rows[r] # NoRow
  /\ hrow' = [hrow EXCEPT ![h] = r]
  /\ UNCHANGED <<table, unsent, pending, worker, settles, failures>>

\* Committed by get_db; if the row has gone, the UPDATE fails and so does the request.
AcknowledgeCommit(h) ==
  /\ hrow[h] # NoId
  /\ rows' = IF rows[hrow[h]] = NoRow THEN rows
             ELSE [rows EXCEPT ![hrow[h]].acknowledged = TRUE]
  /\ hrow' = [hrow EXCEPT ![h] = NoId]
  /\ UNCHANGED <<content, unsent, pending, worker, settles, failures>>

-----------------------------------------------------------------------------
Check(w) ==
  \/ TakeCheck(w) \/ CheckShipment(w) \/ LoadExisting(w)
  \/ Reconcile(w) \/ ReconcileStale(w)

Next ==
  \/ \E d \in Docs : Settle(d)
  \/ SendCheck
  \/ \E w \in Workers : Check(w) \/ CheckFails(w)
  \/ \E h \in Handlers, r \in RowIds : AcknowledgeRead(h, r)
  \/ \E h \in Handlers : AcknowledgeCommit(h)

Spec == Init /\ [][Next]_vars

\* Senders and workers keep running; users may do nothing.
FairSpec == Spec /\ WF_vars(SendCheck) /\ \A w \in Workers : WF_vars(Check(w))

-----------------------------------------------------------------------------
(* Properties.                                                             *)

CandidateRecord ==
  [severity : {"warning", "blocking"}, documents : Docs \X Docs,
   description : ({"missing"} \X DocTypes) \cup (DocTypes \X Values \X Values)]

TypeOK ==
  /\ \A d \in Docs : Settled(d) => content[d] \in Contents[d]
  /\ \A r \in RowIds : rows[r] = NoRow \/
       rows[r] \in [found : CandidateRecord, acknowledged : BOOLEAN]
  /\ unsent \in 0..MaxSettles /\ pending \in 0..MaxSettles
  /\ pool \in Pools
  /\ wpc \in [Workers -> {"idle", "compare", "load", "reconcile"}]
  /\ \A w \in Workers, f \in Fields :
       found[w][f] \in CandidateRecord \cup {NoCandidate} /\ loaded[w][f].id \in RowIds \cup {NoId}
  /\ hrow \in [Handlers -> RowIds \cup {NoId}]
  /\ settles \in 0..MaxSettles /\ failures \in 0..MaxFailures

RowsOf(f) == {r \in RowIds : r[1] = f /\ rows[r] # NoRow}

\* The model's own words: one row per comparison rule per shipment, updated in
\* place rather than duplicated.
OneRowPerField == \A f \in Fields : Cardinality(RowsOf(f)) <= 1

Solo == Cardinality(pool) = 1

\* So it is where checks run one after the other, failures included: a single worker.
OneRowPerFieldSolo == Solo => OneRowPerField

AtRest == unsent = 0 /\ pending = 0 /\ \A w \in Workers : wpc[w] = "idle"

\* The rows are what some reading of the settled documents gives, field by field.
RowsAgree ==
  \E byType \in ByType : \A f \in Fields :
    IF Candidate(byType, f) = NoCandidate THEN RowsOf(f) = {}
    ELSE \E r \in RowsOf(f) : RowsOf(f) = {r} /\ rows[r].found = Candidate(byType, f)

\* When the last message has been worked off, nothing is stale: every discrepancy
\* of the documents has its row, and a corrected one is gone (one worker).
RowsAgreeAtRest == Solo /\ AtRest /\ failures = 0 => RowsAgree

\* Re-evaluating a field never clears a user's acknowledgment: it goes only with
\* the discrepancy itself.
AcknowledgmentSurvives ==
  [][\A r \in RowIds :
       rows[r] # NoRow /\ rows'[r] # NoRow /\ rows[r].acknowledged =>
         rows'[r].acknowledged]_vars

\* A missing value is a warning, never blocking: a blocking discrepancy names two
\* different quantities.
Consistent(field, candidate) ==
  LET text == candidate.description IN
  candidate.severity = "blocking" => field = "quantity" /\ Len(text) = 3 /\ text[2] # text[3]

BlockingMeansQuantitiesDiffer ==
  \A r \in RowIds : rows[r] # NoRow => Consistent(r[1], rows[r].found)

\* So it is with one worker; two may each write a column of theirs.
BlockingMeansQuantitiesDifferSolo == Solo => BlockingMeansQuantitiesDiffer

\* With one worker and no failing check, the discrepancies eventually agree with the
\* documents for good.
RowsConverge == [](failures = 0) => <>[](Solo => RowsAgree)
=============================================================================
