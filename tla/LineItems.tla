------------------------------ MODULE LineItems ------------------------------
(***************************************************************************)
(* The line items of one shipment and their HS classification: the Celery  *)
(* task classify_shipment_from_document turns the invoice's extracted      *)
(* lines into line_items rows and classifies them in one transaction;      *)
(* reclassify_line_item runs the classification of one row again; users    *)
(* override a classification over HTTP.  Every change of a code is         *)
(* followed, after its commit, by the messages that re-run permit triage   *)
(* and origin determination.                                               *)
(*                                                                         *)
(* A worker's writes and its commit are one step (READ COMMITTED: nobody   *)
(* sees them before, and a row lock only delays them).  A message takes    *)
(* effect when a worker takes it, so the delay between a commit and its    *)
(* send_task is the time the message spends in the queue.                  *)
(***************************************************************************)
EXTENDS Naturals, FiniteSets, Sequences

CONSTANTS
  Invoices,          \* documents of type commercial_invoice
  Contents,          \* sequences of descriptions: extracted_fields.line_items
  Codes, NoCode,     \* HS codes, and null
  Verdicts,          \* what the language model may answer
  Workers, Pools,    \* Celery workers, and the sets of them a deployment may run
  Handlers,          \* HTTP override requests in progress
  MaxItems,          \* bound on line_items rows
  MaxSettles,        \* bound on invoices settling (extraction or correction)
  MaxRequests,       \* bound on reclassify and override requests
  MaxFailures        \* bound on processes that fail

\* What an extracted line says.
Descriptions == UNION {{c[k] : k \in DOMAIN c} : c \in Contents}

ASSUME LineItemsAssumption ==
  /\ \A c \in Contents : c \in Seq(Descriptions)
  /\ NoCode \notin Codes
  /\ IsFiniteSet(Workers) /\ Pools \subseteq SUBSET Workers
  /\ Verdicts \subseteq [code : Codes \cup {NoCode}, sure : BOOLEAN]
  /\ MaxItems \in Nat /\ MaxSettles \in Nat /\ MaxRequests \in Nat /\ MaxFailures \in Nat

Ids == 1..MaxItems
Nothing == <<>>   \* the empty table, batch or reading

VARIABLES
  invoices,     \* settled invoices: their committed line_items
  items,        \* line_items table: id -> the invoice and line it came from
  results,      \* classification_results table, by line_item_id (unique)
  classifyQ, reclassifyQ,  \* messages waiting, per invoice and per line item
  pool,         \* the workers that run
  wpc, job,     \* per worker: next step, and the invoice of its task
  removed, batch,  \* per worker: the rows it has deleted and inserted, uncommitted
  listed,       \* per worker: the line items it classifies
  loaded,       \* per worker: their classifications as it loaded them
  hpc, target, before,  \* per handler: next step of its override, the line item,
                        \* and the override column as it loaded it
  announced,    \* effective codes when triage and origin were last sent
  settles, requests, failures

tables == <<invoices, items, results>>
queues == <<classifyQ, reclassifyQ>>
worker == <<pool, wpc, job, removed, batch, listed, loaded>>
handler == <<hpc, target, before>>
bounds == <<settles, requests, failures>>
vars == <<tables, queues, worker, handler, announced, bounds>>

\* Mutant: the upsert does not look for the row.
LoadedBlindly(S) == Nothing

\* The classifications a SELECT for the line items in S returns.
Loaded(S) == [x \in DOMAIN results \cap S |-> results[x]]

\* effective_hs_code: the user's override wins over the suggestion.
EffectiveHsCode(result) ==
  IF result.override # NoCode THEN result.override ELSE result.code

EffectiveCodes == [x \in DOMAIN results |-> EffectiveHsCode(results[x])]

Init ==
  /\ invoices = Nothing /\ items = Nothing /\ results = Nothing
  /\ classifyQ = [i \in Invoices |-> 0]
  /\ reclassifyQ = [x \in Ids |-> 0]
  /\ pool \in Pools
  /\ wpc = [w \in Workers |-> "idle"] /\ job = [w \in Workers |-> "none"]
  /\ removed = [w \in Workers |-> {}] /\ batch = [w \in Workers |-> Nothing]
  /\ listed = [w \in Workers |-> {}]
  /\ loaded = [w \in Workers |-> Nothing]
  /\ hpc = [h \in Handlers |-> "idle"] /\ target = [h \in Handlers |-> 0]
  /\ before = [h \in Handlers |-> NoCode]
  /\ announced = Nothing
  /\ settles = 0 /\ requests = 0 /\ failures = 0

\* Mutant: nothing is sent.
SettleInvoiceOnly(i) ==
  /\ settles < MaxSettles
  /\ \E c \in Contents :
       invoices' = [j \in DOMAIN invoices \cup {i} |-> IF j = i THEN c ELSE invoices[j]]
  /\ settles' = settles + 1
  /\ UNCHANGED <<items, results, queues, worker, handler, announced, requests, failures>>

\* An extraction or a correction of an invoice commits and sends its message.
SettleInvoice(i) ==
  /\ settles < MaxSettles
  /\ \E c \in Contents :
       invoices' = [j \in DOMAIN invoices \cup {i} |-> IF j = i THEN c ELSE invoices[j]]
  /\ classifyQ' = [classifyQ EXCEPT ![i] = @ + 1]
  /\ settles' = settles + 1
  /\ UNCHANGED <<items, results, reclassifyQ, worker, handler, announced, requests, failures>>

-----------------------------------------------------------------------------
(* classify_shipment_from_document.                                        *)

\* The session is closed.
Flushed(w) ==
  /\ removed' = [removed EXCEPT ![w] = {}]
  /\ batch' = [batch EXCEPT ![w] = Nothing]
  /\ listed' = [listed EXCEPT ![w] = {}]
  /\ loaded' = [loaded EXCEPT ![w] = Nothing]

Idle(w) ==
  /\ wpc' = [wpc EXCEPT ![w] = "idle"]
  /\ job' = [job EXCEPT ![w] = "none"]
  /\ Flushed(w)

TakeClassify(w, i) ==
  /\ w \in pool /\ wpc[w] = "idle" /\ classifyQ[i] > 0
  /\ classifyQ' = [classifyQ EXCEPT ![i] = @ - 1]
  /\ wpc' = [wpc EXCEPT ![w] = "materialize"]
  /\ job' = [job EXCEPT ![w] = i]
  /\ UNCHANGED <<tables, reclassifyQ, removed, batch, listed, loaded, pool, handler, announced, bounds>>

\* Mutant: the foreign key cascades.
DeletableAlways == TRUE

\* The bulk DELETE of the shipment's line items fails on the foreign key of a
\* classification that refers to one of them.
Deletable == DOMAIN items \cap DOMAIN results = {}

\* Ids that no row and no transaction has.
Free == Ids \ (DOMAIN items \cup UNION {DOMAIN batch[w] : w \in Workers})

\* Mutant: the rows are added to those of an earlier extraction.
MaterializeMore(w) ==
  /\ wpc[w] = "materialize"
  /\ LET lines == invoices[job[w]]
         n == Len(lines)
     IN  /\ n > 0 /\ Cardinality(Free) >= n
         /\ \E id \in {f \in [1..n -> Free] : \A k, l \in 1..n : k < l => f[k] < f[l]} :
              batch' = [batch EXCEPT ![w] =
                [x \in {id[k] : k \in 1..n} |->
                   LET k == CHOOSE k \in 1..n : id[k] = x
                   IN  [invoice |-> job[w], line |-> k, description |-> lines[k]]]]
  /\ wpc' = [wpc EXCEPT ![w] = "list"]
  /\ UNCHANGED <<tables, queues, job, removed, listed, loaded, pool, handler, announced, bounds>>

\* replace_for_shipment: delete the committed rows, insert one per extracted line.
Materialize(w) ==
  /\ wpc[w] = "materialize" /\ Deletable
  /\ LET lines == invoices[job[w]]
         n == Len(lines)
     IN  /\ n > 0 /\ Cardinality(Free) >= n
         /\ \E id \in {f \in [1..n -> Free] : \A k, l \in 1..n : k < l => f[k] < f[l]} :
              batch' = [batch EXCEPT ![w] =
                [x \in {id[k] : k \in 1..n} |->
                   LET k == CHOOSE k \in 1..n : id[k] = x
                   IN  [invoice |-> job[w], line |-> k, description |-> lines[k]]]]
  /\ removed' = [removed EXCEPT ![w] = DOMAIN items]
  /\ wpc' = [wpc EXCEPT ![w] = "list"]
  /\ UNCHANGED <<tables, queues, job, listed, loaded, pool, handler, announced, bounds>>

\* No lines: the (vacuous) DELETE commits and nothing is chained.
MaterializeNothing(w) ==
  /\ wpc[w] = "materialize" /\ Deletable /\ invoices[job[w]] = Nothing
  /\ Idle(w)
  /\ UNCHANGED <<tables, queues, pool, handler, announced, bounds>>

\* IntegrityError: rolled back, not retried, nothing chained.
MaterializeFails(w) ==
  /\ wpc[w] = "materialize" /\ ~Deletable
  /\ Idle(w)
  /\ UNCHANGED <<tables, queues, pool, handler, announced, bounds>>

\* classify_shipment lists every line item it can see, its own included, and loads
\* their classifications before it asks the language model.
ListLineItems(w) ==
  /\ wpc[w] = "list"
  /\ listed' = [listed EXCEPT ![w] = (DOMAIN items \ removed[w]) \cup DOMAIN batch[w]]
  /\ loaded' = [loaded EXCEPT ![w] = Loaded(Ids \ removed[w])]
  /\ wpc' = [wpc EXCEPT ![w] = "write"]
  /\ UNCHANGED <<tables, queues, job, removed, batch, pool, handler, announced, bounds>>

\* reclassify_line_item: the same for one line item.
TakeReclassify(w, x) ==
  /\ w \in pool /\ wpc[w] = "idle" /\ reclassifyQ[x] > 0 /\ x \in DOMAIN items
  /\ reclassifyQ' = [reclassifyQ EXCEPT ![x] = @ - 1]
  /\ listed' = [listed EXCEPT ![w] = {x}]
  /\ loaded' = [loaded EXCEPT ![w] = Loaded({x})]
  /\ wpc' = [wpc EXCEPT ![w] = "write"]
  /\ UNCHANGED <<tables, classifyQ, job, removed, batch, pool, handler, announced, bounds>>

-----------------------------------------------------------------------------
(* ClassificationService.classify and the upsert.                          *)

\* Mutant: only a low confidence asks for a review.
ReviewIfUnsure(verdict) == ~verdict.sure

RequiresManualReview(verdict) == verdict.code = NoCode \/ ~verdict.sure

NewResult(verdict) ==
  [code |-> verdict.code, sure |-> verdict.sure,
   review |-> RequiresManualReview(verdict), override |-> NoCode]

\* Mutant: a fresh classification replaces the whole row.
UpsertedAfresh(current, old, verdict) == NewResult(verdict)

\* Only the columns that differ from the loaded ones are written; the override
\* columns never.
Upserted(current, old, verdict) ==
  [column \in DOMAIN current |->
     IF column = "override" \/ NewResult(verdict)[column] = old[column]
     THEN current[column] ELSE NewResult(verdict)[column]]

ItemsWritten(w) ==
  [x \in (DOMAIN items \ removed[w]) \cup DOMAIN batch[w] |->
     IF x \in DOMAIN batch[w] THEN batch[w][x] ELSE items[x]]

\* Mutant: the line items are committed before they are classified.
ResultsNotYet(w, verdict) == results

ResultsWritten(w, verdict) ==
  [x \in (DOMAIN results \ removed[w]) \cup listed[w] |->
     IF x \notin listed[w] THEN results[x]
     ELSE IF x \in DOMAIN loaded[w] THEN Upserted(results[x], loaded[w][x], verdict[x])
     ELSE NewResult(verdict[x])]

Write(w) ==
  /\ wpc[w] = "write"
  /\ items' = ItemsWritten(w)
  /\ \E verdict \in [listed[w] -> Verdicts] : results' = ResultsWritten(w, verdict)
  /\ wpc' = [wpc EXCEPT ![w] = "send"]
  /\ Flushed(w)
  /\ UNCHANGED <<invoices, queues, job, pool, handler, announced, bounds>>

\* triage_shipment_permits and determine_shipment_origin, after the commit; a
\* failure between the two is not told apart from one before both.
Send(w) ==
  /\ wpc[w] = "send"
  /\ announced' = EffectiveCodes
  /\ Idle(w)
  /\ UNCHANGED <<tables, queues, pool, handler, bounds>>

\* A task or its worker fails: its transaction is rolled back, its message is lost.
WorkerFails(w) ==
  /\ wpc[w] # "idle" /\ failures < MaxFailures
  /\ failures' = failures + 1
  /\ Idle(w)
  /\ UNCHANGED <<tables, queues, pool, handler, announced, settles, requests>>

-----------------------------------------------------------------------------
(* LineItemService.                                                        *)

\* Mutant: the line item is not looked up.
TriggerReclassifyAny(x) ==
  /\ requests < MaxRequests
  /\ requests' = requests + 1
  /\ reclassifyQ' = [reclassifyQ EXCEPT ![x] = @ + 1]
  /\ UNCHANGED <<tables, classifyQ, worker, handler, announced, settles, failures>>

\* trigger_reclassify: the line item must exist (404 otherwise).
TriggerReclassify(x) ==
  /\ requests < MaxRequests /\ x \in DOMAIN items
  /\ requests' = requests + 1
  /\ reclassifyQ' = [reclassifyQ EXCEPT ![x] = @ + 1]
  /\ UNCHANGED <<tables, classifyQ, worker, handler, announced, settles, failures>>

Done(h) ==
  /\ hpc' = [hpc EXCEPT ![h] = "idle"]
  /\ target' = [target EXCEPT ![h] = 0]
  /\ before' = [before EXCEPT ![h] = NoCode]

\* override_classification: the line item must be classified (409 otherwise).
OverrideRead(h, x) ==
  /\ hpc[h] = "idle" /\ requests < MaxRequests
  /\ x \in DOMAIN items /\ x \in DOMAIN results
  /\ requests' = requests + 1
  /\ hpc' = [hpc EXCEPT ![h] = "commit"]
  /\ target' = [target EXCEPT ![h] = x]
  /\ before' = [before EXCEPT ![h] = results[x].override]
  /\ UNCHANGED <<tables, queues, worker, announced, settles, failures>>

\* An UPDATE of the override column, none if it had that value when loaded.
Overridden(h, code) ==
  IF code = before[h] THEN results ELSE [results EXCEPT ![target[h]].override = code]

\* Mutant: nothing is sent.
OverrideCommitOnly(h) ==
  /\ hpc[h] = "commit" /\ target[h] \in DOMAIN results
  /\ \E code \in Codes : results' = Overridden(h, code)
  /\ Done(h)
  /\ UNCHANGED <<invoices, items, queues, worker, announced, bounds>>

OverrideCommit(h) ==
  /\ hpc[h] = "commit" /\ target[h] \in DOMAIN results
  /\ \E code \in Codes : results' = Overridden(h, code)
  /\ hpc' = [hpc EXCEPT ![h] = "send"]
  /\ UNCHANGED <<invoices, items, target, before, queues, worker, announced, bounds>>

OverrideSend(h) ==
  /\ hpc[h] = "send"
  /\ announced' = EffectiveCodes
  /\ Done(h)
  /\ UNCHANGED <<tables, queues, worker, bounds>>

HandlerFails(h) ==
  /\ hpc[h] # "idle" /\ failures < MaxFailures
  /\ failures' = failures + 1
  /\ Done(h)
  /\ UNCHANGED <<tables, queues, worker, announced, settles, requests>>

-----------------------------------------------------------------------------
Task(w) ==
  \/ \E i \in Invoices : TakeClassify(w, i)
  \/ \E x \in Ids : TakeReclassify(w, x)
  \/ Materialize(w) \/ MaterializeNothing(w) \/ MaterializeFails(w)
  \/ ListLineItems(w) \/ Write(w) \/ Send(w)

Request(h) == OverrideCommit(h) \/ OverrideSend(h)

Next ==
  \/ \E i \in Invoices : SettleInvoice(i)
  \/ \E x \in Ids : TriggerReclassify(x)
  \/ \E w \in Workers : Task(w) \/ WorkerFails(w)
  \/ \E h \in Handlers : Request(h) \/ HandlerFails(h) \/ \E x \in Ids : OverrideRead(h, x)

Spec == Init /\ [][Next]_vars

\* Workers keep taking and finishing tasks; users and failures may stay away.
FairSpec == Spec /\ \A w \in Workers : WF_vars(Task(w))

-----------------------------------------------------------------------------
(* Properties.                                                             *)

Item == [invoice : Invoices, line : Nat, description : Descriptions]
Result == [code : Codes \cup {NoCode}, sure : BOOLEAN, review : BOOLEAN,
           override : Codes \cup {NoCode}]

\* Every message to reclassify is about a row that is still there.
TypeOK ==
  /\ DOMAIN invoices \subseteq Invoices /\ invoices \in [DOMAIN invoices -> Contents]
  /\ DOMAIN items \subseteq Ids /\ items \in [DOMAIN items -> Item]
  /\ DOMAIN results \subseteq Ids /\ results \in [DOMAIN results -> Result]
  /\ classifyQ \in [Invoices -> 0..MaxSettles]
  /\ reclassifyQ \in [Ids -> 0..MaxRequests]
  /\ \A x \in Ids : reclassifyQ[x] > 0 => x \in DOMAIN items
  /\ pool \in Pools
  /\ wpc \in [Workers -> {"idle", "materialize", "list", "write", "send"}]
  /\ job \in [Workers -> Invoices \cup {"none"}]
  /\ \A w \in Workers :
       /\ DOMAIN batch[w] \subseteq Ids /\ batch[w] \in [DOMAIN batch[w] -> Item]
       /\ listed[w] \subseteq Ids /\ removed[w] \subseteq Ids
       /\ loaded[w] \in [DOMAIN loaded[w] -> Result] /\ DOMAIN loaded[w] \subseteq listed[w]
  /\ hpc \in [Handlers -> {"idle", "commit", "send"}]
  /\ target \in [Handlers -> Ids \cup {0}] /\ before \in [Handlers -> Codes \cup {NoCode}]
  /\ announced \in [DOMAIN announced -> Codes \cup {NoCode}]
  /\ settles \in 0..MaxSettles /\ requests \in 0..MaxRequests /\ failures \in 0..MaxFailures

\* Nobody ever sees a line item without its classification, whatever fails in
\* between: items and results are committed together.
LineItemsAreClassified == DOMAIN items = DOMAIN results

\* An upsert that loaded no row finds none when it inserts: the unique constraint
\* on line_item_id is never what stops a task.
UpsertNeverCollides ==
  \A w \in Workers : wpc[w] = "write" => (listed[w] \ DOMAIN loaded[w]) \cap DOMAIN results = {}

\* A user's override outlives every classification and every new extraction; only
\* another override replaces it.
OverrideSurvives ==
  [][\A x \in DOMAIN results :
       results[x].override # NoCode =>
         /\ x \in DOMAIN results'
         /\ results'[x].override # results[x].override =>
              \E h \in Handlers : target[h] = x /\ hpc[h] = "commit" /\ hpc'[h] # "commit"]_vars

Solo == Cardinality(pool) = 1

\* Each line of an invoice gives one line item, however often it is extracted (one
\* worker; two materialize the same invoice twice).
NoDuplicateLineItems ==
  Solo =>
    \A x, y \in DOMAIN items :
      items[x].invoice = items[y].invoice /\ items[x].line = items[y].line => x = y

\* A classification is trusted only with a code and enough confidence (one worker; two
\* classifying one line item may each leave a column of theirs, a sure null code).
ReviewedUnlessSure ==
  Solo => \A x \in DOMAIN results :
    ~results[x].review => results[x].sure /\ results[x].code # NoCode

AtRest ==
  /\ \A i \in Invoices : classifyQ[i] = 0
  /\ \A x \in Ids : reclassifyQ[x] = 0
  /\ \A w \in Workers : wpc[w] = "idle"
  /\ \A h \in Handlers : hpc[h] = "idle"

\* Without failures, triage and origin were sent after the last change of any code.
ChangesAnnounced == AtRest /\ failures = 0 => announced = EffectiveCodes

\* Re-extraction replaces the line items: at rest they are those of an invoice as it
\* is now.
LineItemsFollowInvoice ==
  AtRest /\ failures = 0 =>
    \A x \in DOMAIN items :
      LET i == items[x].invoice IN
      /\ items[x].line \in 1..Len(invoices[i])
      /\ invoices[i][items[x].line] = items[x].description

\* If no process fails, an invoice that keeps its lines gets the shipment classified
\* line items.
InvoiceIsClassified ==
  \A i \in Invoices :
    [](failures = 0) /\ <>[](i \in DOMAIN invoices /\ invoices[i] # Nothing) => <>[](DOMAIN results # {})
=============================================================================
