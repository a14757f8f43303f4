--------------------------- MODULE LineItemsProofs ---------------------------
(***************************************************************************)
(* Proofs about LineItems for any invoices, line items and codes, any      *)
(* number of workers and requests, and any failures.                       *)
(***************************************************************************)
EXTENDS LineItems, FiniteSetTheorems, TLAPS

-----------------------------------------------------------------------------
(* The inductive invariant.                                                *)

TableTypes ==
  /\ DOMAIN invoices \subseteq Invoices /\ invoices \in [DOMAIN invoices -> Contents]
  /\ DOMAIN items \subseteq Ids /\ items \in [DOMAIN items -> Item]
  /\ results \in [DOMAIN results -> Result]
  /\ announced \in [DOMAIN announced -> Codes \cup {NoCode}]

QueueTypes ==
  /\ classifyQ \in [Invoices -> Nat] /\ \A i \in Invoices : classifyQ[i] <= settles
  /\ reclassifyQ \in [Ids -> Nat] /\ \A x \in Ids : reclassifyQ[x] <= requests
  /\ settles \in 0..MaxSettles /\ requests \in 0..MaxRequests /\ failures \in 0..MaxFailures
  /\ \A i \in Invoices : classifyQ[i] > 0 => i \in DOMAIN invoices

WorkerTypes ==
  /\ pool \in Pools
  /\ wpc \in [Workers -> {"idle", "materialize", "list", "write", "send"}]
  /\ job \in [Workers -> Invoices \cup {"none"}]
  /\ DOMAIN removed = Workers /\ DOMAIN batch = Workers
  /\ DOMAIN listed = Workers /\ DOMAIN loaded = Workers

HandlerTypes ==
  /\ hpc \in [Handlers -> {"idle", "commit", "send"}]
  /\ target \in [Handlers -> Ids \cup {0}] /\ before \in [Handlers -> Codes \cup {NoCode}]

\* A task deletes nothing, because every line item has a classification, and keeps its new
\* rows under ids of their own; what it classifies without having loaded a classification
\* are these rows.
TaskOf(w) ==
  /\ removed[w] = {}
  /\ batch[w] \in [DOMAIN batch[w] -> Item] /\ DOMAIN batch[w] \subseteq Ids
  /\ loaded[w] \in [DOMAIN loaded[w] -> Result]
  /\ wpc[w] # "idle" => w \in pool
  /\ wpc[w] = "materialize" => job[w] \in DOMAIN invoices
  /\ wpc[w] \notin {"list", "write"} => DOMAIN batch[w] = {}
  /\ wpc[w] # "write" => listed[w] = {} /\ DOMAIN loaded[w] = {}
  /\ DOMAIN batch[w] \cap DOMAIN items = {}
  /\ \A v \in Workers \ {w} : DOMAIN batch[w] \cap DOMAIN batch[v] = {}
  /\ wpc[w] = "write" =>
       /\ DOMAIN batch[w] \subseteq listed[w]
       /\ listed[w] \subseteq DOMAIN items \cup DOMAIN batch[w]
       /\ DOMAIN loaded[w] = listed[w] \ DOMAIN batch[w]

LineItemsInv ==
  /\ TableTypes /\ QueueTypes /\ WorkerTypes /\ HandlerTypes
  /\ LineItemsAreClassified
  /\ \A w \in Workers : TaskOf(w)

\* Until the announcement that follows every change, its process is on its way to it.
AnnouncedInv ==
  failures = 0 =>
    \/ announced = EffectiveCodes
    \/ \E w \in Workers : wpc[w] = "send"
    \/ \E h \in Handlers : hpc[h] = "send"

OneWorker == \A v, w \in pool : v = w

DistinctLines(table) ==
  \A x, y \in DOMAIN table :
    table[x].invoice = table[y].invoice /\ table[x].line = table[y].line => x = y

\* With one worker line items are materialized once, and its classifications are still
\* what it has loaded when it writes them, but for an override.
FirstBatch(w) == DOMAIN batch[w] # {} => DOMAIN items = {} /\ DistinctLines(batch[w])

Current(w) ==
  \A x \in DOMAIN loaded[w] :
    /\ x \in DOMAIN results
    /\ \A column \in {"code", "sure", "review"} : loaded[w][x][column] = results[x][column]

Trusted(result) == ~result.review => result.sure /\ result.code # NoCode

OneWorkerInv ==
  OneWorker =>
    /\ DistinctLines(items)
    /\ \A x \in DOMAIN results : Trusted(results[x])
    /\ \A w \in Workers : FirstBatch(w) /\ Current(w)

-----------------------------------------------------------------------------
(* Tasks that begin, go on and end.                                        *)

LEMMA NothingFacts ==
  /\ DOMAIN Nothing = {}
  /\ \A S : Nothing \in [DOMAIN Nothing -> S]
BY DEF Nothing

LEMMA InitLineItems == Init => LineItemsInv /\ AnnouncedInv /\ OneWorkerInv
<1> SUFFICES ASSUME Init PROVE LineItemsInv /\ AnnouncedInv /\ OneWorkerInv OBVIOUS
<1> USE LineItemsAssumption, NothingFacts
<1>1. TableTypes BY DEF Init, TableTypes
<1>2. QueueTypes BY DEF Init, QueueTypes
<1>3. WorkerTypes BY DEF Init, WorkerTypes
<1>4. HandlerTypes BY DEF Init, HandlerTypes
<1>5. \A w \in Workers : TaskOf(w) BY DEF Init, TaskOf
<1>6. EffectiveCodes = announced BY DEF Init, EffectiveCodes, Nothing
<1>7. OneWorkerInv BY DEF Init, OneWorkerInv, DistinctLines, FirstBatch, Current
<1> QED BY <1>1, <1>2, <1>3, <1>4, <1>5, <1>6, <1>7
        DEF LineItemsInv, AnnouncedInv, LineItemsAreClassified, Init

\* A worker is not disturbed by the steps of others, which add invoices and line items
\* with ids of their own.
LEMMA KeptTask ==
  ASSUME NEW v \in Workers, TaskOf(v), pool' = pool,
         removed'[v] = removed[v], batch'[v] = batch[v], listed'[v] = listed[v],
         loaded'[v] = loaded[v], wpc'[v] = wpc[v], job'[v] = job[v],
         DOMAIN invoices \subseteq DOMAIN invoices', DOMAIN items \subseteq DOMAIN items',
         DOMAIN batch[v] \cap DOMAIN items' = {},
         \A u \in Workers \ {v} : DOMAIN batch[v] \cap DOMAIN batch'[u] = {}
  PROVE  TaskOf(v)'
BY DEF TaskOf

\* A worker that has flushed or closed its session.
LEMMA FlushedTask ==
  ASSUME WorkerTypes, NEW w \in Workers, Flushed(w), wpc'[w] \in {"idle", "send"},
         pool' = pool, wpc'[w] # "idle" => w \in pool
  PROVE  /\ TaskOf(w)' /\ DOMAIN batch'[w] = {} /\ DOMAIN loaded'[w] = {}
         /\ DOMAIN removed' = Workers /\ DOMAIN batch' = Workers
         /\ DOMAIN listed' = Workers /\ DOMAIN loaded' = Workers
         /\ \A v \in Workers \ {w} : /\ removed'[v] = removed[v] /\ batch'[v] = batch[v]
                                     /\ listed'[v] = listed[v] /\ loaded'[v] = loaded[v]
<1>1. /\ removed'[w] = {} /\ batch'[w] = Nothing /\ listed'[w] = {} /\ loaded'[w] = Nothing
      /\ DOMAIN removed' = Workers /\ DOMAIN batch' = Workers
      /\ DOMAIN listed' = Workers /\ DOMAIN loaded' = Workers
      /\ \A v \in Workers \ {w} : /\ removed'[v] = removed[v] /\ batch'[v] = batch[v]
                                  /\ listed'[v] = listed[v] /\ loaded'[v] = loaded[v]
  BY DEF Flushed, WorkerTypes
<1>2. TaskOf(w)' BY <1>1, NothingFacts DEF TaskOf
<1> QED BY <1>1, <1>2, NothingFacts

LEMMA IdleInv ==
  ASSUME LineItemsInv, NEW w \in Workers, Idle(w), UNCHANGED <<tables, queues, pool, handler>>,
         UNCHANGED <<settles, requests>>, failures' \in 0..MaxFailures,
         announced' \in [DOMAIN announced' -> Codes \cup {NoCode}]
  PROVE  /\ LineItemsInv'
         /\ wpc'[w] = "idle" /\ DOMAIN batch'[w] = {} /\ DOMAIN loaded'[w] = {}
         /\ \A v \in Workers \ {w} : wpc'[v] = wpc[v] /\ batch'[v] = batch[v] /\ loaded'[v] = loaded[v]
<1> USE DEF LineItemsInv
<1>1. /\ wpc'[w] = "idle" /\ wpc' \in [Workers -> {"idle", "materialize", "list", "write", "send"}]
      /\ job' \in [Workers -> Invoices \cup {"none"}]
      /\ \A v \in Workers \ {w} : wpc'[v] = wpc[v] /\ job'[v] = job[v]
  BY DEF Idle, WorkerTypes
<1>2. /\ TaskOf(w)' /\ DOMAIN batch'[w] = {} /\ DOMAIN loaded'[w] = {}
      /\ DOMAIN removed' = Workers /\ DOMAIN batch' = Workers
      /\ DOMAIN listed' = Workers /\ DOMAIN loaded' = Workers
      /\ \A v \in Workers \ {w} : /\ removed'[v] = removed[v] /\ batch'[v] = batch[v]
                                  /\ listed'[v] = listed[v] /\ loaded'[v] = loaded[v]
  BY <1>1, FlushedTask DEF Idle
<1>3. UNCHANGED <<invoices, items, results, classifyQ, reclassifyQ, pool, hpc, target, before>>
  BY DEF tables, queues, handler
<1>4. ASSUME NEW v \in Workers \ {w} PROVE TaskOf(v)'
  <2>1. \A u \in Workers \ {v} : DOMAIN batch[v] \cap DOMAIN batch'[u] = {}
    BY <1>2 DEF TaskOf
  <2> QED BY <1>1, <1>2, <1>3, <2>1, KeptTask DEF TaskOf
<1>5. TableTypes' BY <1>3 DEF TableTypes
<1>6. QueueTypes' BY <1>3 DEF QueueTypes
<1>7. WorkerTypes' BY <1>1, <1>2, <1>3 DEF WorkerTypes
<1>8. HandlerTypes' BY <1>3 DEF HandlerTypes
<1> QED BY <1>1, <1>2, <1>3, <1>4, <1>5, <1>6, <1>7, <1>8 DEF LineItemsAreClassified

LEMMA EffectiveCodesType ==
  ASSUME TableTypes
  PROVE  /\ DOMAIN EffectiveCodes = DOMAIN results
         /\ EffectiveCodes \in [DOMAIN EffectiveCodes -> Codes \cup {NoCode}]
BY DEF TableTypes, EffectiveCodes, EffectiveHsCode, Result

\* What a new batch holds: one row per line of the task's invoice, under free ids, in a
\* table that is still empty.
LEMMA NewBatch ==
  ASSUME LineItemsInv, NEW w \in Workers, Materialize(w)
  PROVE  /\ DOMAIN items = {} /\ removed' = [removed EXCEPT ![w] = {}]
         /\ DOMAIN batch' = Workers /\ \A v \in Workers \ {w} : batch'[v] = batch[v]
         /\ DOMAIN batch'[w] \subseteq Free
         /\ batch'[w] \in [DOMAIN batch'[w] -> Item]
         /\ DistinctLines(batch'[w])
<1> USE DEF LineItemsInv
<1>1. DOMAIN items = {} BY DEF Materialize, Deletable, LineItemsAreClassified
<1>2. job[w] \in DOMAIN invoices /\ job[w] \in Invoices /\ invoices[job[w]] \in Contents
  BY DEF Materialize, TaskOf, TableTypes
<1> DEFINE lines == invoices[job[w]]
           n == Len(lines)
<1>3. lines \in Seq(Descriptions) BY <1>2, LineItemsAssumption
<1>5. \A k \in 1..n : lines[k] \in Descriptions BY <1>3
<1>6. PICK id \in [1..n -> Free] :
        batch' = [batch EXCEPT ![w] =
          [x \in {id[k] : k \in 1..n} |->
             LET k == CHOOSE k \in 1..n : id[k] = x
             IN  [invoice |-> job[w], line |-> k, description |-> lines[k]]]]
  BY DEF Materialize
<1> HIDE DEF lines, n
<1>4. n \in Nat BY <1>3 DEF n
<1> DEFINE S == {id[k] : k \in 1..n}
           place(x) == CHOOSE k \in 1..n : id[k] = x
<1>7. \A x \in S : place(x) \in 1..n /\ id[place(x)] = x OBVIOUS
<1> HIDE DEF place
<1>8. /\ DOMAIN batch' = Workers /\ \A v \in Workers \ {w} : batch'[v] = batch[v]
      /\ batch'[w] = [x \in S |-> [invoice |-> job[w], line |-> place(x), description |-> lines[place(x)]]]
  BY <1>6 DEF WorkerTypes, place
<1>9. S \subseteq Free BY <1>6
<1>10. batch'[w] \in [S -> Item] BY <1>2, <1>4, <1>5, <1>7, <1>8 DEF Item
<1>11. \A x, y \in S : batch'[w][x].line = batch'[w][y].line => x = y BY <1>7, <1>8
<1> HIDE DEF S
<1>12. DOMAIN batch'[w] = S BY <1>8
<1> QED BY <1>1, <1>8, <1>9, <1>10, <1>11, <1>12 DEF Materialize, DistinctLines

-----------------------------------------------------------------------------
(* The steps of a worker.                                                  *)

LEMMA TakeClassifyInv ==
  ASSUME LineItemsInv, NEW w \in Workers, NEW i \in Invoices, TakeClassify(w, i)
  PROVE  LineItemsInv'
<1> USE DEF LineItemsInv
<1>1. /\ UNCHANGED <<invoices, items, results, reclassifyQ, removed, batch, listed, loaded, pool>>
      /\ UNCHANGED <<hpc, target, before, announced, settles, requests, failures>>
      /\ classifyQ' = [classifyQ EXCEPT ![i] = @ - 1] /\ classifyQ[i] > 0 /\ w \in pool
      /\ wpc[w] = "idle" /\ wpc' = [wpc EXCEPT ![w] = "materialize"] /\ job' = [job EXCEPT ![w] = i]
  BY DEF TakeClassify, tables, handler, bounds
<1>2. /\ wpc' \in [Workers -> {"idle", "materialize", "list", "write", "send"}]
      /\ job' \in [Workers -> Invoices \cup {"none"}] /\ wpc'[w] = "materialize" /\ job'[w] = i
      /\ \A v \in Workers \ {w} : wpc'[v] = wpc[v] /\ job'[v] = job[v]
  BY <1>1 DEF WorkerTypes
<1>3. QueueTypes'
  <2>1. classifyQ \in [Invoices -> Nat] /\ settles \in Nat BY LineItemsAssumption DEF QueueTypes
  <2>2. classifyQ' \in [Invoices -> Nat] /\ \A j \in Invoices : classifyQ'[j] <= classifyQ[j]
    BY <1>1, <2>1
  <2>3. \A j \in Invoices : classifyQ'[j] <= settles BY <2>1, <2>2 DEF QueueTypes
  <2>4. \A j \in Invoices : classifyQ'[j] > 0 => classifyQ[j] > 0 BY <2>1, <2>2
  <2> QED BY <1>1, <2>2, <2>3, <2>4 DEF QueueTypes
<1>4. i \in DOMAIN invoices BY <1>1 DEF QueueTypes
<1>5. TaskOf(w)' BY <1>1, <1>2, <1>4 DEF TaskOf
<1>6. \A v \in Workers \ {w} : TaskOf(v)' BY <1>1, <1>2 DEF TaskOf
<1> QED BY <1>1, <1>2, <1>3, <1>5, <1>6
        DEF TableTypes, WorkerTypes, HandlerTypes, LineItemsAreClassified

LEMMA TakeReclassifyInv ==
  ASSUME LineItemsInv, NEW w \in Workers, NEW x \in Ids, TakeReclassify(w, x)
  PROVE  LineItemsInv'
<1> USE DEF LineItemsInv
<1>1. /\ UNCHANGED <<invoices, items, results, classifyQ, removed, batch, job, pool>>
      /\ UNCHANGED <<hpc, target, before, announced, settles, requests, failures>>
      /\ reclassifyQ' = [reclassifyQ EXCEPT ![x] = @ - 1] /\ reclassifyQ[x] > 0 /\ w \in pool
      /\ x \in DOMAIN items /\ wpc[w] = "idle" /\ wpc' = [wpc EXCEPT ![w] = "write"]
      /\ listed' = [listed EXCEPT ![w] = {x}] /\ loaded' = [loaded EXCEPT ![w] = Loaded({x})]
  BY DEF TakeReclassify, tables, handler, bounds
<1>2. /\ wpc' \in [Workers -> {"idle", "materialize", "list", "write", "send"}]
      /\ wpc'[w] = "write" /\ listed'[w] = {x} /\ loaded'[w] = Loaded({x})
      /\ DOMAIN listed' = Workers /\ DOMAIN loaded' = Workers
      /\ \A v \in Workers \ {w} : wpc'[v] = wpc[v] /\ listed'[v] = listed[v] /\ loaded'[v] = loaded[v]
  BY <1>1 DEF WorkerTypes
<1>3. QueueTypes'
  <2>1. reclassifyQ \in [Ids -> Nat] /\ requests \in Nat BY LineItemsAssumption DEF QueueTypes
  <2>2. reclassifyQ' \in [Ids -> Nat] /\ \A y \in Ids : reclassifyQ'[y] <= reclassifyQ[y]
    BY <1>1, <2>1
  <2>3. \A y \in Ids : reclassifyQ'[y] <= requests BY <2>1, <2>2 DEF QueueTypes
  <2> QED BY <1>1, <2>2, <2>3 DEF QueueTypes
<1>4. x \in DOMAIN results BY <1>1 DEF LineItemsAreClassified
<1>5. DOMAIN loaded'[w] = {x} /\ loaded'[w] \in [DOMAIN loaded'[w] -> Result]
  BY <1>2, <1>4 DEF Loaded, TableTypes
<1>6. TaskOf(w)' BY <1>1, <1>2, <1>5 DEF TaskOf
<1>7. \A v \in Workers \ {w} : TaskOf(v)' BY <1>1, <1>2 DEF TaskOf
<1> QED BY <1>1, <1>2, <1>3, <1>6, <1>7
        DEF TableTypes, WorkerTypes, HandlerTypes, LineItemsAreClassified

LEMMA MaterializeInv ==
  ASSUME LineItemsInv, NEW w \in Workers, Materialize(w)
  PROVE  LineItemsInv'
<1> USE DEF LineItemsInv
<1>1. /\ DOMAIN items = {} /\ removed' = [removed EXCEPT ![w] = {}]
      /\ DOMAIN batch' = Workers /\ \A v \in Workers \ {w} : batch'[v] = batch[v]
      /\ DOMAIN batch'[w] \subseteq Free /\ batch'[w] \in [DOMAIN batch'[w] -> Item]
  BY NewBatch
<1>2. /\ UNCHANGED <<invoices, items, results, classifyQ, reclassifyQ, listed, loaded, job, pool>>
      /\ UNCHANGED <<hpc, target, before, announced, settles, requests, failures>>
      /\ wpc[w] = "materialize" /\ wpc' = [wpc EXCEPT ![w] = "list"]
  BY DEF Materialize, tables, queues, handler, bounds
<1>3. /\ wpc' \in [Workers -> {"idle", "materialize", "list", "write", "send"}] /\ wpc'[w] = "list"
      /\ DOMAIN removed' = Workers /\ removed'[w] = {}
      /\ \A v \in Workers \ {w} : wpc'[v] = wpc[v] /\ removed'[v] = removed[v]
  BY <1>1, <1>2 DEF WorkerTypes
<1>4. \A v \in Workers : DOMAIN batch[v] \cap DOMAIN batch'[w] = {} BY <1>1 DEF Free
<1>5. TaskOf(w)' BY <1>1, <1>2, <1>3, <1>4 DEF TaskOf, Free
<1>6. ASSUME NEW v \in Workers \ {w} PROVE TaskOf(v)'
  <2>1. \A u \in Workers \ {v} : DOMAIN batch[v] \cap DOMAIN batch'[u] = {}
    BY <1>1, <1>4 DEF TaskOf
  <2> QED BY <1>1, <1>2, <1>3, <2>1, KeptTask DEF TaskOf
<1> QED BY <1>1, <1>2, <1>3, <1>5, <1>6
        DEF TableTypes, QueueTypes, WorkerTypes, HandlerTypes, LineItemsAreClassified

LEMMA ListLineItemsInv ==
  ASSUME LineItemsInv, NEW w \in Workers, ListLineItems(w)
  PROVE  LineItemsInv'
<1> USE DEF LineItemsInv
<1>1. /\ UNCHANGED <<invoices, items, results, classifyQ, reclassifyQ, removed, batch, job, pool>>
      /\ UNCHANGED <<hpc, target, before, announced, settles, requests, failures>>
      /\ wpc[w] = "list" /\ wpc' = [wpc EXCEPT ![w] = "write"] /\ removed[w] = {}
      /\ listed' = [listed EXCEPT ![w] = (DOMAIN items \ removed[w]) \cup DOMAIN batch[w]]
      /\ loaded' = [loaded EXCEPT ![w] = Loaded(Ids \ removed[w])]
  BY DEF ListLineItems, TaskOf, tables, queues, handler, bounds
<1>2. /\ wpc' \in [Workers -> {"idle", "materialize", "list", "write", "send"}] /\ wpc'[w] = "write"
      /\ listed'[w] = DOMAIN items \cup DOMAIN batch[w] /\ loaded'[w] = Loaded(Ids)
      /\ DOMAIN listed' = Workers /\ DOMAIN loaded' = Workers
      /\ \A v \in Workers \ {w} : wpc'[v] = wpc[v] /\ listed'[v] = listed[v] /\ loaded'[v] = loaded[v]
  <2>1. Ids \ removed[w] = Ids /\ DOMAIN items \ removed[w] = DOMAIN items BY <1>1
  <2> QED BY <1>1, <2>1 DEF WorkerTypes
<1>3. DOMAIN loaded'[w] = DOMAIN items /\ loaded'[w] \in [DOMAIN loaded'[w] -> Result]
  BY <1>2 DEF Loaded, TableTypes, LineItemsAreClassified
<1>4. TaskOf(w)' BY <1>1, <1>2, <1>3 DEF TaskOf
<1>5. \A v \in Workers \ {w} : TaskOf(v)' BY <1>1, <1>2 DEF TaskOf
<1> QED BY <1>1, <1>2, <1>4, <1>5
        DEF TableTypes, QueueTypes, WorkerTypes, HandlerTypes, LineItemsAreClassified

\* What a commit of classifications does to the tables.
LEMMA WriteEffect ==
  ASSUME LineItemsInv, NEW w \in Workers, NEW verdict \in [listed[w] -> Verdicts], wpc[w] = "write",
         items' = ItemsWritten(w), results' = ResultsWritten(w, verdict)
  PROVE  /\ DOMAIN items' = DOMAIN items \cup DOMAIN batch[w] /\ DOMAIN results' = DOMAIN items'
         /\ \A x \in DOMAIN items : items'[x] = items[x]
         /\ \A x \in DOMAIN batch[w] : x \notin DOMAIN items /\ items'[x] = batch[w][x]
         /\ \A x \in DOMAIN batch[w] : results'[x] = NewResult(verdict[x]) /\ verdict[x] \in Verdicts
         /\ \A x \in DOMAIN results :
              \/ x \notin listed[w] /\ results'[x] = results[x]
              \/ /\ x \in DOMAIN loaded[w] /\ verdict[x] \in Verdicts
                 /\ results'[x] = Upserted(results[x], loaded[w][x], verdict[x])
<1> USE DEF LineItemsInv
<1>1. /\ removed[w] = {} /\ DOMAIN batch[w] \cap DOMAIN items = {} /\ DOMAIN batch[w] \subseteq listed[w]
      /\ listed[w] \subseteq DOMAIN items \cup DOMAIN batch[w]
      /\ DOMAIN loaded[w] = listed[w] \ DOMAIN batch[w]
      /\ DOMAIN items = DOMAIN results
  BY DEF TaskOf, LineItemsAreClassified
<1>2. DOMAIN items' = DOMAIN items \cup DOMAIN batch[w] BY <1>1 DEF ItemsWritten
<1>3. DOMAIN results' = DOMAIN items \cup DOMAIN batch[w] BY <1>1 DEF ResultsWritten
<1>4. \A x \in DOMAIN items : items'[x] = items[x] BY <1>1, <1>2 DEF ItemsWritten
<1>5. \A x \in DOMAIN batch[w] : x \notin DOMAIN items /\ items'[x] = batch[w][x]
  BY <1>1, <1>2 DEF ItemsWritten
<1>6. \A x \in DOMAIN batch[w] : results'[x] = NewResult(verdict[x]) /\ verdict[x] \in Verdicts
  BY <1>1, <1>3 DEF ResultsWritten
<1>7. ASSUME NEW x \in DOMAIN results, x \notin listed[w] PROVE results'[x] = results[x]
  BY <1>1, <1>3, <1>7 DEF ResultsWritten
<1>8. ASSUME NEW x \in DOMAIN results, x \in listed[w]
      PROVE  /\ x \in DOMAIN loaded[w] /\ verdict[x] \in Verdicts
             /\ results'[x] = Upserted(results[x], loaded[w][x], verdict[x])
  BY <1>1, <1>3, <1>8 DEF ResultsWritten
<1> QED BY <1>2, <1>3, <1>4, <1>5, <1>6, <1>7, <1>8

LEMMA NewResultType ==
  ASSUME NEW verdict \in Verdicts
  PROVE  NewResult(verdict) \in Result
<1>1. verdict \in [code : Codes \cup {NoCode}, sure : BOOLEAN] BY LineItemsAssumption
<1>2. RequiresManualReview(verdict) \in BOOLEAN BY <1>1 DEF RequiresManualReview
<1> QED BY <1>1, <1>2 DEF NewResult, Result

\* An upsert writes columns of the new classification or leaves the current ones, and
\* always leaves the override.
LEMMA UpsertedColumns ==
  ASSUME NEW current \in Result, NEW old \in Result, NEW verdict \in Verdicts
  PROVE  LET new == Upserted(current, old, verdict) IN
         /\ new \in Result /\ new.override = current.override
         /\ \A column \in {"code", "sure", "review"} :
              new[column] = IF NewResult(verdict)[column] = old[column]
                            THEN current[column] ELSE NewResult(verdict)[column]
<1> DEFINE columns == {"code", "sure", "review", "override"}
           fresh == NewResult(verdict)
           new == Upserted(current, old, verdict)
<1>1. fresh \in Result BY NewResultType
<1> HIDE DEF fresh
<1>2. DOMAIN current = columns BY DEF Result
<1>3. new = [column \in columns |-> IF column = "override" \/ fresh[column] = old[column]
                                    THEN current[column] ELSE fresh[column]]
  BY <1>2 DEF Upserted, fresh
<1>4. /\ new["code"] \in Codes \cup {NoCode} /\ new["sure"] \in BOOLEAN
      /\ new["review"] \in BOOLEAN /\ new["override"] \in Codes \cup {NoCode}
  BY <1>1, <1>3 DEF Result
<1>5. new \in Result BY <1>3, <1>4 DEF Result
<1> QED BY <1>3, <1>5 DEF fresh

LEMMA WriteInv ==
  ASSUME LineItemsInv, NEW w \in Workers, Write(w)
  PROVE  LineItemsInv'
<1> USE DEF LineItemsInv
<1>1. PICK verdict \in [listed[w] -> Verdicts] : results' = ResultsWritten(w, verdict) BY DEF Write
<1>2. /\ UNCHANGED <<invoices, classifyQ, reclassifyQ, job, pool, hpc, target, before>>
      /\ UNCHANGED <<announced, settles, requests, failures>>
      /\ wpc[w] = "write" /\ wpc' = [wpc EXCEPT ![w] = "send"] /\ items' = ItemsWritten(w)
      /\ Flushed(w) /\ w \in pool
  BY DEF Write, TaskOf, queues, handler, bounds
<1>3. /\ wpc' \in [Workers -> {"idle", "materialize", "list", "write", "send"}] /\ wpc'[w] = "send"
      /\ \A v \in Workers \ {w} : wpc'[v] = wpc[v]
  BY <1>2 DEF WorkerTypes
<1>4. /\ TaskOf(w)' /\ DOMAIN batch'[w] = {}
      /\ DOMAIN removed' = Workers /\ DOMAIN batch' = Workers
      /\ DOMAIN listed' = Workers /\ DOMAIN loaded' = Workers
      /\ \A v \in Workers \ {w} : /\ removed'[v] = removed[v] /\ batch'[v] = batch[v]
                                  /\ listed'[v] = listed[v] /\ loaded'[v] = loaded[v]
  BY <1>2, <1>3, FlushedTask
<1>5. /\ DOMAIN items' = DOMAIN items \cup DOMAIN batch[w] /\ DOMAIN results' = DOMAIN items'
      /\ \A x \in DOMAIN items : items'[x] = items[x]
      /\ \A x \in DOMAIN batch[w] : items'[x] = batch[w][x]
      /\ \A x \in DOMAIN batch[w] : results'[x] = NewResult(verdict[x]) /\ verdict[x] \in Verdicts
      /\ \A x \in DOMAIN results :
           \/ results'[x] = results[x]
           \/ /\ x \in DOMAIN loaded[w] /\ verdict[x] \in Verdicts
              /\ results'[x] = Upserted(results[x], loaded[w][x], verdict[x])
  BY <1>1, <1>2, WriteEffect
<1>6. DOMAIN items = DOMAIN results /\ TaskOf(w) BY DEF LineItemsAreClassified
<1>7. items' \in [DOMAIN items' -> Item] /\ DOMAIN items' \subseteq Ids
  <2>1. \A x \in DOMAIN items' : items'[x] \in Item BY <1>5, <1>6 DEF TableTypes, TaskOf
  <2> QED BY <1>2, <1>5, <1>6, <2>1 DEF TableTypes, TaskOf, ItemsWritten
<1>8. results' \in [DOMAIN results' -> Result]
  <2>1. ASSUME NEW x \in DOMAIN results' PROVE results'[x] \in Result
    <3>1. CASE x \in DOMAIN batch[w] BY <1>5, <3>1, NewResultType
    <3>2. CASE x \in DOMAIN results
      <4>1. results[x] \in Result BY <3>2 DEF TableTypes
      <4>2. x \in DOMAIN loaded[w] => loaded[w][x] \in Result BY <1>6 DEF TaskOf
      <4> QED BY <1>5, <3>2, <4>1, <4>2, UpsertedColumns
    <3> QED BY <1>5, <1>6, <2>1, <3>1, <3>2
  <2> QED BY <1>1, <2>1 DEF ResultsWritten
<1>9. TableTypes' BY <1>2, <1>7, <1>8 DEF TableTypes
<1>10. ASSUME NEW v \in Workers \ {w} PROVE TaskOf(v)'
  <2>1. TaskOf(v) OBVIOUS
  <2>2. \A u \in Workers \ {v} : DOMAIN batch[v] \cap DOMAIN batch'[u] = {}
    BY <1>4, <2>1 DEF TaskOf
  <2>3. DOMAIN batch[v] \cap DOMAIN items' = {} BY <1>5, <2>1 DEF TaskOf
  <2> QED BY <1>2, <1>3, <1>4, <1>5, <2>1, <2>2, <2>3, KeptTask
<1> QED BY <1>2, <1>3, <1>4, <1>5, <1>9, <1>10
        DEF QueueTypes, WorkerTypes, HandlerTypes, LineItemsAreClassified

-----------------------------------------------------------------------------
(* The steps of users and of the invoices.                                 *)

LEMMA SettleInvoiceInv ==
  ASSUME LineItemsInv, NEW i \in Invoices, SettleInvoice(i)
  PROVE  LineItemsInv'
<1> USE DEF LineItemsInv
<1>1. PICK c \in Contents :
        invoices' = [j \in DOMAIN invoices \cup {i} |-> IF j = i THEN c ELSE invoices[j]]
  BY DEF SettleInvoice
<1>2. /\ UNCHANGED <<items, results, reclassifyQ, pool, wpc, job, removed, batch, listed, loaded>>
      /\ UNCHANGED <<hpc, target, before, announced, requests, failures>>
      /\ settles < MaxSettles /\ settles' = settles + 1 /\ classifyQ' = [classifyQ EXCEPT ![i] = @ + 1]
  BY DEF SettleInvoice, worker, handler
<1>3. TableTypes' BY <1>1, <1>2 DEF TableTypes
<1>4. QueueTypes'
  <2>1. classifyQ \in [Invoices -> Nat] /\ settles \in 0..MaxSettles /\ MaxSettles \in Nat
    BY LineItemsAssumption DEF QueueTypes
  <2>2. /\ classifyQ' \in [Invoices -> Nat] /\ settles' \in 0..MaxSettles
        /\ \A j \in Invoices : classifyQ'[j] <= classifyQ[j] + 1
        /\ \A j \in Invoices \ {i} : classifyQ'[j] = classifyQ[j]
    BY <1>2, <2>1
  <2>3. \A j \in Invoices : classifyQ'[j] <= settles' BY <1>2, <2>1, <2>2 DEF QueueTypes
  <2>4. \A j \in Invoices : classifyQ'[j] > 0 => j \in DOMAIN invoices'
    BY <1>1, <2>2 DEF QueueTypes
  <2> QED BY <1>2, <2>2, <2>3, <2>4 DEF QueueTypes
<1>5. \A w \in Workers : TaskOf(w)' BY <1>1, <1>2 DEF TaskOf
<1> QED BY <1>2, <1>3, <1>4, <1>5 DEF WorkerTypes, HandlerTypes, LineItemsAreClassified

LEMMA TriggerReclassifyInv ==
  ASSUME LineItemsInv, NEW x \in Ids, TriggerReclassify(x)
  PROVE  LineItemsInv'
<1> USE DEF LineItemsInv
<1>1. /\ UNCHANGED <<invoices, items, results, classifyQ, pool, wpc, job, removed, batch, listed, loaded>>
      /\ UNCHANGED <<hpc, target, before, announced, settles, failures>>
      /\ requests < MaxRequests /\ requests' = requests + 1
      /\ reclassifyQ' = [reclassifyQ EXCEPT ![x] = @ + 1]
  BY DEF TriggerReclassify, worker, handler, tables
<1>2. QueueTypes'
  <2>1. reclassifyQ \in [Ids -> Nat] /\ requests \in 0..MaxRequests /\ MaxRequests \in Nat
    BY LineItemsAssumption DEF QueueTypes
  <2>2. /\ reclassifyQ' \in [Ids -> Nat] /\ requests' \in 0..MaxRequests
        /\ \A y \in Ids : reclassifyQ'[y] <= reclassifyQ[y] + 1
    BY <1>1, <2>1
  <2>3. \A y \in Ids : reclassifyQ'[y] <= requests' BY <1>1, <2>1, <2>2 DEF QueueTypes
  <2> QED BY <1>1, <2>2, <2>3 DEF QueueTypes
<1>3. \A w \in Workers : TaskOf(w)' BY <1>1 DEF TaskOf
<1> QED BY <1>1, <1>2, <1>3 DEF TableTypes, WorkerTypes, HandlerTypes, LineItemsAreClassified

\* An override request leaves the workers, the invoices and the line items alone.
LEMMA HandlerInv ==
  ASSUME LineItemsInv, UNCHANGED <<invoices, items, queues, worker>>, settles' = settles,
         HandlerTypes', DOMAIN results' = DOMAIN results, results' \in [DOMAIN results' -> Result],
         announced' \in [DOMAIN announced' -> Codes \cup {NoCode}],
         requests' \in requests..MaxRequests, failures' \in 0..MaxFailures
  PROVE  LineItemsInv'
<1> USE DEF LineItemsInv
<1>1. UNCHANGED <<classifyQ, reclassifyQ, pool, wpc, job, removed, batch, listed, loaded>>
  BY DEF queues, worker
<1>2. QueueTypes'
  <2>1. reclassifyQ \in [Ids -> Nat] /\ requests \in 0..MaxRequests /\ MaxRequests \in Nat
    BY LineItemsAssumption DEF QueueTypes
  <2>2. requests' \in 0..MaxRequests /\ \A y \in Ids : reclassifyQ[y] <= requests'
    BY <2>1 DEF QueueTypes
  <2> QED BY <1>1, <2>2 DEF QueueTypes
<1>3. \A w \in Workers : TaskOf(w)' BY <1>1 DEF TaskOf
<1> QED BY <1>1, <1>2, <1>3 DEF TableTypes, WorkerTypes, LineItemsAreClassified

LEMMA OverrideReadInv ==
  ASSUME LineItemsInv, NEW h \in Handlers, NEW x \in Ids, OverrideRead(h, x)
  PROVE  LineItemsInv'
<1> USE DEF LineItemsInv
<1>1. HandlerTypes' BY DEF OverrideRead, HandlerTypes, TableTypes, Result
<1>2. requests \in 0..MaxRequests /\ MaxRequests \in Nat /\ requests < MaxRequests
      /\ requests' = requests + 1
  BY LineItemsAssumption DEF OverrideRead, QueueTypes
<1>3. requests' \in requests..MaxRequests BY <1>2
<1> QED BY <1>1, <1>3, HandlerInv DEF OverrideRead, tables, TableTypes, QueueTypes

\* The override of one line item, and nothing else, changes.
LEMMA OverrideEffect ==
  ASSUME LineItemsInv, NEW h \in Handlers, OverrideCommit(h)
  PROVE  /\ DOMAIN results' = DOMAIN results /\ results' \in [DOMAIN results' -> Result]
         /\ \A x \in DOMAIN results :
              /\ x # target[h] => results'[x] = results[x]
              /\ \A column \in {"code", "sure", "review"} : results'[x][column] = results[x][column]
<1>1. PICK code \in Codes : results' = Overridden(h, code) BY DEF OverrideCommit
<1>2. target[h] \in DOMAIN results /\ results \in [DOMAIN results -> Result]
  BY DEF OverrideCommit, LineItemsInv, TableTypes
<1>3. CASE results' = results BY <1>2, <1>3
<1>4. CASE results' = [results EXCEPT ![target[h]].override = code]
  BY <1>2, <1>4 DEF Result
<1> QED BY <1>1, <1>3, <1>4 DEF Overridden

LEMMA OverrideInv ==
  ASSUME LineItemsInv, NEW h \in Handlers, Request(h) \/ HandlerFails(h)
  PROVE  LineItemsInv'
<1> USE DEF LineItemsInv
<1>0. MaxRequests \in Nat /\ requests \in requests..MaxRequests
  BY LineItemsAssumption DEF QueueTypes
<1>1. CASE OverrideCommit(h)
  <2>1. HandlerTypes' BY <1>1 DEF OverrideCommit, HandlerTypes
  <2> QED BY <1>0, <1>1, <2>1, HandlerInv, OverrideEffect DEF OverrideCommit, TableTypes, QueueTypes, bounds
<1>2. CASE OverrideSend(h)
  <2>1. HandlerTypes' BY <1>2 DEF OverrideSend, Done, HandlerTypes
  <2> QED BY <1>0, <1>2, <2>1, HandlerInv, EffectiveCodesType
          DEF OverrideSend, TableTypes, QueueTypes, bounds, tables
<1>3. CASE HandlerFails(h)
  <2>1. HandlerTypes' BY <1>3 DEF HandlerFails, Done, HandlerTypes
  <2>2. failures' \in 0..MaxFailures BY <1>3, LineItemsAssumption DEF HandlerFails, QueueTypes
  <2> QED BY <1>0, <1>3, <2>1, <2>2, HandlerInv DEF HandlerFails, TableTypes, QueueTypes, tables
<1> QED BY <1>1, <1>2, <1>3 DEF Request

LEMMA EndInv ==
  ASSUME LineItemsInv, NEW w \in Workers,
         MaterializeNothing(w) \/ MaterializeFails(w) \/ Send(w) \/ WorkerFails(w)
  PROVE  LineItemsInv'
<1> USE DEF LineItemsInv
<1>1. CASE MaterializeNothing(w) \/ MaterializeFails(w)
  BY <1>1, IdleInv DEF MaterializeNothing, MaterializeFails, bounds, QueueTypes, TableTypes
<1>2. CASE Send(w)
  BY <1>2, IdleInv, EffectiveCodesType DEF Send, bounds, QueueTypes
<1>3. CASE WorkerFails(w)
  <2>1. failures' \in 0..MaxFailures BY <1>3, LineItemsAssumption DEF WorkerFails, QueueTypes
  <2> QED BY <1>3, <2>1, IdleInv DEF WorkerFails, QueueTypes, TableTypes
<1> QED BY <1>1, <1>2, <1>3

LEMMA NextLineItems == LineItemsInv /\ [Next]_vars => LineItemsInv'
<1> SUFFICES ASSUME LineItemsInv, [Next]_vars PROVE LineItemsInv' OBVIOUS
<1>1. ASSUME NEW w \in Workers, Task(w) \/ WorkerFails(w) PROVE LineItemsInv'
  BY <1>1, TakeClassifyInv, TakeReclassifyInv, MaterializeInv, ListLineItemsInv, WriteInv, EndInv
     DEF Task
<1>2. CASE UNCHANGED vars
  <2>1. /\ UNCHANGED <<invoices, items, results, classifyQ, reclassifyQ>>
        /\ UNCHANGED <<pool, wpc, job, removed, batch, listed, loaded>>
        /\ UNCHANGED <<hpc, target, before, announced, settles, requests, failures>>
    BY <1>2 DEF vars, tables, queues, worker, handler, bounds
  <2>2. \A w \in Workers : TaskOf(w)' BY <2>1 DEF LineItemsInv, TaskOf
  <2> QED BY <2>1, <2>2
          DEF LineItemsInv, TableTypes, QueueTypes, WorkerTypes, HandlerTypes, LineItemsAreClassified
<1> QED BY <1>1, <1>2, SettleInvoiceInv, TriggerReclassifyInv, OverrideReadInv, OverrideInv DEF Next

LEMMA LineItemsInvariant == Spec => []LineItemsInv
<1>1. Init => LineItemsInv BY InitLineItems
<1>2. LineItemsInv /\ [Next]_vars => LineItemsInv' BY NextLineItems
<1> QED BY <1>1, <1>2, PTL DEF Spec

-----------------------------------------------------------------------------
(* What follows for any number of workers.                                 *)

\* Line items that were committed stay: they are classified, and the DELETE of a
\* re-extraction meets the foreign key.  A message to reclassify one finds it.
ReclassifiesWhatIsThere == \A x \in Ids : reclassifyQ[x] > 0 => x \in DOMAIN items

LEMMA NextReclassifies ==
  LineItemsInv /\ ReclassifiesWhatIsThere /\ [Next]_vars => ReclassifiesWhatIsThere'
<1> SUFFICES ASSUME LineItemsInv, ReclassifiesWhatIsThere, [Next]_vars
             PROVE  ReclassifiesWhatIsThere'
  OBVIOUS
<1> USE DEF ReclassifiesWhatIsThere
<1>0. reclassifyQ \in [Ids -> Nat] BY DEF LineItemsInv, QueueTypes
<1>1. ASSUME NEW w \in Workers, Task(w) \/ WorkerFails(w) PROVE ReclassifiesWhatIsThere'
  <2>1. ASSUME NEW x \in Ids, TakeReclassify(w, x) PROVE ReclassifiesWhatIsThere'
    <3>1. items' = items /\ reclassifyQ' = [reclassifyQ EXCEPT ![x] = @ - 1] /\ x \in DOMAIN items
      BY <2>1 DEF TakeReclassify, tables
    <3> QED BY <1>0, <3>1
  <2>2. CASE Write(w)
    <3>1. reclassifyQ' = reclassifyQ BY <2>2 DEF Write, queues
    <3>2. DOMAIN items \subseteq DOMAIN items' BY <2>2, WriteEffect DEF Write
    <3> QED BY <3>1, <3>2
  <2>3. ASSUME ~Write(w), \A x \in Ids : ~TakeReclassify(w, x)
        PROVE  UNCHANGED <<items, reclassifyQ>>
    BY <1>1, <2>3 DEF Task, TakeClassify, Materialize, MaterializeNothing, MaterializeFails,
                      ListLineItems, Send, WorkerFails, tables, queues
  <2> QED BY <2>1, <2>2, <2>3
<1>2. ASSUME NEW x \in Ids, TriggerReclassify(x) PROVE ReclassifiesWhatIsThere'
  <2>1. items' = items /\ reclassifyQ' = [reclassifyQ EXCEPT ![x] = @ + 1] /\ x \in DOMAIN items
    BY <1>2 DEF TriggerReclassify, tables
  <2> QED BY <1>0, <2>1
<1>3. ASSUME \/ UNCHANGED vars
             \/ \E i \in Invoices : SettleInvoice(i)
             \/ \E h \in Handlers : Request(h) \/ HandlerFails(h) \/ \E x \in Ids : OverrideRead(h, x)
      PROVE  UNCHANGED <<items, reclassifyQ>>
  BY <1>3 DEF SettleInvoice, Request, OverrideCommit, OverrideSend, HandlerFails, OverrideRead,
              vars, tables, queues
<1> QED BY <1>1, <1>2, <1>3 DEF Next

\* The variables of LineItems keep their types, and a message to reclassify a line item is
\* never about one that is not there.
THEOREM LineItemsTypeCorrect == Spec => []TypeOK
<1>1. LineItemsInv /\ ReclassifiesWhatIsThere => TypeOK
  <2> SUFFICES ASSUME LineItemsInv, ReclassifiesWhatIsThere PROVE TypeOK OBVIOUS
  <2> USE DEF LineItemsInv
  <2>1. DOMAIN results \subseteq Ids BY DEF TableTypes, LineItemsAreClassified
  <2>2. classifyQ \in [Invoices -> 0..MaxSettles] /\ reclassifyQ \in [Ids -> 0..MaxRequests]
    BY LineItemsAssumption DEF QueueTypes
  <2>3. ASSUME NEW w \in Workers
        PROVE  /\ DOMAIN batch[w] \subseteq Ids /\ batch[w] \in [DOMAIN batch[w] -> Item]
               /\ listed[w] \subseteq Ids /\ removed[w] \subseteq Ids
               /\ loaded[w] \in [DOMAIN loaded[w] -> Result] /\ DOMAIN loaded[w] \subseteq listed[w]
    <3>1. TaskOf(w) /\ DOMAIN items \subseteq Ids BY DEF TableTypes
    <3> QED BY <3>1 DEF TaskOf
  <2> QED BY <2>1, <2>2, <2>3 DEF TableTypes, QueueTypes, WorkerTypes, HandlerTypes, TypeOK,
                                  ReclassifiesWhatIsThere
<1>2. Init => ReclassifiesWhatIsThere BY DEF Init, ReclassifiesWhatIsThere
<1> QED BY <1>1, <1>2, NextReclassifies, LineItemsInvariant, PTL DEF Spec

\* classify_shipment_from_document commits line items and classifications together:
\* whatever fails, is reclassified, overridden or overlaps, neither is there alone.
THEOREM LineItemsAlwaysClassified == Spec => []LineItemsAreClassified
<1>1. LineItemsInv => LineItemsAreClassified BY DEF LineItemsInv
<1> QED BY <1>1, LineItemsInvariant, PTL

\* ClassificationResultRepository.upsert never runs into the unique constraint.
THEOREM UpsertsNeverCollide == Spec => []UpsertNeverCollides
<1>1. LineItemsInv => UpsertNeverCollides
  BY DEF LineItemsInv, UpsertNeverCollides, TaskOf, LineItemsAreClassified
<1> QED BY <1>1, LineItemsInvariant, PTL

-----------------------------------------------------------------------------
(* Overrides and announcements.                                            *)

\* What becomes of a classification in one step.
LEMMA ResultStep ==
  ASSUME LineItemsInv, [Next]_vars, NEW x \in DOMAIN results
  PROVE  /\ x \in DOMAIN results'
         /\ results'[x].override # results[x].override =>
              \E h \in Handlers : target[h] = x /\ hpc[h] = "commit" /\ hpc'[h] # "commit"
<1>1. CASE results' = results BY <1>1
<1>2. ASSUME NEW w \in Workers, Write(w)
      PROVE  x \in DOMAIN results' /\ results'[x].override = results[x].override
  <2>1. PICK verdict \in [listed[w] -> Verdicts] : results' = ResultsWritten(w, verdict) BY <1>2 DEF Write
  <2>2. /\ wpc[w] = "write" /\ items' = ItemsWritten(w) BY <1>2 DEF Write
  <2>3. /\ DOMAIN results' = DOMAIN items \cup DOMAIN batch[w]
        /\ \/ results'[x] = results[x]
           \/ /\ x \in DOMAIN loaded[w] /\ verdict[x] \in Verdicts
              /\ results'[x] = Upserted(results[x], loaded[w][x], verdict[x])
    BY <2>1, <2>2, WriteEffect
  <2>4. x \in DOMAIN results' BY <2>3 DEF LineItemsInv, LineItemsAreClassified
  <2>5. results[x] \in Result /\ (x \in DOMAIN loaded[w] => loaded[w][x] \in Result)
    BY DEF LineItemsInv, TableTypes, TaskOf
  <2>6. x \in DOMAIN loaded[w] /\ verdict[x] \in Verdicts =>
          Upserted(results[x], loaded[w][x], verdict[x]).override = results[x].override
    BY <2>5, UpsertedColumns
  <2> QED BY <2>3, <2>4, <2>6
<1>3. ASSUME NEW h \in Handlers, OverrideCommit(h)
      PROVE  /\ x \in DOMAIN results'
             /\ results'[x].override # results[x].override =>
                  target[h] = x /\ hpc[h] = "commit" /\ hpc'[h] # "commit"
  <2>1. hpc[h] = "commit" /\ hpc'[h] = "send"
    BY <1>3 DEF OverrideCommit, LineItemsInv, HandlerTypes
  <2> QED BY <1>3, <2>1, OverrideEffect
<1>4. ASSUME results' # results
      PROVE  (\E w \in Workers : Write(w)) \/ (\E h \in Handlers : OverrideCommit(h))
  BY <1>4 DEF Next, vars, tables, Task, Request, SettleInvoice, TriggerReclassify, TakeClassify,
     TakeReclassify, Materialize, MaterializeNothing, MaterializeFails, ListLineItems, Send,
     WorkerFails, OverrideSend, HandlerFails, OverrideRead
<1> QED BY <1>1, <1>2, <1>3, <1>4

\* Re-classification, re-extraction and failures never lose or change a user's override:
\* a classification that has one keeps it until another override request commits.
THEOREM OverridesAreKept == Spec => OverrideSurvives
<1>1. LineItemsInv /\ [Next]_vars =>
        \A x \in DOMAIN results :
          results[x].override # NoCode =>
            /\ x \in DOMAIN results'
            /\ results'[x].override # results[x].override =>
                 \E h \in Handlers : target[h] = x /\ hpc[h] = "commit" /\ hpc'[h] # "commit"
  BY ResultStep
<1> QED BY <1>1, LineItemsInvariant, PTL DEF Spec, OverrideSurvives

LEMMA AnnouncedStep ==
  ASSUME LineItemsInv, AnnouncedInv, [Next]_vars
  PROVE  AnnouncedInv'
<1> SUFFICES ASSUME failures' = 0
             PROVE  \/ announced' = EffectiveCodes'
                    \/ \E w \in Workers : wpc'[w] = "send"
                    \/ \E h \in Handlers : hpc'[h] = "send"
  BY DEF AnnouncedInv
<1>0. failures \in Nat /\ wpc \in [Workers -> {"idle", "materialize", "list", "write", "send"}]
      /\ hpc \in [Handlers -> {"idle", "commit", "send"}]
  BY LineItemsAssumption DEF LineItemsInv, QueueTypes, WorkerTypes, HandlerTypes
<1>1. ASSUME failures' = failures, UNCHANGED <<results, announced>>,
             \A w \in Workers : wpc[w] = "send" => wpc'[w] = "send",
             \A h \in Handlers : hpc[h] = "send" => hpc'[h] = "send"
      PROVE  \/ announced' = EffectiveCodes'
             \/ \E w \in Workers : wpc'[w] = "send"
             \/ \E h \in Handlers : hpc'[h] = "send"
  BY <1>1 DEF AnnouncedInv, EffectiveCodes
<1>2. CASE \E w \in Workers : Send(w)
  BY <1>2 DEF Send, EffectiveCodes, tables
<1>3. CASE \E h \in Handlers : OverrideSend(h)
  BY <1>3 DEF OverrideSend, EffectiveCodes, tables
<1>4. CASE \E w \in Workers : Write(w) BY <1>0, <1>4 DEF Write
<1>5. CASE \E h \in Handlers : OverrideCommit(h) BY <1>0, <1>5 DEF OverrideCommit
<1>6. ASSUME NEW w \in Workers, Task(w), ~Send(w), ~Write(w)
      PROVE  /\ failures' = failures /\ UNCHANGED <<results, announced, hpc>>
             /\ \A v \in Workers : wpc[v] = "send" => wpc'[v] = "send"
  BY <1>0, <1>6 DEF Task, TakeClassify, TakeReclassify, Materialize, MaterializeNothing,
     MaterializeFails, ListLineItems, Idle, tables, handler, bounds
<1>7. CASE \E w \in Workers : WorkerFails(w) BY <1>0, <1>7 DEF WorkerFails
<1>8. CASE \E h \in Handlers : HandlerFails(h) BY <1>0, <1>8 DEF HandlerFails
<1>9. CASE \E h \in Handlers, x \in Ids : OverrideRead(h, x)
  <2>1. \A g \in Handlers : hpc[g] = "send" => hpc'[g] = "send" BY <1>0, <1>9 DEF OverrideRead
  <2> QED BY <1>1, <1>9, <2>1 DEF OverrideRead, tables, worker
<1>10. CASE \/ \E i \in Invoices : SettleInvoice(i)
            \/ \E x \in Ids : TriggerReclassify(x)
            \/ UNCHANGED vars
  BY <1>1, <1>10 DEF SettleInvoice, TriggerReclassify, vars, tables, worker, handler, bounds
<1> QED BY <1>1, <1>2, <1>3, <1>4, <1>5, <1>6, <1>7, <1>8, <1>9, <1>10 DEF Next, Request

\* Without a failure, every change of a code, by a task or by an override, is followed by
\* the messages that triage permits and determine the origin again.
THEOREM EveryChangeIsAnnounced == Spec => []ChangesAnnounced
<1>1. Init => AnnouncedInv BY InitLineItems
<1>2. LineItemsInv /\ AnnouncedInv /\ [Next]_vars => AnnouncedInv' BY AnnouncedStep
<1>3. AnnouncedInv => ChangesAnnounced BY DEF AnnouncedInv, ChangesAnnounced, AtRest
<1> QED BY <1>1, <1>2, <1>3, LineItemsInvariant, PTL DEF Spec

-----------------------------------------------------------------------------
(* What one worker keeps.                                                  *)

LEMMA OthersIdle ==
  ASSUME LineItemsInv, OneWorker, NEW w \in Workers, wpc[w] # "idle", NEW v \in Workers \ {w}
  PROVE  DOMAIN batch[v] = {} /\ DOMAIN loaded[v] = {} /\ wpc[v] = "idle"
<1>1. TaskOf(v) /\ TaskOf(w) BY DEF LineItemsInv
<1>2. w \in pool BY <1>1 DEF TaskOf
<1>3. v \notin pool BY <1>2 DEF OneWorker
<1> QED BY <1>1, <1>3 DEF TaskOf

LEMMA NewResultTrusted ==
  ASSUME NEW verdict \in Verdicts
  PROVE  Trusted(NewResult(verdict))
BY DEF Trusted, NewResult, RequiresManualReview

\* An upsert of what was loaded and is still there is the new classification.
LEMMA UpsertOfCurrent ==
  ASSUME NEW current \in Result, NEW old \in Result, NEW verdict \in Verdicts,
         \A column \in {"code", "sure", "review"} : old[column] = current[column]
  PROVE  Trusted(Upserted(current, old, verdict))
<1> DEFINE new == Upserted(current, old, verdict)
           fresh == NewResult(verdict)
<1>1. \A column \in {"code", "sure", "review"} :
        new[column] = IF fresh[column] = old[column] THEN current[column] ELSE fresh[column]
  BY UpsertedColumns
<1>2. Trusted(fresh) BY NewResultTrusted
<1> HIDE DEF new, fresh
<1>3. new["code"] = fresh["code"] /\ new["sure"] = fresh["sure"] /\ new["review"] = fresh["review"]
  BY <1>1
<1>4. Trusted(new) BY <1>2, <1>3 DEF Trusted
<1> QED BY <1>4 DEF new

LEMMA OneWorkerWrite ==
  ASSUME LineItemsInv, OneWorkerInv, OneWorker, NEW w \in Workers, Write(w)
  PROVE  /\ DistinctLines(items)'
         /\ \A x \in DOMAIN results' : Trusted(results'[x])
         /\ \A v \in Workers : (FirstBatch(v) /\ Current(v))'
<1>1. PICK verdict \in [listed[w] -> Verdicts] : results' = ResultsWritten(w, verdict) BY DEF Write
<1>2. /\ wpc[w] = "write" /\ items' = ItemsWritten(w) /\ Flushed(w)
      /\ wpc' = [wpc EXCEPT ![w] = "send"] /\ pool' = pool
  BY DEF Write
<1>3. /\ DOMAIN items' = DOMAIN items \cup DOMAIN batch[w] /\ DOMAIN results' = DOMAIN items'
      /\ \A x \in DOMAIN items : items'[x] = items[x]
      /\ \A x \in DOMAIN batch[w] : items'[x] = batch[w][x]
      /\ \A x \in DOMAIN batch[w] : results'[x] = NewResult(verdict[x]) /\ verdict[x] \in Verdicts
      /\ \A x \in DOMAIN results :
           \/ results'[x] = results[x]
           \/ /\ x \in DOMAIN loaded[w] /\ verdict[x] \in Verdicts
              /\ results'[x] = Upserted(results[x], loaded[w][x], verdict[x])
  BY <1>1, <1>2, WriteEffect
<1>4. /\ DistinctLines(items) /\ FirstBatch(w) /\ Current(w)
      /\ \A x \in DOMAIN results : Trusted(results[x])
      /\ DOMAIN items = DOMAIN results
  BY DEF OneWorkerInv, LineItemsInv, LineItemsAreClassified
<1>5. \A v \in Workers \ {w} : DOMAIN batch[v] = {} /\ DOMAIN loaded[v] = {}
  BY <1>2, OthersIdle
<1>6. \A v \in Workers : DOMAIN batch'[v] = {} /\ DOMAIN loaded'[v] = {}
  <2>1. /\ DOMAIN batch'[w] = {} /\ DOMAIN loaded'[w] = {}
        /\ \A v \in Workers \ {w} : batch'[v] = batch[v] /\ loaded'[v] = loaded[v]
    BY <1>2, NothingFacts DEF Flushed, LineItemsInv, WorkerTypes
  <2> QED BY <1>5, <2>1
<1>7. DistinctLines(items)'
  <2>1. CASE DOMAIN batch[w] = {} BY <1>3, <1>4, <2>1 DEF DistinctLines
  <2>2. CASE DOMAIN batch[w] # {} BY <1>3, <1>4, <2>2 DEF DistinctLines, FirstBatch
  <2> QED BY <2>1, <2>2
<1>8. ASSUME NEW x \in DOMAIN results' PROVE Trusted(results'[x])
  <2>1. CASE x \in DOMAIN batch[w] BY <1>3, <2>1, NewResultTrusted
  <2>2. CASE x \in DOMAIN results
    <3>1. results[x] \in Result /\ (x \in DOMAIN loaded[w] => loaded[w][x] \in Result)
      BY <2>2 DEF LineItemsInv, TableTypes, TaskOf
    <3>2. x \in DOMAIN loaded[w] =>
            \A column \in {"code", "sure", "review"} : loaded[w][x][column] = results[x][column]
      BY <1>4 DEF Current
    <3> QED BY <1>3, <1>4, <2>2, <3>1, <3>2, UpsertOfCurrent
  <2> QED BY <1>3, <1>4, <1>8, <2>1, <2>2
<1> QED BY <1>6, <1>7, <1>8 DEF FirstBatch, Current

LEMMA OneWorkerStep ==
  ASSUME LineItemsInv, OneWorkerInv, [Next]_vars
  PROVE  OneWorkerInv'
<1>0. pool' = pool
  BY DEF Next, vars, tables, worker, Task, Request, SettleInvoice, TriggerReclassify, TakeClassify,
     TakeReclassify, Materialize, MaterializeNothing, MaterializeFails, ListLineItems, Write, Send,
     WorkerFails, OverrideCommit, OverrideSend, HandlerFails, OverrideRead
<1> SUFFICES ASSUME OneWorker
             PROVE  /\ DistinctLines(items)'
                    /\ \A x \in DOMAIN results' : Trusted(results'[x])
                    /\ \A v \in Workers : (FirstBatch(v) /\ Current(v))'
  BY <1>0 DEF OneWorkerInv, OneWorker
<1>1. /\ DistinctLines(items)
      /\ \A x \in DOMAIN results : Trusted(results[x])
      /\ \A v \in Workers : FirstBatch(v) /\ Current(v)
      /\ DOMAIN items = DOMAIN results /\ WorkerTypes
  BY DEF OneWorkerInv, LineItemsInv, LineItemsAreClassified
\* The tables stay, and so do the batches and readings, or they become those of a new task.
<1>2. ASSUME UNCHANGED <<items, results>>, NEW v \in Workers,
             batch'[v] = batch[v] \/ DOMAIN batch'[v] = {}
      PROVE  FirstBatch(v)'
  BY <1>1, <1>2 DEF FirstBatch, DistinctLines
<1>3. ASSUME UNCHANGED <<items, results>>, NEW v \in Workers,
             \/ loaded'[v] = loaded[v] \/ DOMAIN loaded'[v] = {}
             \/ \E S : loaded'[v] = Loaded(S)
      PROVE  Current(v)'
  <2>1. CASE loaded'[v] = loaded[v]
    <3>1. Current(v) BY <1>1
    <3> QED BY <1>3, <2>1, <3>1 DEF Current
  <2>2. CASE DOMAIN loaded'[v] = {} BY <2>2 DEF Current
  <2>3. CASE \E S : loaded'[v] = Loaded(S) BY <1>3, <2>3 DEF Current, Loaded
  <2> QED BY <1>3, <2>1, <2>2, <2>3
<1>4. ASSUME UNCHANGED <<items, results>>,
             \A v \in Workers : batch'[v] = batch[v] \/ DOMAIN batch'[v] = {},
             \A v \in Workers : \/ loaded'[v] = loaded[v] \/ DOMAIN loaded'[v] = {}
                                \/ \E S : loaded'[v] = Loaded(S)
      PROVE  /\ DistinctLines(items)'
             /\ \A x \in DOMAIN results' : Trusted(results'[x])
             /\ \A v \in Workers : (FirstBatch(v) /\ Current(v))'
  <2>1. DistinctLines(items)' BY <1>1, <1>4 DEF DistinctLines
  <2> QED BY <1>1, <1>2, <1>3, <1>4, <2>1
<1>5. CASE \E w \in Workers : Write(w) BY <1>5, OneWorkerWrite
<1>6. ASSUME NEW w \in Workers, Materialize(w)
      PROVE  /\ DistinctLines(items)'
             /\ \A x \in DOMAIN results' : Trusted(results'[x])
             /\ \A v \in Workers : (FirstBatch(v) /\ Current(v))'
  <2>1. /\ DOMAIN items = {} /\ DistinctLines(batch'[w])
        /\ \A v \in Workers \ {w} : batch'[v] = batch[v]
    BY <1>6, NewBatch
  <2>2. UNCHANGED <<items, results, loaded>> BY <1>6 DEF Materialize, tables
  <2>3. \A v \in Workers : Current(v)' BY <1>3, <2>2
  <2>4. FirstBatch(w)' BY <2>1, <2>2 DEF FirstBatch, DistinctLines
  <2>5. \A v \in Workers \ {w} : FirstBatch(v)' BY <1>2, <2>1, <2>2
  <2> QED BY <1>1, <2>2, <2>3, <2>4, <2>5 DEF DistinctLines
<1>7. ASSUME NEW w \in Workers, \/ \E i \in Invoices : TakeClassify(w, i)
                                \/ \E x \in Ids : TakeReclassify(w, x)
                                \/ ListLineItems(w)
      PROVE  /\ UNCHANGED <<items, results, batch>>
             /\ \A v \in Workers : \/ loaded'[v] = loaded[v] \/ \E S : loaded'[v] = Loaded(S)
  BY <1>1, <1>7 DEF TakeClassify, TakeReclassify, ListLineItems, tables, WorkerTypes
<1>8. ASSUME NEW w \in Workers,
             MaterializeNothing(w) \/ MaterializeFails(w) \/ Send(w) \/ WorkerFails(w)
      PROVE  /\ UNCHANGED <<items, results>>
             /\ \A v \in Workers : batch'[v] = batch[v] \/ DOMAIN batch'[v] = {}
             /\ \A v \in Workers : loaded'[v] = loaded[v] \/ DOMAIN loaded'[v] = {}
  BY <1>1, <1>8, NothingFacts DEF MaterializeNothing, MaterializeFails, Send, WorkerFails, Idle,
     Flushed, tables, WorkerTypes
<1>9. ASSUME NEW h \in Handlers, OverrideCommit(h)
      PROVE  /\ DistinctLines(items)'
             /\ \A x \in DOMAIN results' : Trusted(results'[x])
             /\ \A v \in Workers : (FirstBatch(v) /\ Current(v))'
  <2>1. /\ UNCHANGED <<items, batch, loaded>> /\ DOMAIN results' = DOMAIN results
        /\ \A x \in DOMAIN results : \A column \in {"code", "sure", "review"} :
             results'[x][column] = results[x][column]
    BY <1>9, OverrideEffect DEF OverrideCommit, worker
  <2>2. \A x \in DOMAIN results : /\ results'[x].review = results[x].review
                                  /\ results'[x].sure = results[x].sure
                                  /\ results'[x].code = results[x].code
    BY <2>1
  <2>3. \A x \in DOMAIN results' : Trusted(results'[x]) BY <1>1, <2>1, <2>2 DEF Trusted
  <2>4. \A v \in Workers : FirstBatch(v)' BY <1>1, <2>1 DEF FirstBatch, DistinctLines
  <2>5. \A v \in Workers : Current(v)' BY <1>1, <2>1 DEF Current
  <2> QED BY <1>1, <2>1, <2>3, <2>4, <2>5 DEF DistinctLines
<1>10. ASSUME \/ \E i \in Invoices : SettleInvoice(i)
              \/ \E x \in Ids : TriggerReclassify(x)
              \/ \E h \in Handlers : OverrideSend(h) \/ HandlerFails(h) \/ \E x \in Ids : OverrideRead(h, x)
              \/ UNCHANGED vars
       PROVE  UNCHANGED <<items, results, batch, loaded>>
  BY <1>10 DEF SettleInvoice, TriggerReclassify, OverrideSend, HandlerFails, OverrideRead, vars,
     tables, worker
<1>11. ASSUME NEW w \in Workers, Task(w) \/ WorkerFails(w)
       PROVE  /\ DistinctLines(items)'
              /\ \A x \in DOMAIN results' : Trusted(results'[x])
              /\ \A v \in Workers : (FirstBatch(v) /\ Current(v))'
  <2>1. CASE Write(w) BY <1>5, <2>1
  <2>2. CASE Materialize(w) BY <1>6, <2>2
  <2>3. CASE \/ \E i \in Invoices : TakeClassify(w, i)
             \/ \E x \in Ids : TakeReclassify(w, x)
             \/ ListLineItems(w)
    <3>1. /\ UNCHANGED <<items, results, batch>>
          /\ \A v \in Workers : \/ loaded'[v] = loaded[v] \/ \E S : loaded'[v] = Loaded(S)
      BY <1>7, <2>3
    <3> QED BY <1>4, <3>1
  <2>4. CASE MaterializeNothing(w) \/ MaterializeFails(w) \/ Send(w) \/ WorkerFails(w)
    <3>1. /\ UNCHANGED <<items, results>>
          /\ \A v \in Workers : batch'[v] = batch[v] \/ DOMAIN batch'[v] = {}
          /\ \A v \in Workers : loaded'[v] = loaded[v] \/ DOMAIN loaded'[v] = {}
      BY <1>8, <2>4
    <3> QED BY <1>4, <3>1
  <2> QED BY <1>11, <2>1, <2>2, <2>3, <2>4 DEF Task
<1>12. CASE \/ \E i \in Invoices : SettleInvoice(i)
            \/ \E x \in Ids : TriggerReclassify(x)
            \/ \E h \in Handlers : OverrideSend(h) \/ HandlerFails(h) \/ \E x \in Ids : OverrideRead(h, x)
            \/ UNCHANGED vars
  BY <1>4, <1>10, <1>12
<1> QED BY <1>9, <1>11, <1>12 DEF Next, Request

LEMMA OneWorkerInvariant == Spec => []OneWorkerInv
<1>1. Init => OneWorkerInv BY InitLineItems
<1>2. LineItemsInv /\ OneWorkerInv /\ [Next]_vars => OneWorkerInv' BY OneWorkerStep
<1> QED BY <1>1, <1>2, LineItemsInvariant, PTL DEF Spec

LEMMA SoloIsOneWorker == LineItemsInv /\ Solo => OneWorker
<1> SUFFICES ASSUME LineItemsInv, Solo PROVE OneWorker OBVIOUS
<1>1. pool \in SUBSET Workers /\ IsFiniteSet(Workers)
  BY LineItemsAssumption DEF LineItemsInv, WorkerTypes
<1>2. IsFiniteSet(pool) BY <1>1, FS_Subset
<1>3. \E x : pool = {x} BY <1>2, FS_Singleton DEF Solo
<1> QED BY <1>3 DEF OneWorker

\* With one worker, however often an invoice is extracted, corrected or fails, each of its
\* lines has at most one line item.
THEOREM LineItemsAreDistinct == Spec => []NoDuplicateLineItems
<1>1. LineItemsInv /\ OneWorkerInv => NoDuplicateLineItems
  BY SoloIsOneWorker DEF OneWorkerInv, DistinctLines, NoDuplicateLineItems
<1> QED BY <1>1, LineItemsInvariant, OneWorkerInvariant, PTL

\* With one worker, a classification that asks for no review has a code and enough
\* confidence, although only the columns that changed are written.
THEOREM UnsureIsReviewed == Spec => []ReviewedUnlessSure
<1>1. LineItemsInv /\ OneWorkerInv => ReviewedUnlessSure
  BY SoloIsOneWorker DEF OneWorkerInv, Trusted, ReviewedUnlessSure
<1> QED BY <1>1, LineItemsInvariant, OneWorkerInvariant, PTL
=============================================================================
