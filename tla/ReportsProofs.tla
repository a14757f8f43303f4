---------------------------- MODULE ReportsProofs ----------------------------
(***************************************************************************)
(* Proofs about Reports for any set of reports, any workers and any number *)
(* of commits, failures and repeated messages.                             *)
(***************************************************************************)
EXTENDS Reports, SequenceTheorems, TLAPS

-----------------------------------------------------------------------------
(* The parts of a report.                                                  *)

LEMMA PartsFacts ==
  /\ Len(Parts) = 6
  /\ \A n \in 1..6 : Parts[n] \in Range(Parts)
  /\ \A p \in Range(Parts) : \E n \in 1..6 : Parts[n] = p
<1>1. Len(Parts) = 6 /\ DOMAIN Parts = 1..6 BY DEF Parts
<1> QED BY <1>1 DEF Range

\* The PDF shows, for each part, one of the versions that were read for it.
LEMMA PdfShows ==
  ASSUME NEW read, NEW p \in Range(Parts)
  PROVE  \E n \in 1..6 : Parts[n] = p /\ Pdf(read)[p] = read[n]
<1> DEFINE n == CHOOSE n \in 1..Len(Parts) : Parts[n] = p
<1>1. n \in 1..6 /\ Parts[n] = p BY PartsFacts
<1>2. Pdf(read)[p] = read[n] BY DEF Pdf
<1> QED BY <1>1, <1>2

-----------------------------------------------------------------------------
(* The inductive invariant.                                                *)

StoreTypes ==
  /\ version \in Contents /\ edits \in 0..MaxEdits
  /\ \A p \in Range(Parts) : version[p] <= edits
  /\ reports \in [ReportIds -> Rows \cup {None}]
  /\ objects \in [Keys -> Contents \cup {None}]
  /\ requested \in [ReportIds -> Contents \cup {None}]
  /\ hpc \in [ReportIds -> {"none", "committed", "done"}]
  /\ queue \in [ReportIds -> 0..2]
  /\ redelivered \subseteq ReportIds
  /\ pool \in Pools

TaskTypes ==
  /\ wpc \in [Workers -> {"idle", "read", "build", "ready", "failed"}]
  /\ job \in [Workers -> ReportIds \cup {None}]
  /\ loaded \in [Workers -> Rows \cup {None}]
  /\ bundle \in [Workers -> Seq(0..MaxEdits)]
  /\ \A w \in Workers : Len(bundle[w]) \in 0..6 /\ (job[w] = None <=> wpc[w] = "idle")

\* A report exists, with the versions of its request, from the commit of its POST; its
\* message is sent after that, once, and repeated at most once.
RequestOf(r) ==
  /\ hpc[r] = "none" <=> reports[r] = None
  /\ requested[r] = None <=> reports[r] = None
  /\ requested[r] # None => \A p \in Range(Parts) : requested[r][p] <= version[p]
  /\ hpc[r] # "done" => queue[r] = 0 /\ r \notin redelivered /\ \A w \in Workers : job[w] # r
  /\ r \notin redelivered => queue[r] <= 1

\* The path of a row is null or leads to the report's own PDF, which is no older than the
\* request; a READY row has it.
RowOf(r) ==
  /\ reports[r] # None =>
       /\ reports[r].storage_path \in {None, r}
       /\ reports[r].storage_path = r => objects[r] # None
       /\ reports[r].status = "READY" => reports[r].storage_path = r
  /\ objects[r] # None =>
       /\ reports[r] # None
       /\ \A p \in Range(Parts) : objects[r][p] >= requested[r][p]

\* A task has loaded its row after the request, reads the parts in their order, none older
\* than the request, and marks the report READY only once its PDF is stored.
TaskOf(w) ==
  /\ wpc[w] = "idle" => bundle[w] = <<>>
  /\ wpc[w] = "read" => Len(bundle[w]) < 6
  /\ wpc[w] \in {"build", "ready", "failed"} => Len(bundle[w]) = 6
  /\ wpc[w] = "ready" => objects[job[w]] # None
  /\ wpc[w] # "idle" =>
       /\ reports[job[w]] # None
       /\ \A n \in 1..Len(bundle[w]) : bundle[w][n] >= requested[job[w]][Parts[n]]
       /\ loaded[w] # None
       /\ loaded[w].storage_path = job[w] => reports[job[w]].storage_path = job[w]
       /\ loaded[w].status = "READY" => loaded[w].storage_path = job[w]

\* A report whose message is not repeated is GENERATING until its only task commits.
OnceOf(r) ==
  r \notin redelivered =>
    /\ hpc[r] = "committed" \/ queue[r] = 1 \/ (\E w \in Workers : job[w] = r) =>
         reports[r] # None /\ reports[r].status = "GENERATING"
    /\ \A w \in Workers : job[w] = r =>
         queue[r] = 0 /\ \A v \in Workers : job[v] = r => v = w

ReportsInv ==
  /\ StoreTypes /\ TaskTypes
  /\ \A r \in ReportIds : RequestOf(r) /\ RowOf(r) /\ OnceOf(r)
  /\ \A w \in Workers : TaskOf(w)

LEMMA InitReports == Init => ReportsInv
<1> SUFFICES ASSUME Init PROVE ReportsInv OBVIOUS
<1> USE ReportsAssumption
<1>1. StoreTypes BY DEF Init, StoreTypes, Contents
<1>0. TaskTypes BY DEF Init, TaskTypes
<1>2. \A r \in ReportIds : r \in Keys BY DEF Keys
<1>3. \A r \in ReportIds : RequestOf(r) /\ RowOf(r) /\ OnceOf(r)
  BY <1>2 DEF Init, RequestOf, RowOf, OnceOf, Keys
<1>4. \A w \in Workers : TaskOf(w) BY DEF Init, TaskOf
<1> QED BY <1>0, <1>1, <1>3, <1>4 DEF ReportsInv

\* A commit by another component makes the versions grow, and nothing else.
LEMMA EditReports ==
  ASSUME ReportsInv, Edit
  PROVE  ReportsInv'
<1> USE ReportsAssumption
<1>1. PICK p \in Range(Parts) : version' = [version EXCEPT ![p] = @ + 1] BY DEF Edit
<1>2. /\ edits < MaxEdits /\ edits' = edits + 1
      /\ UNCHANGED <<reports, objects, requested, hpc, queue, redelivered, pool, wpc, job, loaded, bundle>>
  BY DEF Edit, task
<1>3. version \in [Range(Parts) -> 0..MaxEdits] /\ edits \in 0..MaxEdits /\ \A q \in Range(Parts) : version[q] <= edits
  BY DEF ReportsInv, StoreTypes, Contents
<1>4. /\ version' \in [Range(Parts) -> 0..MaxEdits] /\ edits' \in 0..MaxEdits
      /\ \A q \in Range(Parts) : version'[q] <= edits' /\ version[q] <= version'[q]
  BY <1>1, <1>2, <1>3
<1>5. StoreTypes' /\ TaskTypes' BY <1>2, <1>4 DEF ReportsInv, StoreTypes, TaskTypes, Contents
<1>6. ASSUME NEW r \in ReportIds PROVE RequestOf(r)'
  <2>1. RequestOf(r) /\ requested[r] \in Contents \cup {None} BY DEF ReportsInv, StoreTypes
  <2>2. requested[r] # None => \A q \in Range(Parts) : requested[r][q] <= version'[q]
    <3> SUFFICES ASSUME requested[r] # None, NEW q \in Range(Parts)
        PROVE  requested[r][q] <= version'[q]
      OBVIOUS
    <3>1. requested[r][q] \in Nat /\ requested[r][q] <= version[q]
      BY <2>1 DEF RequestOf, Contents
    <3> QED BY <1>3, <1>4, <3>1
  <2> QED BY <1>2, <2>1, <2>2 DEF RequestOf
<1>7. \A r \in ReportIds : RowOf(r)' /\ OnceOf(r)' BY <1>2 DEF ReportsInv, RowOf, OnceOf
<1>8. \A w \in Workers : TaskOf(w)' BY <1>2 DEF ReportsInv, TaskOf
<1> QED BY <1>5, <1>6, <1>7, <1>8 DEF ReportsInv

-----------------------------------------------------------------------------
(* The POST of a report and its message.                                   *)

\* The commit of the row: nothing is known of the report before it.
LEMMA CreatedReports ==
  ASSUME ReportsInv, NEW r \in ReportIds, At(r, "none", "committed"), Created(r),
         UNCHANGED <<version, objects, queue, redelivered, pool, wpc, job, loaded, bundle, edits>>
  PROVE  ReportsInv'
<1> USE ReportsAssumption
<1> DEFINE new == [status |-> "GENERATING", storage_path |-> None]
<1>1. StoreTypes /\ TaskTypes BY DEF ReportsInv
<1>2. new \in Rows /\ version \in Contents /\ None \notin Rows /\ None \notin Contents
  BY <1>1 DEF Rows, StoreTypes, TaskTypes
<1>3. /\ reports' = [reports EXCEPT ![r] = new]
      /\ requested' = [requested EXCEPT ![r] = version]
      /\ hpc[r] = "none" /\ hpc' = [hpc EXCEPT ![r] = "committed"]
  BY DEF At, Created
<1> HIDE DEF new
<1>5. StoreTypes' /\ TaskTypes' BY <1>1, <1>2, <1>3 DEF StoreTypes, TaskTypes
<1>6. /\ reports[r] = None /\ requested[r] = None /\ objects[r] = None /\ queue[r] = 0
      /\ r \notin redelivered /\ \A w \in Workers : job[w] # r
  BY <1>3 DEF ReportsInv, RequestOf, RowOf
<1>7. /\ reports'[r] = new /\ new # None /\ new.status = "GENERATING" /\ new.storage_path = None
      /\ requested'[r] = version /\ version # None /\ hpc'[r] = "committed"
      /\ \A q \in ReportIds \ {r} : reports'[q] = reports[q] /\ requested'[q] = requested[q] /\ hpc'[q] = hpc[q]
  BY <1>1, <1>2, <1>3 DEF StoreTypes, TaskTypes, new
<1>8. \A p \in Range(Parts) : version[p] <= version[p]
  BY <1>1 DEF StoreTypes, TaskTypes, Contents
<1>9. RequestOf(r)' /\ RowOf(r)' /\ OnceOf(r)'
  BY <1>6, <1>7, <1>8 DEF RequestOf, RowOf, OnceOf, Keys
<1>10. \A q \in ReportIds \ {r} : RequestOf(q)' /\ RowOf(q)' /\ OnceOf(q)'
  BY <1>7 DEF ReportsInv, RequestOf, RowOf, OnceOf
<1>11. ASSUME NEW w \in Workers PROVE TaskOf(w)'
  <2>1. wpc[w] # "idle" => job[w] \in ReportIds \ {r} BY <1>1, <1>6 DEF StoreTypes, TaskTypes
  <2> QED BY <1>7, <2>1 DEF ReportsInv, TaskOf
<1> QED BY <1>5, <1>9, <1>10, <1>11 DEF ReportsInv

\* The message of a report that has been committed.
LEMMA SentReports ==
  ASSUME ReportsInv, NEW r \in ReportIds, UNCHANGED <<version, reports, objects, requested, redelivered>>,
         At(r, "committed", "done"), Sent(r) \/ UNCHANGED queue,
         UNCHANGED <<pool, wpc, job, loaded, bundle, edits>>
  PROVE  ReportsInv'
<1> USE ReportsAssumption
<1>1. StoreTypes /\ TaskTypes BY DEF ReportsInv
<1>2. hpc[r] = "committed" /\ hpc' = [hpc EXCEPT ![r] = "done"] BY DEF At
<1>3. /\ queue[r] = 0 /\ r \notin redelivered /\ (\A w \in Workers : job[w] # r)
      /\ reports[r] # None /\ reports[r].status = "GENERATING"
  BY <1>2 DEF ReportsInv, RequestOf, OnceOf
<1>4. /\ queue'[r] \in {0, 1} /\ hpc'[r] = "done" /\ queue' \in [ReportIds -> 0..2]
      /\ \A q \in ReportIds \ {r} : queue'[q] = queue[q] /\ hpc'[q] = hpc[q]
  <2>1. queue \in [ReportIds -> 0..2] /\ hpc \in [ReportIds -> {"none", "committed", "done"}]
    BY <1>1 DEF StoreTypes, TaskTypes
  <2>2. CASE Sent(r)
    <3>1. queue' = [queue EXCEPT ![r] = 1] BY <1>3, <2>1, <2>2 DEF Sent
    <3> QED BY <1>2, <2>1, <3>1
  <2>3. CASE UNCHANGED queue BY <1>2, <1>3, <2>1, <2>3
  <2> QED BY <2>2, <2>3
<1>6. StoreTypes' /\ TaskTypes' BY <1>1, <1>2, <1>4 DEF StoreTypes, TaskTypes
<1>7. RequestOf(r)' /\ OnceOf(r)'
  BY <1>2, <1>3, <1>4 DEF ReportsInv, RequestOf, OnceOf
<1>8. \A q \in ReportIds \ {r} : RequestOf(q)' /\ OnceOf(q)'
  BY <1>4 DEF ReportsInv, RequestOf, OnceOf
<1>9. \A q \in ReportIds : RowOf(q)' BY DEF ReportsInv, RowOf
<1>10. \A w \in Workers : TaskOf(w)' BY DEF ReportsInv, TaskOf
<1> QED BY <1>6, <1>7, <1>8, <1>9, <1>10 DEF ReportsInv

LEMMA RedeliverReports ==
  ASSUME ReportsInv, NEW r \in ReportIds, Redeliver(r)
  PROVE  ReportsInv'
<1> USE ReportsAssumption
<1>1. StoreTypes /\ TaskTypes BY DEF ReportsInv
<1>2. /\ hpc[r] = "done" /\ r \notin redelivered /\ redelivered' = redelivered \cup {r}
      /\ queue' = [queue EXCEPT ![r] = @ + 1]
      /\ UNCHANGED <<version, reports, objects, requested, hpc, pool, wpc, job, loaded, bundle, edits>>
  BY DEF Redeliver, Sent, task
<1>3. queue[r] \in {0, 1} BY <1>1, <1>2 DEF ReportsInv, RequestOf, StoreTypes, TaskTypes
<1>4. queue' \in [ReportIds -> 0..2] /\ \A q \in ReportIds \ {r} : queue'[q] = queue[q]
  BY <1>1, <1>2, <1>3 DEF StoreTypes, TaskTypes
<1>6. StoreTypes' /\ TaskTypes' BY <1>1, <1>2, <1>4 DEF StoreTypes, TaskTypes
<1>7. RequestOf(r)' /\ OnceOf(r)' BY <1>2 DEF ReportsInv, RequestOf, OnceOf
<1>8. \A q \in ReportIds \ {r} : RequestOf(q)' /\ OnceOf(q)'
  BY <1>2, <1>4 DEF ReportsInv, RequestOf, OnceOf
<1>9. \A q \in ReportIds : RowOf(q)' BY <1>2 DEF ReportsInv, RowOf
<1>10. \A w \in Workers : TaskOf(w)' BY <1>2 DEF ReportsInv, TaskOf
<1> QED BY <1>6, <1>7, <1>8, <1>9, <1>10 DEF ReportsInv

-----------------------------------------------------------------------------
(* The task.                                                               *)

LEMMA EndedTypes ==
  ASSUME TaskTypes, NEW w \in Workers, EndTask(w)
  PROVE  TaskTypes'
<1>1. <<>> \in Seq(0..MaxEdits) /\ Len(<<>>) = 0 OBVIOUS
<1> QED BY <1>1 DEF EndTask, TaskTypes

\* Whatever ends a task without writing.
LEMMA EndedReports ==
  ASSUME ReportsInv, NEW w \in Workers, EndTask(w), UNCHANGED <<shared, pool, edits>>
  PROVE  ReportsInv'
<1> USE ReportsAssumption
<1>1. StoreTypes /\ TaskTypes BY DEF ReportsInv
<1>2. UNCHANGED <<version, reports, objects, requested, hpc, queue, redelivered, pool, edits>>
  BY DEF shared
<1>3. /\ wpc'[w] = "idle" /\ job'[w] = None /\ bundle'[w] = <<>>
      /\ \A v \in Workers \ {w} : /\ wpc'[v] = wpc[v] /\ job'[v] = job[v]
                                  /\ loaded'[v] = loaded[v] /\ bundle'[v] = bundle[v]
  BY <1>1 DEF EndTask, StoreTypes, TaskTypes
<1>4. StoreTypes' /\ TaskTypes'
  <2>1. StoreTypes' BY <1>1, <1>2 DEF StoreTypes
  <2>2. TaskTypes' BY <1>1, EndedTypes
  <2> QED BY <2>1, <2>2
<1>5. \A r \in ReportIds : r # None BY DEF Keys
<1>6. \A r \in ReportIds : RequestOf(r)' BY <1>2, <1>3, <1>5 DEF ReportsInv, RequestOf
<1>7. \A r \in ReportIds : RowOf(r)' BY <1>2 DEF ReportsInv, RowOf
<1>8. \A r \in ReportIds : OnceOf(r)' BY <1>2, <1>3, <1>5 DEF ReportsInv, OnceOf
<1>9. \A v \in Workers : TaskOf(v)' BY <1>2, <1>3 DEF ReportsInv, TaskOf
<1> QED BY <1>4, <1>6, <1>7, <1>8, <1>9 DEF ReportsInv

LEMMA TakeReports ==
  ASSUME ReportsInv, NEW w \in Workers, NEW r \in ReportIds, Take(w, r)
  PROVE  ReportsInv'
<1> USE ReportsAssumption
<1>1. StoreTypes /\ TaskTypes BY DEF ReportsInv
<1>2. /\ UNCHANGED <<version, reports, objects, requested, hpc, redelivered, pool, edits, bundle>>
      /\ wpc[w] = "idle" /\ queue[r] > 0 /\ queue' = [queue EXCEPT ![r] = @ - 1]
  BY DEF Take, task
<1>3. /\ queue' \in [ReportIds -> 0..2] /\ queue'[r] < queue[r] /\ queue[r] \in 1..2
      /\ \A q \in ReportIds \ {r} : queue'[q] = queue[q]
  BY <1>1, <1>2 DEF StoreTypes, TaskTypes
<1>4. reports[r] # None /\ hpc[r] = "done"
  BY <1>1, <1>2 DEF ReportsInv, RequestOf, StoreTypes, TaskTypes
<1>5. /\ wpc' = [wpc EXCEPT ![w] = "read"] /\ job' = [job EXCEPT ![w] = r]
      /\ loaded' = [loaded EXCEPT ![w] = reports[r]]
  BY <1>4 DEF Take
<1>6. /\ wpc'[w] = "read" /\ job'[w] = r /\ loaded'[w] = reports[r] /\ bundle[w] = <<>>
      /\ \A v \in Workers \ {w} : wpc'[v] = wpc[v] /\ job'[v] = job[v] /\ loaded'[v] = loaded[v]
  BY <1>1, <1>2, <1>5 DEF ReportsInv, TaskOf, StoreTypes, TaskTypes
<1>7. r # None BY DEF Keys
<1>8. StoreTypes' /\ TaskTypes'
  <2>1. StoreTypes' BY <1>1, <1>2, <1>3 DEF StoreTypes
  <2>2. /\ wpc' \in [Workers -> {"idle", "read", "build", "ready", "failed"}]
        /\ job' \in [Workers -> ReportIds \cup {None}] /\ loaded' \in [Workers -> Rows \cup {None}]
    BY <1>1, <1>5 DEF StoreTypes, TaskTypes
  <2>3. \A v \in Workers : job'[v] = None <=> wpc'[v] = "idle" BY <1>1, <1>6, <1>7 DEF TaskTypes
  <2>4. TaskTypes' BY <1>1, <1>2, <2>2, <2>3 DEF TaskTypes
  <2> QED BY <2>1, <2>4
<1>9. ASSUME NEW q \in ReportIds PROVE RequestOf(q)'
  <2>1. RequestOf(q) /\ queue[q] \in 0..2 /\ queue'[q] \in 0..2
    BY <1>1, <1>3 DEF ReportsInv, StoreTypes, TaskTypes
  <2> QED BY <1>2, <1>3, <1>4, <1>6, <2>1 DEF RequestOf
<1>10. \A q \in ReportIds : RowOf(q)' BY <1>2 DEF ReportsInv, RowOf
<1>11. ASSUME NEW q \in ReportIds \ {r} PROVE OnceOf(q)'
  <2>1. \A v \in Workers : job'[v] = q => job[v] = q /\ v # w BY <1>6
  <2> QED BY <1>2, <1>3, <2>1 DEF ReportsInv, OnceOf
<1>12. OnceOf(r)'
  <2> SUFFICES ASSUME r \notin redelivered PROVE OnceOf(r)' BY <1>2 DEF OnceOf
  <2>1. queue[r] = 1 /\ queue'[r] = 0 BY <1>1, <1>3 DEF ReportsInv, RequestOf, StoreTypes, TaskTypes
  <2>2. reports[r].status = "GENERATING" /\ \A v \in Workers : job[v] # r
    BY <2>1 DEF ReportsInv, OnceOf
  <2> QED BY <1>2, <1>4, <1>6, <2>1, <2>2 DEF OnceOf
<1>13. TaskOf(w)' BY <1>2, <1>4, <1>6 DEF ReportsInv, RowOf, TaskOf
<1>14. \A v \in Workers \ {w} : TaskOf(v)' BY <1>2, <1>6 DEF ReportsInv, TaskOf
<1> QED BY <1>8, <1>9, <1>10, <1>11, <1>12, <1>13, <1>14 DEF ReportsInv

LEMMA ReadReports ==
  ASSUME ReportsInv, NEW w \in Workers, Read(w)
  PROVE  ReportsInv'
<1> USE ReportsAssumption
<1>1. StoreTypes /\ TaskTypes /\ TaskOf(w) BY DEF ReportsInv
<1>2. /\ UNCHANGED <<version, reports, objects, requested, hpc, queue, redelivered, pool, job, loaded, edits>>
      /\ wpc[w] = "read" /\ bundle[w] \in Seq(0..MaxEdits) /\ job[w] \in ReportIds
  BY <1>1 DEF Read, shared, TaskTypes
<1>3. PICK n \in 1..6 : n = Len(bundle[w]) + 1
  <2>1. Len(bundle[w]) \in 0..6 /\ Len(bundle[w]) < 6 BY <1>1, <1>2 DEF TaskOf, TaskTypes
  <2>2. Len(bundle[w]) + 1 \in 1..6 BY <2>1
  <2> QED BY <2>2
<1>4. /\ Parts[n] \in Range(Parts) /\ version[Parts[n]] \in 0..MaxEdits
  BY <1>1, PartsFacts DEF StoreTypes, Contents
<1>5. PICK new \in Seq(0..MaxEdits) : new = Append(bundle[w], version[Parts[n]])
  <2>1. Append(bundle[w], version[Parts[n]]) \in Seq(0..MaxEdits) BY <1>2, <1>4, AppendProperties
  <2> QED BY <2>1
<1>6. Len(new) = n /\ new[n] = version[Parts[n]] /\ \A k \in 1..(n - 1) : new[k] = bundle[w][k]
  BY <1>2, <1>3, <1>4, <1>5
<1>7. /\ bundle'[w] = new /\ bundle' \in [Workers -> Seq(0..MaxEdits)]
      /\ \A v \in Workers \ {w} : bundle'[v] = bundle[v]
  BY <1>1, <1>3, <1>5 DEF Read, TaskTypes
<1>8. PICK next \in {"read", "build"} : next = IF n = 6 THEN "build" ELSE "read" OBVIOUS
<1>9. wpc' = [wpc EXCEPT ![w] = next] BY <1>6, <1>7, <1>8, PartsFacts DEF Read
<1>10. wpc'[w] = next /\ \A v \in Workers \ {w} : wpc'[v] = wpc[v]
  BY <1>1, <1>9 DEF TaskTypes
<1>11. StoreTypes' /\ TaskTypes'
  <2>1. StoreTypes' BY <1>1, <1>2 DEF StoreTypes
  <2>2. wpc' \in [Workers -> {"idle", "read", "build", "ready", "failed"}]
    BY <1>1, <1>9 DEF TaskTypes
  <2>3. \A v \in Workers : Len(bundle'[v]) \in 0..6
    <3>0. n \in 0..6 BY <1>3
    <3>1. Len(bundle'[w]) = n BY <1>6, <1>7
    <3> QED BY <1>1, <1>7, <3>0, <3>1 DEF TaskTypes
  <2>4. \A v \in Workers : job'[v] = None <=> wpc'[v] = "idle" BY <1>1, <1>2, <1>10 DEF TaskTypes
  <2>5. TaskTypes' BY <1>1, <1>2, <1>7, <2>2, <2>3, <2>4 DEF TaskTypes
  <2> QED BY <2>1, <2>5
<1>12. \A r \in ReportIds : RequestOf(r)' /\ RowOf(r)' /\ OnceOf(r)'
  BY <1>2 DEF ReportsInv, RequestOf, RowOf, OnceOf
<1>13. TaskOf(w)'
  <2>1. requested[job[w]] # None /\ requested[job[w]][Parts[n]] <= version[Parts[n]]
    BY <1>1, <1>2, <1>4 DEF ReportsInv, TaskOf, RequestOf
  <2>2. requested[job[w]] \in Contents BY <1>1, <1>2, <2>1 DEF StoreTypes
  <2>3. requested[job[w]][Parts[n]] \in Nat BY <1>4, <2>2 DEF Contents
  <2>4. version[Parts[n]] >= requested[job[w]][Parts[n]] BY <1>4, <2>1, <2>3
  <2>5. \A k \in 1..(n - 1) : bundle[w][k] >= requested[job[w]][Parts[k]]
    <3>1. n - 1 = Len(bundle[w]) BY <1>1, <1>3 DEF TaskTypes
    <3> QED BY <1>1, <1>2, <3>1 DEF TaskOf
  <2>6. ASSUME NEW k \in 1..n PROVE new[k] >= requested[job[w]][Parts[k]]
    <3>1. CASE k = n BY <1>6, <2>4, <3>1
    <3>2. CASE k # n
      <4>1. k \in 1..(n - 1) BY <3>2
      <4> QED BY <1>6, <2>5, <4>1
    <3> QED BY <3>1, <3>2
  <2>7. /\ reports[job[w]] # None /\ loaded[w] # None
        /\ loaded[w].storage_path = job[w] => reports[job[w]].storage_path = job[w]
        /\ loaded[w].status = "READY" => loaded[w].storage_path = job[w]
    BY <1>1, <1>2 DEF TaskOf
  <2>8. /\ bundle'[w] = new /\ Len(new) = n /\ n \in 1..6 /\ wpc'[w] \in {"read", "build"}
        /\ (wpc'[w] = "read" => n < 6) /\ (wpc'[w] = "build" => n = 6)
    <3>1. bundle'[w] = new /\ Len(new) = n BY <1>6, <1>7
    <3>2. wpc'[w] = IF n = 6 THEN "build" ELSE "read" BY <1>8, <1>10
    <3>3. (n # 6 => n < 6) /\ n \in 1..6 OBVIOUS
    <3> QED BY <3>1, <3>2, <3>3
  <2> QED BY <1>2, <2>6, <2>7, <2>8 DEF TaskOf
<1>14. \A v \in Workers \ {w} : TaskOf(v)' BY <1>2, <1>7, <1>10 DEF ReportsInv, TaskOf
<1> QED BY <1>11, <1>12, <1>13, <1>14 DEF ReportsInv

\* The PDF replaces the report's own object only, and is as fresh as what was read.
LEMMA UploadReports ==
  ASSUME ReportsInv, NEW w \in Workers, Upload(w)
  PROVE  ReportsInv'
<1> USE ReportsAssumption
<1> DEFINE pdf == Pdf(bundle[w])
<1>1. StoreTypes /\ TaskTypes BY DEF ReportsInv
<1>0. PICK r \in ReportIds : r = job[w] BY <1>1 DEF Upload, TaskTypes
<1>2. /\ UNCHANGED <<version, reports, requested, hpc, queue, redelivered, pool, job, loaded, bundle, edits>>
      /\ wpc[w] = "build" /\ wpc' = [wpc EXCEPT ![w] = "ready"]
      /\ objects' = [objects EXCEPT ![r] = pdf]
  BY <1>0 DEF Upload, ReportKey
<1>3. /\ bundle[w] \in Seq(0..MaxEdits) /\ Len(bundle[w]) = 6 /\ r \in Keys
      /\ \A k \in 1..6 : bundle[w][k] >= requested[r][Parts[k]]
      /\ reports[r] # None
  <2>1. TaskOf(w) BY DEF ReportsInv
  <2> QED BY <1>0, <1>1, <1>2, <2>1 DEF TaskOf, TaskTypes, Keys
<1>4. ASSUME NEW p \in Range(Parts) PROVE pdf[p] \in 0..MaxEdits /\ pdf[p] >= requested[r][p]
  <2>1. PICK k \in 1..6 : Parts[k] = p /\ pdf[p] = bundle[w][k] BY PdfShows
  <2>2. bundle[w][k] \in 0..MaxEdits
    <3>1. k \in 1..Len(bundle[w]) BY <1>3
    <3> QED BY <1>3, <3>1, ElementOfSeq
  <2> QED BY <1>3, <2>1, <2>2
<1>5. pdf \in Contents BY <1>4 DEF Pdf, Contents
<1>6. pdf # None BY <1>5
<1> HIDE DEF pdf
<1>7. /\ objects'[r] = pdf /\ \A k \in Keys \ {r} : objects'[k] = objects[k]
      /\ wpc'[w] = "ready" /\ \A v \in Workers \ {w} : wpc'[v] = wpc[v]
  BY <1>1, <1>2, <1>3 DEF StoreTypes, TaskTypes
<1>8. StoreTypes' /\ TaskTypes'
  <2>1. objects' \in [Keys -> Contents \cup {None}] BY <1>1, <1>2, <1>5 DEF StoreTypes
  <2>2. StoreTypes' BY <1>1, <1>2, <2>1 DEF StoreTypes
  <2>3. wpc' \in [Workers -> {"idle", "read", "build", "ready", "failed"}] BY <1>1, <1>2 DEF TaskTypes
  <2>4. \A v \in Workers : job'[v] = None <=> wpc'[v] = "idle" BY <1>1, <1>2, <1>7 DEF TaskTypes
  <2>5. TaskTypes' BY <1>1, <1>2, <2>3, <2>4 DEF TaskTypes
  <2> QED BY <2>2, <2>5
<1>9. \A q \in ReportIds : RequestOf(q)' /\ OnceOf(q)'
  BY <1>2 DEF ReportsInv, RequestOf, OnceOf
<1>10. RowOf(r)'
  <2>1. RowOf(r) BY <1>3 DEF ReportsInv
  <2>2. \A p \in Range(Parts) : objects'[r][p] >= requested'[r][p] BY <1>2, <1>4, <1>7
  <2> QED BY <1>2, <1>3, <1>6, <1>7, <2>1, <2>2 DEF RowOf
<1>11. \A q \in ReportIds \ {r} : RowOf(q)' BY <1>2, <1>7 DEF ReportsInv, RowOf, Keys
<1>12. TaskOf(w)' BY <1>0, <1>2, <1>6, <1>7 DEF ReportsInv, TaskOf
<1>13. ASSUME NEW v \in Workers \ {w} PROVE TaskOf(v)'
  <2>1. wpc[v] = "ready" => job[v] \in Keys /\ objects[job[v]] # None
    BY <1>1 DEF ReportsInv, TaskOf, StoreTypes, TaskTypes, Keys
  <2>2. wpc[v] = "ready" => objects'[job[v]] # None BY <1>6, <1>7, <2>1
  <2> QED BY <1>2, <1>7, <2>2 DEF ReportsInv, TaskOf
<1> QED BY <1>8, <1>9, <1>10, <1>11, <1>12, <1>13 DEF ReportsInv

LEMMA GenerationFailsReports ==
  ASSUME ReportsInv, NEW w \in Workers, GenerationFails(w)
  PROVE  ReportsInv'
<1>1. StoreTypes /\ TaskTypes BY DEF ReportsInv
<1>2. /\ UNCHANGED <<version, reports, objects, requested, hpc, queue, redelivered, pool, job, loaded, bundle, edits>>
      /\ wpc[w] = "build" /\ wpc' = [wpc EXCEPT ![w] = "failed"]
  BY DEF GenerationFails, shared
<1>3. /\ wpc' \in [Workers -> {"idle", "read", "build", "ready", "failed"}]
      /\ wpc'[w] = "failed" /\ \A v \in Workers \ {w} : wpc'[v] = wpc[v]
  BY <1>1, <1>2 DEF StoreTypes, TaskTypes
<1>5. StoreTypes' /\ TaskTypes' BY <1>1, <1>2, <1>3 DEF StoreTypes, TaskTypes
<1>6. \A r \in ReportIds : RequestOf(r)' /\ RowOf(r)' /\ OnceOf(r)'
  BY <1>2 DEF ReportsInv, RequestOf, RowOf, OnceOf
<1>7. \A v \in Workers : TaskOf(v)' BY <1>2, <1>3 DEF ReportsInv, TaskOf
<1> QED BY <1>5, <1>6, <1>7 DEF ReportsInv

\* A commit leaves the path null or leading to the report's PDF, whatever row the task has
\* loaded and whatever others have committed since.
LEMMA CommitReports ==
  ASSUME ReportsInv, NEW w \in Workers, Commit(w)
  PROVE  ReportsInv'
<1> USE ReportsAssumption
<1>1. StoreTypes /\ TaskTypes BY DEF ReportsInv
<1>0. PICK r \in ReportIds : r = job[w] BY <1>1 DEF Commit, TaskTypes
<1> DEFINE new == reports'[r]
<1>2. /\ UNCHANGED <<version, objects, requested, hpc, queue, redelivered, pool, edits>>
      /\ wpc[w] \in {"ready", "failed"} /\ EndTask(w)
  BY DEF Commit
<1>3. /\ r # None /\ r \in Keys /\ reports[r] \in Rows /\ reports[r] # None
      /\ loaded[w] \in Rows /\ TaskOf(w)
  BY <1>0, <1>1, <1>2 DEF ReportsInv, TaskOf, StoreTypes, TaskTypes, Keys
<1>4. /\ new \in Rows
      /\ reports' = [reports EXCEPT ![r] = new]
      /\ new.storage_path \in {None, r}
      /\ new.storage_path = r => objects[r] # None
      /\ new.status = "READY" => new.storage_path = r
      /\ reports[r].storage_path = r => new.storage_path = r
  <2>0. RowOf(r) BY <1>3 DEF ReportsInv
  <2>1. CASE wpc[w] = "ready"
    <3>1. reports' = [reports EXCEPT ![r] = ReadyRow(w)] BY <1>0, <2>1 DEF Commit
    <3>2. new = ReadyRow(w) BY <1>1, <1>3, <3>1 DEF StoreTypes, TaskTypes
    <3>3. objects[r] # None BY <1>0, <1>3, <2>1 DEF TaskOf
    <3>4. /\ ReadyRow(w) \in Rows /\ ReadyRow(w).storage_path = r
          /\ ReadyRow(w).status \in {"READY", reports[r].status}
      BY <1>0, <1>2, <1>3, <2>0 DEF ReadyRow, Rows, Column, ReportKey, TaskOf, RowOf
    <3> QED BY <3>1, <3>2, <3>3, <3>4
  <2>2. CASE wpc[w] = "failed"
    <3>1. reports' = [reports EXCEPT ![r] = FailedRow(w)] BY <1>0, <2>2 DEF Commit
    <3>2. new = FailedRow(w) BY <1>1, <1>3, <3>1 DEF StoreTypes, TaskTypes
    <3>3. /\ FailedRow(w) \in Rows /\ FailedRow(w).storage_path = reports[r].storage_path
          /\ FailedRow(w).status \in {"FAILED", reports[r].status}
      BY <1>0, <1>3 DEF FailedRow, Rows, Column
    <3> QED BY <1>3, <2>0, <3>1, <3>2, <3>3 DEF RowOf
  <2> QED BY <1>2, <2>1, <2>2
<1>5. new # None BY <1>4
<1>6. /\ wpc'[w] = "idle" /\ job'[w] = None /\ bundle'[w] = <<>>
      /\ \A v \in Workers \ {w} : /\ wpc'[v] = wpc[v] /\ job'[v] = job[v]
                                  /\ loaded'[v] = loaded[v] /\ bundle'[v] = bundle[v]
      /\ \A q \in ReportIds \ {r} : reports'[q] = reports[q]
  BY <1>0, <1>1, <1>2, <1>4 DEF EndTask, StoreTypes, TaskTypes
<1> HIDE DEF new
<1>7. StoreTypes' /\ TaskTypes'
  <2>1. reports' \in [ReportIds -> Rows \cup {None}] BY <1>1, <1>4, <1>5 DEF StoreTypes
  <2>2. StoreTypes' BY <1>1, <1>2, <2>1 DEF StoreTypes
  <2>3. TaskTypes' BY <1>1, <1>2, EndedTypes
  <2> QED BY <2>2, <2>3
<1>8. reports'[r] = new BY DEF new
<1>9. ASSUME NEW q \in ReportIds PROVE RequestOf(q)'
  <2>1. RequestOf(q) /\ q # None BY DEF ReportsInv, Keys
  <2>2. reports'[q] = None <=> reports[q] = None BY <1>3, <1>5, <1>6, <1>8
  <2> QED BY <1>2, <1>6, <2>1, <2>2 DEF RequestOf
<1>10. RowOf(r)' BY <1>2, <1>3, <1>4, <1>5, <1>8 DEF ReportsInv, RowOf
<1>11. \A q \in ReportIds \ {r} : RowOf(q)' BY <1>2, <1>6 DEF ReportsInv, RowOf
<1>12. OnceOf(r)'
  <2> SUFFICES ASSUME r \notin redelivered PROVE OnceOf(r)' BY <1>2 DEF OnceOf
  <2>1. queue[r] = 0 /\ hpc[r] # "committed" /\ \A v \in Workers : job[v] = r => v = w
    BY <1>0, <1>3 DEF ReportsInv, OnceOf, RequestOf
  <2> QED BY <1>2, <1>3, <1>6, <2>1 DEF OnceOf
<1>13. \A q \in ReportIds \ {r} : OnceOf(q)' BY <1>2, <1>6 DEF ReportsInv, OnceOf, Keys
<1>14. TaskOf(w)' BY <1>6 DEF TaskOf
<1>15. ASSUME NEW v \in Workers \ {w} PROVE TaskOf(v)'
  <2>1. TaskOf(v) /\ (wpc[v] # "idle" => job[v] \in ReportIds) BY <1>1 DEF ReportsInv, StoreTypes, TaskTypes
  <2>2. wpc[v] # "idle" => /\ reports'[job[v]] # None
                           /\ reports[job[v]].storage_path = job[v] => reports'[job[v]].storage_path = job[v]
    BY <1>4, <1>5, <1>6, <1>8, <2>1 DEF TaskOf
  <2> QED BY <1>2, <1>6, <2>1, <2>2 DEF TaskOf
<1> QED BY <1>7, <1>9, <1>10, <1>11, <1>12, <1>13, <1>14, <1>15 DEF ReportsInv

-----------------------------------------------------------------------------
(* Every step.                                                             *)

LEMMA NextReports == ReportsInv /\ [Next]_vars => ReportsInv'
<1> SUFFICES ASSUME ReportsInv, [Next]_vars PROVE ReportsInv' OBVIOUS
<1>1. CASE Edit BY <1>1, EditReports
<1>2. ASSUME NEW r \in ReportIds, TriggerGeneration(r) \/ TriggerFails(r) \/ Redeliver(r)
      PROVE  ReportsInv'
  <2>1. CASE TriggerGeneration(r)
    BY <2>1, CreatedReports, SentReports DEF TriggerGeneration, CommitThenSend, task
  <2>2. CASE TriggerFails(r) BY <2>2, SentReports DEF TriggerFails, task
  <2>3. CASE Redeliver(r) BY <2>3, RedeliverReports
  <2> QED BY <1>2, <2>1, <2>2, <2>3
<1>3. ASSUME NEW w \in Workers, Progress(w) PROVE ReportsInv'
  BY <1>3, ReadReports, UploadReports, GenerationFailsReports, CommitReports, TakeReports
     DEF Progress
<1>4. ASSUME NEW w \in Workers, TaskDies(w) PROVE ReportsInv'
  BY <1>4, EndedReports DEF TaskDies
<1>5. CASE UNCHANGED vars
  <2>1. /\ UNCHANGED <<version, reports, objects, requested, hpc, queue, redelivered, pool>>
        /\ UNCHANGED <<wpc, job, loaded, bundle, edits>>
    BY <1>5 DEF vars, shared, task
  <2>2. StoreTypes' /\ TaskTypes' BY <2>1 DEF ReportsInv, StoreTypes, TaskTypes
  <2>3. \A r \in ReportIds : RequestOf(r)' /\ RowOf(r)' /\ OnceOf(r)'
    BY <2>1 DEF ReportsInv, RequestOf, RowOf, OnceOf
  <2>4. \A w \in Workers : TaskOf(w)' BY <2>1 DEF ReportsInv, TaskOf
  <2> QED BY <2>2, <2>3, <2>4 DEF ReportsInv
<1> QED BY <1>1, <1>2, <1>3, <1>4, <1>5 DEF Next

LEMMA ReportsInvariant == Spec => []ReportsInv
<1>1. ReportsInv /\ [Next]_vars => ReportsInv' BY NextReports
<1> QED BY <1>1, InitReports, PTL DEF Spec

\* The variables of Reports keep their types; in particular a message is never queued more
\* than twice, and a row never refers to the PDF of another report.
THEOREM ReportsTypeCorrect == Spec => []TypeOK
<1>1. ReportsInv => TypeOK
  <2> SUFFICES ASSUME ReportsInv, StoreTypes, TaskTypes PROVE TypeOK BY DEF ReportsInv
  <2>1. ASSUME NEW w \in Workers PROVE Len(bundle[w]) <= Len(Parts)
    <3>1. Len(bundle[w]) \in 0..6 BY DEF TaskTypes
    <3>2. \A n \in 0..6 : n <= Len(Parts) BY PartsFacts
    <3> QED BY <3>1, <3>2
  <2>2. \A w \in Workers : bundle[w] \in Seq(0..MaxEdits) /\ (job[w] = None <=> wpc[w] = "idle")
    BY DEF TaskTypes
  <2>3. \A r \in ReportIds : reports[r] # None => reports[r].storage_path \in {None, r}
    BY DEF ReportsInv, RowOf
  <2> QED BY <2>1, <2>2, <2>3 DEF StoreTypes, TaskTypes, TypeOK
<1> QED BY <1>1, ReportsInvariant, PTL

\* ReportService.generate never marks a report READY without its PDF, nor shows in it data
\* older than its request, however many workers overlap on it, die or start over.
THEOREM ReadyIsAlwaysCurrent == Spec => []ReadyIsCurrent
<1>1. ReportsInv => ReadyIsCurrent
  <2> SUFFICES ASSUME ReportsInv, NEW r \in ReportIds, reports[r] # None, reports[r].status = "READY"
      PROVE  Download(r) # None /\ \A p \in Range(Parts) : Download(r)[p] >= requested[r][p]
    BY DEF ReadyIsCurrent
  <2>1. reports[r].storage_path = r /\ objects[r] # None BY DEF ReportsInv, RowOf
  <2>2. r # None BY ReportsAssumption DEF Keys
  <2>3. Download(r) = objects[r] BY <2>1, <2>2 DEF Download
  <2> QED BY <2>1, <2>3 DEF ReportsInv, RowOf
<1> QED BY <1>1, ReportsInvariant, PTL

\* A report whose message is not repeated has no task left once it can be downloaded.
LEMMA DownloadIsFinal ==
  ASSUME ReportsInv, [Next]_vars, NEW r \in ReportIds, Download(r) # None, r \notin redelivered'
  PROVE  Download(r)' = Download(r)
<1> USE ReportsAssumption
<1>1. StoreTypes /\ TaskTypes /\ RequestOf(r) /\ RowOf(r) /\ OnceOf(r) /\ r # None /\ r \in Keys
  BY DEF ReportsInv, Keys
<1>2. reports[r] # None /\ reports[r].status = "READY" /\ reports[r].storage_path = r
  BY <1>1 DEF Download, RowOf
<1>3. r \notin redelivered
  BY DEF Next, Edit, TriggerGeneration, TriggerFails, Redeliver, Progress, Take, Read, Upload,
         GenerationFails, Commit, TaskDies, vars, shared
<1>4. hpc[r] = "done" /\ \A w \in Workers : job[w] # r
  BY <1>1, <1>2, <1>3 DEF OnceOf, RequestOf, StoreTypes
<1>5. reports'[r] = reports[r] /\ objects'[r] = objects[r]
  <2>1. CASE UNCHANGED vars BY <2>1 DEF vars, shared
  <2>2. CASE Edit BY <2>2 DEF Edit
  <2>3. ASSUME NEW q \in ReportIds, TriggerGeneration(q) \/ TriggerFails(q) \/ Redeliver(q)
        PROVE  reports'[r] = reports[r] /\ objects'[r] = objects[r]
    BY <1>1, <1>4, <2>3
       DEF TriggerGeneration, CommitThenSend, At, Created, TriggerFails, Redeliver, StoreTypes
  <2>4. ASSUME NEW w \in Workers, Upload(w)
        PROVE  reports'[r] = reports[r] /\ objects'[r] = objects[r]
    BY <1>1, <1>4, <2>4 DEF Upload, ReportKey, StoreTypes
  <2>5. ASSUME NEW w \in Workers, Commit(w)
        PROVE  reports'[r] = reports[r] /\ objects'[r] = objects[r]
    BY <1>1, <1>4, <2>5 DEF Commit, StoreTypes
  <2>6. ASSUME NEW w \in Workers, Read(w) \/ GenerationFails(w) \/ TaskDies(w) \/ \E q \in ReportIds : Take(w, q)
        PROVE  reports'[r] = reports[r] /\ objects'[r] = objects[r]
    BY <2>6 DEF Read, GenerationFails, TaskDies, Take, shared
  <2> QED BY <2>1, <2>2, <2>3, <2>4, <2>5, <2>6 DEF Next, Progress
<1> QED BY <1>1, <1>2, <1>5 DEF Download

\* No later report of the shipment changes what a report shows, because every PDF is stored
\* under its report's own key; only a repeated message of the report itself may.
THEOREM HistoryIsKept == Spec => HistoryKept
<1>1. ReportsInv /\ [Next]_vars
      => [\A r \in ReportIds : Download(r) # None /\ r \notin redelivered' => Download(r)' = Download(r)]_vars
  BY DownloadIsFinal
<1> QED BY <1>1, ReportsInvariant, PTL DEF Spec, HistoryKept
=============================================================================
