-------------------------- MODULE ConsistencyProofs --------------------------
(***************************************************************************)
(* Proofs about Consistency for any documents, extracted values, workers   *)
(* and requests, and any failures.                                         *)
(***************************************************************************)
EXTENDS Consistency, FiniteSetTheorems, TLAPS

-----------------------------------------------------------------------------
(* The inductive invariant.                                                *)

RowRecord == [found : CandidateRecord, acknowledged : BOOLEAN]

DocumentTypes ==
  /\ DOMAIN content = Docs
  /\ \A d \in Docs : Settled(d) => content[d] \in Contents[d]

RowTypes == rows \in [RowIds -> RowRecord \cup {NoRow}]

MessageTypes ==
  /\ unsent \in Nat /\ pending \in Nat /\ unsent + pending <= settles
  /\ settles \in 0..MaxSettles /\ failures \in 0..MaxFailures

HandlerTypes == hrow \in [Handlers -> RowIds \cup {NoId}]

WorkerTypes ==
  /\ pool \in Pools
  /\ wpc \in [Workers -> {"idle", "compare", "load", "reconcile"}]
  /\ found \in [Workers -> [Fields -> CandidateRecord \cup {NoCandidate}]]
  /\ DOMAIN loaded = Workers

\* What a check has loaded for a field is a row of that field.
IsLoaded(reading, f) ==
  \/ reading = NotLoaded
  \/ reading.id \in RowIds /\ reading.id[1] = f /\ reading.row \in RowRecord

CheckOf(w) ==
  /\ wpc[w] # "idle" => w \in pool
  /\ \A f \in Fields : IsLoaded(loaded[w][f], f)
  /\ wpc[w] # "reconcile" => \A f \in Fields : loaded[w][f] = NotLoaded

ConsistencyInv ==
  /\ DocumentTypes /\ RowTypes /\ MessageTypes /\ HandlerTypes /\ WorkerTypes
  /\ \A w \in Workers : CheckOf(w)

\* What every comparison finds is consistent in itself.
FindingsConsistent ==
  \A w \in Workers, f \in Fields : found[w][f] # NoCandidate => Consistent(f, found[w][f])

OneWorker == \A v, w \in pool : v = w

\* Nobody but its check changes the rows of a worker that runs alone, save for their
\* acknowledgment: when it reconciles, it knows them.
Knows(w, f) ==
  IF loaded[w][f].id = NoId THEN RowsOf(f) = {}
  ELSE /\ RowsOf(f) = {loaded[w][f].id}
       /\ rows[loaded[w][f].id].found = loaded[w][f].row.found

Alone ==
  /\ \A f \in Fields : \A r, s \in RowsOf(f) : r = s
  /\ BlockingMeansQuantitiesDiffer
  /\ \A w \in Workers : wpc[w] = "reconcile" => \A f \in Fields : Knows(w, f)

OneWorkerInv == OneWorker => Alone

\* Without a failure, once no message is left, the rows are what the documents give, or
\* the check under way will make them so.
AgreementInv ==
  OneWorker /\ failures = 0 /\ unsent = 0 /\ pending = 0 =>
    \/ \E w \in Workers : wpc[w] = "compare"
    \/ \E w \in Workers : /\ wpc[w] \in {"load", "reconcile"}
                          /\ \E byType \in ByType : found[w] = Candidates(byType)
    \/ RowsAgree /\ \A w \in Workers : wpc[w] = "idle"

-----------------------------------------------------------------------------
(* The comparison rules.                                                   *)

LEMMA ContentType ==
  ASSUME DocumentTypes, NEW d \in Docs, Settled(d), NEW f \in Fields
  PROVE  content[d][f] \in Values \cup {NoValue}
BY ConsistencyAssumption DEF DocumentTypes

LEMMA ByTypeDocuments ==
  ASSUME NEW byType \in ByType, NEW t \in DocTypes, byType[t] # NoDoc
  PROVE  byType[t] \in Docs /\ DocType[byType[t]] = t /\ Settled(byType[t])
<1>1. byType[t] \in LastOf(t) BY DEF ByType, DocTypes
<1> QED BY <1>1 DEF LastOf

LEMMA TargetDocument ==
  ASSUME NEW byType \in ByType, NEW f \in Fields, Target(byType, f) # NoDoc
  PROVE  Target(byType, f) \in Docs /\ Settled(Target(byType, f))
<1>1. PICK t \in DocTypes : Target(byType, f) = byType[t] BY DEF Target, DocTypes
<1> QED BY <1>1, ByTypeDocuments

\* A comparison finds nothing or a candidate; a blocking one compares two quantities.
LEMMA CandidateFacts ==
  ASSUME DocumentTypes, NEW byType \in ByType, NEW f \in Fields
  PROVE  /\ Candidate(byType, f) \in CandidateRecord \cup {NoCandidate}
         /\ Candidate(byType, f) # NoCandidate => Consistent(f, Candidate(byType, f))
<1> DEFINE invoice == byType["commercial_invoice"]
           target == Target(byType, f)
           a == content[invoice][f]
           b == content[target][f]
           candidate == [severity |-> Severity(f, a, b),
                         documents |-> <<invoice, target>>, description |-> Description(target, a, b)]
<1>1. CASE Candidate(byType, f) = NoCandidate BY <1>1
<1>2. CASE Candidate(byType, f) # NoCandidate
  <2>1. /\ invoice # NoDoc /\ target # NoDoc /\ Candidate(byType, f) = candidate
        /\ ~(a # NoValue /\ b # NoValue /\ Agree(f, a, b))
    BY <1>2 DEF Candidate
  <2>2. invoice \in Docs /\ Settled(invoice) BY <2>1, ByTypeDocuments DEF DocTypes
  <2>3. target \in Docs /\ Settled(target) BY <2>1, TargetDocument
  <2>4. a \in Values \cup {NoValue} /\ b \in Values \cup {NoValue}
    BY <2>2, <2>3, ContentType
  <2>5. DocType[target] \in DocTypes BY <2>3, ConsistencyAssumption
  <2> HIDE DEF invoice, target, a, b
  <2>6. Severity(f, a, b) \in {"warning", "blocking"} BY DEF Severity
  <2>7. Description(target, a, b) \in ({"missing"} \X DocTypes) \cup (DocTypes \X Values \X Values)
    BY <2>4, <2>5 DEF Description, DocTypes
  <2>8. candidate \in CandidateRecord BY <2>2, <2>3, <2>6, <2>7 DEF CandidateRecord
  <2>9. ASSUME Severity(f, a, b) = "blocking"
        PROVE  /\ f = "quantity" /\ Description(target, a, b) = <<DocType[target], a, b>> /\ a # b
    BY <2>1, <2>9 DEF Severity, Description, Agree
  <2>10. Consistent(f, candidate) BY <2>9 DEF Consistent
  <2> QED BY <2>1, <2>8, <2>10
<1> QED BY <1>1, <1>2

LEMMA RowFacts ==
  /\ NoRow \notin RowRecord /\ NoCandidate \notin CandidateRecord
  /\ NoId \notin RowIds
  /\ NotLoaded.id = NoId /\ NotLoaded.row = NoRow
BY DEF NoRow, RowRecord, NoCandidate, CandidateRecord, NoId, RowIds, Fields, NotLoaded

\* An UPDATE writes each column from the new finding or leaves what is there.
LEMMA WrittenColumns ==
  ASSUME NEW current \in CandidateRecord, NEW old \in CandidateRecord, NEW new \in CandidateRecord
  PROVE  /\ WrittenOver(current, old, new) \in CandidateRecord
         /\ current = old => WrittenOver(current, old, new) = new
<1> DEFINE columns == {"severity", "documents", "description"}
           written == WrittenOver(current, old, new)
<1>1. written = [column \in columns |-> IF new[column] = old[column] THEN current[column] ELSE new[column]]
  BY DEF WrittenOver
<1>2. \A column \in columns : written[column] \in {current[column], new[column]} BY <1>1
<1>3. /\ written["severity"] \in {"warning", "blocking"} /\ written["documents"] \in Docs \X Docs
      /\ written["description"] \in ({"missing"} \X DocTypes) \cup (DocTypes \X Values \X Values)
  BY <1>2 DEF CandidateRecord
<1>4. written \in CandidateRecord BY <1>1, <1>3 DEF CandidateRecord
<1>5. ASSUME current = old PROVE written = new
  <2>1. \A column \in columns : written[column] = new[column] BY <1>1, <1>5
  <2> QED BY <1>1, <2>1 DEF CandidateRecord
<1> QED BY <1>4, <1>5

-----------------------------------------------------------------------------
(* What a commit of a check does to one row.                               *)

LEMMA FreshFacts ==
  ASSUME NEW f, FreshIds(f) # {}
  PROVE  /\ FreshId(f) \in RowIds /\ FreshId(f)[1] = f /\ rows[FreshId(f)] = NoRow
         /\ \A w \in Workers : loaded[w][f].id # FreshId(f)
         /\ \A h \in Handlers : hrow[h] # FreshId(f)
<1>1. FreshId(f) \in FreshIds(f) BY DEF FreshId
<1> QED BY <1>1 DEF FreshIds

LEMMA ReconcileEffect ==
  ASSUME ConsistencyInv, NEW w \in Workers, Reconcile(w), NEW r \in RowIds
  PROVE  LET f == r[1] IN
         /\ f \in Fields
         /\ \/ /\ f \in Inserted(w) /\ r = FreshId(f) /\ rows[r] = NoRow
               /\ found[w][f] \in CandidateRecord /\ loaded[w][f].id = NoId
               /\ rows'[r] = [found |-> found[w][f], acknowledged |-> FALSE]
            \/ /\ found[w][f] = NoCandidate /\ r = loaded[w][f].id /\ rows'[r] = NoRow
            \/ /\ r = loaded[w][f].id /\ rows[r] \in RowRecord
               /\ found[w][f] \in CandidateRecord /\ loaded[w][f].row.found \in CandidateRecord
               /\ rows'[r] = UpdatedRow(rows[r], loaded[w][f].row.found, found[w][f])
            \/ /\ rows'[r] = rows[r]
               /\ found[w][f] # NoCandidate => loaded[w][f].id # NoId \/ r # FreshId(f)
               /\ r = loaded[w][f].id => found[w][f] = loaded[w][f].row.found
<1> DEFINE f == r[1]
<1>1. f \in Fields BY DEF RowIds
<1>2. found[w][f] \in CandidateRecord \cup {NoCandidate} /\ IsLoaded(loaded[w][f], f)
  BY <1>1 DEF ConsistencyInv, WorkerTypes, CheckOf
<1>3. rows[r] \in RowRecord \cup {NoRow} BY DEF ConsistencyInv, RowTypes
<1>4. r # NoId BY RowFacts
<1>5. r \in Removed(w) <=> f \in Deleted(w) /\ r = loaded[w][f].id
  <2>1. ASSUME NEW g \in Deleted(w), r = loaded[w][g].id PROVE g = f
    BY <2>1, <1>4, RowFacts DEF ConsistencyInv, CheckOf, IsLoaded, Deleted
  <2> QED BY <2>1 DEF Removed
<1>6. rows'[r] = IF f \in Inserted(w) /\ r = FreshId(f)
                   THEN [found |-> found[w][f], acknowledged |-> FALSE]
                 ELSE IF r \in Removed(w) THEN NoRow
                 ELSE IF f \in Updated(w) /\ r = loaded[w][f].id
                   THEN UpdatedRow(rows[r], loaded[w][f].row.found, found[w][f])
                 ELSE rows[r]
  BY DEF Reconcile, Reconciled
<1> HIDE DEF f
<1>7. CASE f \in Inserted(w) /\ r = FreshId(f)
  <2>1. rows[r] = NoRow BY <1>7, FreshFacts DEF Reconcile
  <2> QED BY <1>1, <1>2, <1>6, <1>7, <2>1 DEF f, Inserted
<1>8. CASE ~(f \in Inserted(w) /\ r = FreshId(f)) /\ r \in Removed(w)
  BY <1>1, <1>5, <1>6, <1>8 DEF f, Deleted
<1>9. CASE /\ ~(f \in Inserted(w) /\ r = FreshId(f)) /\ r \notin Removed(w)
           /\ f \in Updated(w) /\ r = loaded[w][f].id
  <2>1. rows[r] # NoRow BY <1>9 DEF Reconcile, UpdatesLostRow
  <2>2. found[w][f] \in CandidateRecord /\ loaded[w][f].row.found \in CandidateRecord
    BY <1>2, <1>9, RowFacts DEF Updated, IsLoaded, RowRecord
  <2> QED BY <1>1, <1>3, <1>6, <1>9, <2>1, <2>2 DEF f
<1>10. CASE /\ ~(f \in Inserted(w) /\ r = FreshId(f)) /\ r \notin Removed(w)
            /\ ~(f \in Updated(w) /\ r = loaded[w][f].id)
  BY <1>1, <1>4, <1>5, <1>6, <1>10 DEF f, Inserted, Updated, Deleted
<1> QED BY <1>7, <1>8, <1>9, <1>10

-----------------------------------------------------------------------------
(* Types, for any number of workers.                                       *)

LEMMA InitConsistency == Init => ConsistencyInv /\ FindingsConsistent /\ OneWorkerInv
<1> SUFFICES ASSUME Init PROVE ConsistencyInv /\ FindingsConsistent /\ OneWorkerInv OBVIOUS
<1> USE ConsistencyAssumption
<1>1. DocumentTypes BY DEF Init, DocumentTypes, Settled
<1>2. RowTypes BY DEF Init, RowTypes
<1>3. MessageTypes /\ HandlerTypes /\ WorkerTypes
  BY DEF Init, MessageTypes, HandlerTypes, WorkerTypes
<1>4. \A w \in Workers : CheckOf(w) BY DEF Init, CheckOf, IsLoaded
<1>5. FindingsConsistent BY DEF Init, FindingsConsistent
<1>6. \A f \in Fields : RowsOf(f) = {} BY DEF Init, RowsOf
<1>7. BlockingMeansQuantitiesDiffer BY DEF Init, BlockingMeansQuantitiesDiffer
<1>8. OneWorkerInv BY <1>6, <1>7 DEF Init, OneWorkerInv, Alone
<1> QED BY <1>1, <1>2, <1>3, <1>4, <1>5, <1>8 DEF ConsistencyInv

\* A worker whose check has ended; the others go on.
LEMMA EndCheckEffect ==
  ASSUME ConsistencyInv, NEW w \in Workers, EndCheck(w)
  PROVE  /\ pool' = pool /\ WorkerTypes'
         /\ wpc'[w] = "idle" /\ \A f \in Fields : found'[w][f] = NoCandidate /\ loaded'[w][f] = NotLoaded
         /\ \A v \in Workers \ {w} : /\ wpc'[v] = wpc[v] /\ found'[v] = found[v]
                                     /\ loaded'[v] = loaded[v]
         /\ \A v \in Workers : CheckOf(v)'
<1>1. /\ pool' = pool /\ WorkerTypes'
      /\ wpc'[w] = "idle" /\ \A f \in Fields : found'[w][f] = NoCandidate /\ loaded'[w][f] = NotLoaded
      /\ \A v \in Workers \ {w} : /\ wpc'[v] = wpc[v] /\ found'[v] = found[v]
                                  /\ loaded'[v] = loaded[v]
  BY DEF ConsistencyInv, WorkerTypes, EndCheck
<1>2. CheckOf(w)' BY <1>1 DEF CheckOf, IsLoaded
<1>3. \A v \in Workers \ {w} : CheckOf(v)' BY <1>1 DEF ConsistencyInv, CheckOf, IsLoaded
<1> QED BY <1>1, <1>2, <1>3

LEMMA ReconcileRowTypes ==
  ASSUME ConsistencyInv, NEW w \in Workers, Reconcile(w)
  PROVE  RowTypes'
<1>1. ASSUME NEW r \in RowIds PROVE rows'[r] \in RowRecord \cup {NoRow}
  <2> DEFINE f == r[1]
  <2>1. rows[r] \in RowRecord \cup {NoRow} BY DEF ConsistencyInv, RowTypes
  <2>2. CASE found[w][f] \in CandidateRecord /\ rows'[r] = [found |-> found[w][f], acknowledged |-> FALSE]
    BY <2>2 DEF RowRecord
  <2>3. CASE /\ rows[r] \in RowRecord /\ found[w][f] \in CandidateRecord
             /\ loaded[w][f].row.found \in CandidateRecord
             /\ rows'[r] = UpdatedRow(rows[r], loaded[w][f].row.found, found[w][f])
    BY <2>3, WrittenColumns DEF UpdatedRow, RowRecord
  <2> QED BY <2>1, <2>2, <2>3, ReconcileEffect
<1>2. DOMAIN rows' = RowIds /\ rows' = [r \in RowIds |-> rows'[r]] BY DEF Reconcile, Reconciled
<1> QED BY <1>1, <1>2 DEF RowTypes

LEMMA CheckInv ==
  ASSUME ConsistencyInv, NEW w \in Workers, Check(w) \/ CheckFails(w)
  PROVE  ConsistencyInv'
<1> USE DEF ConsistencyInv
<1>1. CASE TakeCheck(w)
  <2>1. MessageTypes' BY <1>1 DEF TakeCheck, MessageTypes
  <2>2. WorkerTypes' BY <1>1 DEF TakeCheck, WorkerTypes
  <2>3. \A v \in Workers : CheckOf(v)' BY <1>1 DEF TakeCheck, WorkerTypes, CheckOf, IsLoaded
  <2> QED BY <1>1, <2>1, <2>2, <2>3
          DEF TakeCheck, table, DocumentTypes, Settled, RowTypes, HandlerTypes
<1>2. CASE CheckShipment(w)
  <2>1. PICK byType \in ByType : found' = [found EXCEPT ![w] = Candidates(byType)]
    BY <1>2 DEF CheckShipment
  <2>2. Candidates(byType) \in [Fields -> CandidateRecord \cup {NoCandidate}]
    BY CandidateFacts DEF Candidates
  <2>3. WorkerTypes' BY <1>2, <2>1, <2>2 DEF CheckShipment, WorkerTypes
  <2>4. \A v \in Workers : CheckOf(v)' BY <1>2 DEF CheckShipment, WorkerTypes, CheckOf, IsLoaded
  <2> QED BY <1>2, <2>3, <2>4
          DEF CheckShipment, table, DocumentTypes, Settled, RowTypes, MessageTypes, HandlerTypes
<1>3. CASE LoadExisting(w)
  <2>1. WorkerTypes' BY <1>3 DEF LoadExisting, WorkerTypes
  <2>2. PICK pick \in [Fields -> 0..MaxCopies] :
          /\ \A f \in Fields : pick[f] # 0 => rows[<<f, pick[f]>>] # NoRow /\ pick[f] \in 1..MaxCopies
          /\ loaded' = [loaded EXCEPT ![w] =
               [f \in Fields |-> IF pick[f] = 0 THEN NotLoaded
                                 ELSE [id |-> <<f, pick[f]>>, row |-> rows[<<f, pick[f]>>]]]]
    BY <1>3 DEF LoadExisting
  <2>3. ASSUME NEW f \in Fields PROVE IsLoaded(loaded'[w][f], f)
    <3>1. CASE pick[f] = 0 BY <2>2, <3>1 DEF WorkerTypes, IsLoaded
    <3>2. CASE pick[f] # 0
      <4>1. <<f, pick[f]>> \in RowIds BY <2>2, <3>2 DEF RowIds
      <4>2. rows[<<f, pick[f]>>] \in RowRecord BY <2>2, <3>2, <4>1 DEF RowTypes
      <4> QED BY <2>2, <3>2, <4>1, <4>2 DEF WorkerTypes, IsLoaded
    <3> QED BY <3>1, <3>2
  <2>4. CheckOf(w)' BY <1>3, <2>3 DEF LoadExisting, WorkerTypes, CheckOf, IsLoaded
  <2>5. \A v \in Workers \ {w} : CheckOf(v)' BY <1>3 DEF LoadExisting, WorkerTypes, CheckOf, IsLoaded
  <2> QED BY <1>3, <2>1, <2>4, <2>5
          DEF LoadExisting, table, DocumentTypes, Settled, RowTypes, MessageTypes, HandlerTypes
<1>4. CASE Reconcile(w)
  <2>1. RowTypes' BY <1>4, ReconcileRowTypes
  <2>2. WorkerTypes' /\ \A v \in Workers : CheckOf(v)' BY <1>4, EndCheckEffect DEF Reconcile
  <2> QED BY <1>4, <2>1, <2>2 DEF Reconcile, DocumentTypes, Settled, MessageTypes, HandlerTypes
<1>5. CASE ReconcileStale(w) \/ CheckFails(w)
  <2>1. WorkerTypes' /\ \A v \in Workers : CheckOf(v)'
    BY <1>5, EndCheckEffect DEF ReconcileStale, CheckFails
  <2>2. MessageTypes'
    BY <1>5, ConsistencyAssumption DEF ReconcileStale, CheckFails, MessageTypes
  <2> QED BY <1>5, <2>1, <2>2
          DEF ReconcileStale, CheckFails, table, DocumentTypes, Settled, RowTypes, HandlerTypes
<1> QED BY <1>1, <1>2, <1>3, <1>4, <1>5 DEF Check

\* An acknowledgment changes nothing else of a row.
LEMMA AcknowledgeEffect ==
  ASSUME ConsistencyInv, NEW h \in Handlers, AcknowledgeCommit(h), NEW r \in RowIds
  PROVE  /\ rows' \in [RowIds -> RowRecord \cup {NoRow}]
         /\ rows[r] = NoRow <=> rows'[r] = NoRow
         /\ rows[r] # NoRow => /\ rows'[r].found = rows[r].found
                               /\ rows[r].acknowledged => rows'[r].acknowledged
<1>1. rows \in [RowIds -> RowRecord \cup {NoRow}] /\ hrow[h] \in RowIds
  BY DEF ConsistencyInv, RowTypes, HandlerTypes, AcknowledgeCommit
<1>2. CASE rows[hrow[h]] = NoRow BY <1>1, <1>2 DEF AcknowledgeCommit
<1>3. CASE rows[hrow[h]] # NoRow
  <2>1. rows[hrow[h]] \in RowRecord BY <1>1, <1>3
  <2>2. rows' = [rows EXCEPT ![hrow[h]] = [rows[hrow[h]] EXCEPT !.acknowledged = TRUE]]
    BY <1>3 DEF AcknowledgeCommit
  <2> DEFINE new == [rows[hrow[h]] EXCEPT !.acknowledged = TRUE]
  <2>3. new \in RowRecord /\ new.found = rows[hrow[h]].found /\ new.acknowledged
    BY <2>1 DEF RowRecord
  <2> HIDE DEF new
  <2> QED BY <1>1, <1>3, <2>2, <2>3, RowFacts DEF new
<1> QED BY <1>2, <1>3

LEMMA NextConsistency == ConsistencyInv /\ [Next]_vars => ConsistencyInv'
<1> SUFFICES ASSUME ConsistencyInv, [Next]_vars PROVE ConsistencyInv' OBVIOUS
<1> USE DEF ConsistencyInv
<1>1. ASSUME NEW d \in Docs, Settle(d) PROVE ConsistencyInv'
  <2>1. PICK c \in Contents[d] : content' = [content EXCEPT ![d] = c] BY <1>1 DEF Settle
  <2>2. DocumentTypes' BY <2>1 DEF DocumentTypes, Settled
  <2>3. MessageTypes' BY <1>1, ConsistencyAssumption DEF Settle, MessageTypes
  <2> QED BY <1>1, <2>2, <2>3 DEF Settle, worker, RowTypes, HandlerTypes, WorkerTypes, CheckOf, IsLoaded
<1>2. CASE SendCheck
  <2>1. MessageTypes' BY <1>2 DEF SendCheck, MessageTypes
  <2> QED BY <1>2, <2>1
          DEF SendCheck, table, worker, DocumentTypes, Settled, RowTypes, HandlerTypes, WorkerTypes, CheckOf, IsLoaded
<1>3. ASSUME NEW h \in Handlers, NEW r \in RowIds, AcknowledgeRead(h, r) PROVE ConsistencyInv'
  BY <1>3 DEF AcknowledgeRead, table, worker, DocumentTypes, Settled, RowTypes, MessageTypes,
     HandlerTypes, WorkerTypes, CheckOf, IsLoaded
<1>4. ASSUME NEW h \in Handlers, AcknowledgeCommit(h) PROVE ConsistencyInv'
  <2>1. RowTypes'
    <3>1. CASE RowIds = {} BY <1>4, <3>1 DEF AcknowledgeCommit, RowTypes
    <3> QED BY <1>4, <3>1, AcknowledgeEffect DEF RowTypes
  <2> QED BY <1>4, <2>1 DEF AcknowledgeCommit, worker, DocumentTypes, Settled, MessageTypes,
          HandlerTypes, WorkerTypes, CheckOf, IsLoaded
<1>5. CASE UNCHANGED vars
  BY <1>5 DEF vars, DocumentTypes, Settled, RowTypes, MessageTypes, HandlerTypes, WorkerTypes,
     CheckOf, IsLoaded
<1> QED BY <1>1, <1>2, <1>3, <1>4, <1>5, CheckInv DEF Next

LEMMA ConsistencyInvariant == Spec => []ConsistencyInv
<1>1. Init => ConsistencyInv BY InitConsistency
<1> QED BY <1>1, NextConsistency, PTL DEF Spec

\* The variables of Consistency keep their types.
THEOREM ConsistencyTypeCorrect == Spec => []TypeOK
<1>1. ConsistencyInv => TypeOK
  <2> SUFFICES ASSUME ConsistencyInv PROVE TypeOK OBVIOUS
  <2> USE DEF ConsistencyInv
  <2>1. unsent \in 0..MaxSettles /\ pending \in 0..MaxSettles
    BY ConsistencyAssumption DEF MessageTypes
  <2>2. \A r \in RowIds : rows[r] = NoRow \/ rows[r] \in [found : CandidateRecord, acknowledged : BOOLEAN]
    BY DEF RowTypes, RowRecord
  <2>3. \A w \in Workers, f \in Fields :
          found[w][f] \in CandidateRecord \cup {NoCandidate} /\ loaded[w][f].id \in RowIds \cup {NoId}
    BY RowFacts DEF WorkerTypes, CheckOf, IsLoaded
  <2> QED BY <2>1, <2>2, <2>3 DEF DocumentTypes, MessageTypes, HandlerTypes, WorkerTypes, TypeOK
<1> QED BY <1>1, ConsistencyInvariant, PTL

-----------------------------------------------------------------------------
(* Acknowledgments, for any number of workers.                             *)

LEMMA AcknowledgedStep ==
  ASSUME ConsistencyInv, [Next]_vars, NEW r \in RowIds,
         rows[r] # NoRow, rows'[r] # NoRow, rows[r].acknowledged
  PROVE  rows'[r].acknowledged
<1>1. CASE rows' = rows BY <1>1
<1>2. ASSUME NEW w \in Workers, Reconcile(w) PROVE rows'[r].acknowledged
  <2> DEFINE f == r[1]
  <2>1. \/ rows[r] = NoRow
        \/ rows'[r] = NoRow
        \/ rows'[r] = UpdatedRow(rows[r], loaded[w][f].row.found, found[w][f])
        \/ rows'[r] = rows[r]
    BY <1>2, ReconcileEffect
  <2> QED BY <2>1 DEF UpdatedRow
<1>3. ASSUME NEW h \in Handlers, AcknowledgeCommit(h) PROVE rows'[r].acknowledged
  BY <1>3, AcknowledgeEffect
<1>4. ASSUME rows' # rows
      PROVE  (\E w \in Workers : Reconcile(w)) \/ (\E h \in Handlers : AcknowledgeCommit(h))
  BY <1>4 DEF Next, Check, vars, table, Settle, SendCheck, TakeCheck, CheckShipment, LoadExisting,
     ReconcileStale, CheckFails, AcknowledgeRead
<1> QED BY <1>1, <1>2, <1>3, <1>4

\* However checks, failures and requests overlap, a row that a user has acknowledged is
\* still acknowledged as long as it exists.
THEOREM AcknowledgmentsAreKept == Spec => AcknowledgmentSurvives
<1>1. ConsistencyInv /\ [Next]_vars =>
        \A r \in RowIds :
          rows[r] # NoRow /\ rows'[r] # NoRow /\ rows[r].acknowledged => rows'[r].acknowledged
  BY AcknowledgedStep
<1> QED BY <1>1, ConsistencyInvariant, PTL DEF Spec, AcknowledgmentSurvives

-----------------------------------------------------------------------------
(* What one worker keeps.                                                  *)

LEMMA FindingsStep ==
  ASSUME ConsistencyInv, FindingsConsistent, [Next]_vars
  PROVE  FindingsConsistent'
<1> USE DEF FindingsConsistent
<1>1. CASE found' = found BY <1>1
<1>2. ASSUME NEW w \in Workers, CheckShipment(w) PROVE FindingsConsistent'
  <2>1. PICK byType \in ByType : found' = [found EXCEPT ![w] = Candidates(byType)]
    BY <1>2 DEF CheckShipment
  <2>2. \A f \in Fields : found'[w][f] = Candidate(byType, f)
    BY <2>1 DEF ConsistencyInv, WorkerTypes, Candidates
  <2>3. \A v \in Workers \ {w} : found'[v] = found[v] BY <2>1
  <2>4. \A f \in Fields : found'[w][f] # NoCandidate => Consistent(f, found'[w][f])
    BY <2>2, CandidateFacts DEF ConsistencyInv
  <2> QED BY <2>3, <2>4 DEF Consistent
<1>3. ASSUME NEW w \in Workers, EndCheck(w) PROVE FindingsConsistent'
  BY <1>3, EndCheckEffect DEF Consistent
<1>4. ASSUME found' # found
      PROVE  \E w \in Workers : CheckShipment(w) \/ EndCheck(w)
  BY <1>4 DEF Next, Check, vars, worker, Settle, SendCheck, TakeCheck, LoadExisting,
     Reconcile, ReconcileStale, CheckFails, AcknowledgeRead, AcknowledgeCommit
<1> QED BY <1>1, <1>2, <1>3, <1>4

\* Steps that leave the rows what they are, but for acknowledgments, and bring no other
\* worker to its commit.
LEMMA AloneKept ==
  ASSUME Alone, \A r \in RowIds : /\ rows[r] = NoRow <=> rows'[r] = NoRow
                                  /\ rows[r] # NoRow => rows'[r].found = rows[r].found,
         \A w \in Workers : wpc'[w] = "reconcile" => wpc[w] = "reconcile" /\ loaded'[w] = loaded[w]
  PROVE  Alone'
<1>1. \A f \in Fields : RowsOf(f)' = RowsOf(f) BY DEF RowsOf
<1>2. BlockingMeansQuantitiesDiffer' BY DEF Alone, BlockingMeansQuantitiesDiffer, Consistent
<1>3. ASSUME NEW w \in Workers, wpc'[w] = "reconcile", NEW f \in Fields PROVE Knows(w, f)'
  <2>1. Knows(w, f) /\ loaded'[w] = loaded[w] BY <1>3 DEF Alone
  <2>2. CASE loaded[w][f].id = NoId BY <1>1, <2>1, <2>2 DEF Knows
  <2>3. CASE loaded[w][f].id # NoId
    <3>1. loaded[w][f].id \in RowIds /\ rows[loaded[w][f].id] # NoRow
      BY <2>1, <2>3 DEF Knows, RowsOf
    <3> QED BY <1>1, <2>1, <2>3, <3>1 DEF Knows
  <2> QED BY <2>2, <2>3
<1>4. \A f \in Fields : \A r, s \in RowsOf(f)' : r = s BY <1>1 DEF Alone
<1> QED BY <1>2, <1>3, <1>4 DEF Alone

LEMMA AloneLoad ==
  ASSUME ConsistencyInv, Alone, OneWorker, NEW w \in Workers, LoadExisting(w)
  PROVE  Alone'
<1>1. /\ rows' = rows /\ wpc[w] = "load" /\ wpc' = [wpc EXCEPT ![w] = "reconcile"]
      /\ DOMAIN loaded = Workers
  BY DEF LoadExisting, table, ConsistencyInv, WorkerTypes
<1>2. ASSUME NEW v \in Workers \ {w} PROVE wpc'[v] = "idle"
  <2>1. w \in pool /\ (wpc[v] # "idle" => v \in pool) BY <1>1 DEF ConsistencyInv, CheckOf
  <2> QED BY <1>1, <2>1 DEF OneWorker, ConsistencyInv, WorkerTypes
<1>3. ASSUME NEW f \in Fields PROVE Knows(w, f)'
  <2>1. PICK pick \in [Fields -> 0..MaxCopies] :
          /\ \A g \in Fields :
               LET copies == {n \in 1..MaxCopies : rows[<<g, n>>] # NoRow}
               IN  IF copies = {} THEN pick[g] = 0 ELSE pick[g] \in copies
          /\ loaded' = [loaded EXCEPT ![w] =
               [g \in Fields |-> IF pick[g] = 0 THEN NotLoaded
                                 ELSE [id |-> <<g, pick[g]>>, row |-> rows[<<g, pick[g]>>]]]]
    BY DEF LoadExisting
  <2>2. loaded'[w][f] = IF pick[f] = 0 THEN NotLoaded
                        ELSE [id |-> <<f, pick[f]>>, row |-> rows[<<f, pick[f]>>]]
    BY <1>1, <2>1
  <2>3. CASE pick[f] = 0
    <3> DEFINE copies == {n \in 1..MaxCopies : rows[<<f, n>>] # NoRow}
    <3>0. copies = {}
      <4>1. IF copies = {} THEN pick[f] = 0 ELSE pick[f] \in copies BY <2>1
      <4>2. 0 \notin copies BY ConsistencyAssumption
      <4> QED BY <2>3, <4>1, <4>2
    <3>1. \A n \in 1..MaxCopies : rows[<<f, n>>] = NoRow BY <3>0
    <3>2. \A r \in RowIds : r[1] = f => rows[r] = NoRow BY <3>1 DEF RowIds
    <3> QED BY <1>1, <2>2, <2>3, <3>2, RowFacts DEF Knows, RowsOf
  <2>4. CASE pick[f] # 0
    <3>1. pick[f] \in 1..MaxCopies /\ rows[<<f, pick[f]>>] # NoRow BY <2>1, <2>4
    <3>2. <<f, pick[f]>> \in RowsOf(f) BY <3>1 DEF RowIds, RowsOf
    <3>3. RowsOf(f) = {<<f, pick[f]>>} BY <3>2 DEF Alone
    <3>4. <<f, pick[f]>> # NoId BY DEF NoId, Fields
    <3>5. RowsOf(f)' = RowsOf(f) BY <1>1 DEF RowsOf
    <3> QED BY <1>1, <2>2, <2>4, <3>3, <3>4, <3>5 DEF Knows
  <2> QED BY <2>3, <2>4
<1>4. \A f \in Fields : RowsOf(f)' = RowsOf(f) BY <1>1 DEF RowsOf
<1>5. BlockingMeansQuantitiesDiffer' BY <1>1 DEF Alone, BlockingMeansQuantitiesDiffer
<1> QED BY <1>2, <1>3, <1>4, <1>5 DEF Alone

LEMMA AloneReconcile ==
  ASSUME ConsistencyInv, FindingsConsistent, Alone, OneWorker, NEW w \in Workers, Reconcile(w)
  PROVE  Alone'
<1>1. \A f \in Fields : Knows(w, f) BY DEF Alone, Reconcile
<1>2. \A v \in Workers : wpc'[v] # "reconcile"
  <2>1. wpc'[w] = "idle" /\ \A v \in Workers \ {w} : wpc'[v] = wpc[v]
    BY EndCheckEffect DEF Reconcile
  <2>2. ASSUME NEW v \in Workers \ {w} PROVE wpc[v] = "idle"
    BY DEF Reconcile, ConsistencyInv, CheckOf, OneWorker
  <2> QED BY <2>1, <2>2
<1>3. ASSUME NEW r \in RowIds, rows'[r] # NoRow
      PROVE  /\ \/ RowsOf(r[1]) = {} /\ r = FreshId(r[1])
                \/ r \in RowsOf(r[1])
             /\ Consistent(r[1], rows'[r].found)
  <2> DEFINE f == r[1]
  <2>1. f \in Fields BY DEF RowIds
  <2>2. Knows(w, f) /\ (found[w][f] # NoCandidate => Consistent(f, found[w][f]))
    BY <1>1, <2>1 DEF FindingsConsistent
  <2>3. CASE f \in Inserted(w) /\ r = FreshId(f) /\ rows'[r] = [found |-> found[w][f], acknowledged |-> FALSE]
    BY <2>2, <2>3 DEF Inserted, Knows
  <2>4. CASE /\ r = loaded[w][f].id /\ rows[r] \in RowRecord
             /\ found[w][f] \in CandidateRecord /\ loaded[w][f].row.found \in CandidateRecord
             /\ rows'[r] = UpdatedRow(rows[r], loaded[w][f].row.found, found[w][f])
    <3>1. r # NoId /\ r \in RowsOf(f) /\ rows[r].found = loaded[w][f].row.found
      BY <2>2, <2>4, RowFacts DEF Knows
    <3>2. rows'[r].found = found[w][f] BY <2>4, <3>1, WrittenColumns DEF UpdatedRow
    <3> QED BY <2>2, <2>4, <3>1, <3>2, RowFacts
  <2>5. CASE rows'[r] = rows[r]
    <3>1. r \in RowsOf(f) BY <1>3, <2>5 DEF RowsOf
    <3> QED BY <1>3, <2>5, <3>1 DEF Alone, BlockingMeansQuantitiesDiffer
  <2> QED BY <1>3, <2>3, <2>4, <2>5, ReconcileEffect
<1>4. BlockingMeansQuantitiesDiffer' BY <1>3 DEF BlockingMeansQuantitiesDiffer, Consistent
<1>5. ASSUME NEW f \in Fields, NEW r \in RowsOf(f)', NEW s \in RowsOf(f)' PROVE r = s
  <2>1. r \in RowIds /\ s \in RowIds /\ r[1] = f /\ s[1] = f /\ rows'[r] # NoRow /\ rows'[s] # NoRow
    BY <1>5 DEF RowsOf
  <2> QED BY <1>3, <2>1 DEF Alone
<1> QED BY <1>2, <1>4, <1>5 DEF Alone

LEMMA OneWorkerStep ==
  ASSUME ConsistencyInv, FindingsConsistent, OneWorkerInv, [Next]_vars
  PROVE  OneWorkerInv'
<1>1. pool' = pool
  BY DEF Next, Check, vars, worker, Settle, SendCheck, TakeCheck, CheckShipment, LoadExisting,
     Reconcile, ReconcileStale, CheckFails, EndCheck, AcknowledgeRead, AcknowledgeCommit
<1> SUFFICES ASSUME OneWorker PROVE Alone' BY <1>1 DEF OneWorkerInv, OneWorker
<1>2. Alone BY DEF OneWorkerInv
<1>3. wpc \in [Workers -> {"idle", "compare", "load", "reconcile"}] BY DEF ConsistencyInv, WorkerTypes
<1>4. ASSUME NEW w \in Workers, TakeCheck(w) \/ CheckShipment(w) PROVE Alone'
  <2>1. /\ rows' = rows /\ loaded' = loaded
        /\ \A v \in Workers : wpc'[v] = "reconcile" => wpc[v] = "reconcile"
    BY <1>3, <1>4 DEF TakeCheck, CheckShipment, table
  <2> QED BY <1>2, <2>1, AloneKept
<1>5. ASSUME NEW w \in Workers, ReconcileStale(w) \/ CheckFails(w) PROVE Alone'
  <2>1. /\ rows' = rows
        /\ \A v \in Workers : wpc'[v] = "reconcile" => wpc[v] = "reconcile" /\ loaded'[v] = loaded[v]
    BY <1>3, <1>5, EndCheckEffect DEF ReconcileStale, CheckFails, table
  <2> QED BY <1>2, <2>1, AloneKept
<1>6. ASSUME NEW h \in Handlers, AcknowledgeCommit(h) PROVE Alone'
  <2>1. wpc' = wpc /\ loaded' = loaded BY <1>6 DEF AcknowledgeCommit, worker
  <2> QED BY <1>2, <1>6, <2>1, AcknowledgeEffect, AloneKept
<1>7. CASE \/ \E d \in Docs : Settle(d)
           \/ SendCheck
           \/ \E h \in Handlers, r \in RowIds : AcknowledgeRead(h, r)
           \/ UNCHANGED vars
  <2>1. rows' = rows /\ wpc' = wpc /\ loaded' = loaded
    BY <1>7 DEF Settle, SendCheck, AcknowledgeRead, vars, table, worker
  <2> QED BY <1>2, <2>1, AloneKept
<1> QED BY <1>2, <1>4, <1>5, <1>6, <1>7, AloneLoad, AloneReconcile DEF Next, Check

LEMMA OneWorkerInvariant == Spec => [](FindingsConsistent /\ OneWorkerInv)
<1>1. Init => FindingsConsistent /\ OneWorkerInv BY InitConsistency
<1>2. ConsistencyInv /\ FindingsConsistent /\ OneWorkerInv /\ [Next]_vars =>
        FindingsConsistent' /\ OneWorkerInv'
  BY FindingsStep, OneWorkerStep
<1> QED BY <1>1, <1>2, ConsistencyInvariant, PTL DEF Spec

LEMMA SoloIsOneWorker == ConsistencyInv /\ Solo => OneWorker
<1> SUFFICES ASSUME ConsistencyInv, Solo PROVE OneWorker OBVIOUS
<1>1. pool \in SUBSET Workers /\ IsFiniteSet(Workers)
  BY ConsistencyAssumption DEF ConsistencyInv, WorkerTypes
<1>2. IsFiniteSet(pool) BY <1>1, FS_Subset
<1>3. \E x : pool = {x} BY <1>2, FS_Singleton DEF Solo
<1> QED BY <1>3 DEF OneWorker

\* With one worker, however its checks fail and documents settle meanwhile, a field never
\* has two rows: the natural key that no constraint enforces.
THEOREM FieldsHaveOneRow == Spec => []OneRowPerFieldSolo
<1>1. ConsistencyInv /\ OneWorkerInv => OneRowPerFieldSolo
  <2> SUFFICES ASSUME ConsistencyInv, OneWorkerInv, Solo, NEW f \in Fields
               PROVE  Cardinality(RowsOf(f)) <= 1
    BY DEF OneRowPerFieldSolo, OneRowPerField
  <2>1. \A r, s \in RowsOf(f) : r = s BY SoloIsOneWorker DEF OneWorkerInv, Alone
  <2>2. CASE RowsOf(f) = {} BY <2>2, FS_EmptySet
  <2>3. CASE \E r : RowsOf(f) = {r} BY <2>3, FS_Singleton
  <2> QED BY <2>1, <2>2, <2>3
<1> QED BY <1>1, ConsistencyInvariant, OneWorkerInvariant, PTL

\* With one worker, a blocking discrepancy names two different quantities, although only
\* the columns that changed are written: a missing value never blocks.
THEOREM MissingNeverBlocks == Spec => []BlockingMeansQuantitiesDifferSolo
<1>1. ConsistencyInv /\ OneWorkerInv => BlockingMeansQuantitiesDifferSolo
  BY SoloIsOneWorker DEF OneWorkerInv, Alone, BlockingMeansQuantitiesDifferSolo
<1> QED BY <1>1, ConsistencyInvariant, OneWorkerInvariant, PTL

-----------------------------------------------------------------------------
(* Agreement with the documents.                                           *)

LEMMA InitAgrees == Init => AgreementInv
<1> SUFFICES ASSUME Init PROVE RowsAgree /\ \A w \in Workers : wpc[w] = "idle" BY DEF AgreementInv
<1> DEFINE none == [t \in DocTypes |-> NoDoc]
<1>1. \A t \in DocTypes : LastOf(t) = {NoDoc} BY DEF Init, LastOf, Settled
<1>2. none \in ByType BY <1>1 DEF ByType, DocTypes
<1>3. \A f \in Fields : Candidate(none, f) = NoCandidate BY DEF Candidate, DocTypes
<1>4. \A f \in Fields : RowsOf(f) = {} BY DEF Init, RowsOf
<1> HIDE DEF none
<1> QED BY <1>2, <1>3, <1>4 DEF RowsAgree, Init

\* A commit by a worker that runs alone makes the rows what it has found.
LEMMA ReconcileAgrees ==
  ASSUME ConsistencyInv, Alone, OneWorker, FindingsConsistent, NEW w \in Workers, Reconcile(w), NEW f \in Fields
  PROVE  IF found[w][f] = NoCandidate THEN RowsOf(f)' = {}
         ELSE \E r \in RowsOf(f)' : RowsOf(f)' = {r} /\ rows'[r].found = found[w][f]
<1>1. Knows(w, f) /\ IsLoaded(loaded[w][f], f) /\ found[w][f] \in CandidateRecord \cup {NoCandidate}
  BY DEF Alone, Reconcile, ConsistencyInv, CheckOf, WorkerTypes
<1>2. loaded[w][f].id # NoId =>
        /\ loaded[w][f].id \in RowIds /\ loaded[w][f].id[1] = f
        /\ loaded[w][f].row.found \in CandidateRecord /\ rows[loaded[w][f].id] # NoRow
        /\ rows[loaded[w][f].id].found = loaded[w][f].row.found
  BY <1>1, RowFacts DEF IsLoaded, Knows, RowRecord, RowsOf
<1>3. ASSUME NEW r \in RowIds, r[1] = f
      PROVE  \/ /\ r = FreshId(f) /\ found[w][f] \in CandidateRecord
                /\ rows'[r] = [found |-> found[w][f], acknowledged |-> FALSE]
             \/ /\ found[w][f] = NoCandidate /\ rows'[r] = NoRow
             \/ /\ r = loaded[w][f].id /\ rows[r] \in RowRecord
                /\ found[w][f] \in CandidateRecord /\ loaded[w][f].row.found \in CandidateRecord
                /\ rows'[r] = UpdatedRow(rows[r], loaded[w][f].row.found, found[w][f])
             \/ /\ rows'[r] = rows[r]
                /\ found[w][f] # NoCandidate => loaded[w][f].id # NoId \/ r # FreshId(f)
                /\ r = loaded[w][f].id => found[w][f] = loaded[w][f].row.found
  BY <1>3, ReconcileEffect
<1>4. CASE found[w][f] = NoCandidate
  <2>1. ASSUME NEW r \in RowIds, r[1] = f PROVE rows'[r] = NoRow
    <3>1. \/ rows'[r] = NoRow
          \/ rows'[r] = rows[r] /\ (r = loaded[w][f].id => found[w][f] = loaded[w][f].row.found)
      BY <1>3, <1>4, <2>1, RowFacts
    <3>2. rows[r] # NoRow => r = loaded[w][f].id /\ loaded[w][f].id # NoId
      BY <1>1, <2>1 DEF Knows, RowsOf
    <3> QED BY <1>2, <1>4, <3>1, <3>2, RowFacts
  <2> QED BY <1>4, <2>1 DEF RowsOf
<1>5. CASE found[w][f] # NoCandidate
  <2>1. \A r, s \in RowsOf(f)' : r = s BY AloneReconcile DEF Alone
  <2>2. found[w][f] \in CandidateRecord BY <1>1, <1>5
  <2>3. ASSUME NEW r \in RowIds, r[1] = f, rows'[r] # NoRow, rows'[r].found = found[w][f]
        PROVE  \E s \in RowsOf(f)' : RowsOf(f)' = {s} /\ rows'[s].found = found[w][f]
    <3>1. r \in RowsOf(f)' BY <2>3 DEF RowsOf
    <3> QED BY <2>1, <2>3, <3>1
  <2>4. CASE loaded[w][f].id = NoId
    <3>1. f \in Inserted(w) BY <1>5, <2>4 DEF Inserted
    <3>2. FreshId(f) \in RowIds /\ FreshId(f)[1] = f BY <3>1, FreshFacts DEF Reconcile
    <3>3. rows'[FreshId(f)] = [found |-> found[w][f], acknowledged |-> FALSE]
      BY <1>3, <1>5, <2>4, <3>2, RowFacts
    <3>4. rows'[FreshId(f)] # NoRow /\ rows'[FreshId(f)].found = found[w][f] BY <3>3 DEF NoRow
    <3> QED BY <1>5, <2>3, <3>2, <3>4
  <2>5. CASE loaded[w][f].id # NoId
    <3> DEFINE r == loaded[w][f].id
    <3>1. /\ r \in RowIds /\ r[1] = f /\ rows[r] # NoRow
          /\ loaded[w][f].row.found \in CandidateRecord /\ rows[r].found = loaded[w][f].row.found
      BY <1>2, <2>5
    <3>2. \/ rows'[r] = UpdatedRow(rows[r], loaded[w][f].row.found, found[w][f])
          \/ rows'[r] = rows[r] /\ found[w][f] = loaded[w][f].row.found
          \/ rows'[r] = [found |-> found[w][f], acknowledged |-> FALSE]
      BY <1>3, <1>5, <3>1
    <3>3. UpdatedRow(rows[r], loaded[w][f].row.found, found[w][f]).found = found[w][f]
      BY <2>2, <3>1, WrittenColumns DEF UpdatedRow
    <3>4. rows'[r].found = found[w][f] BY <3>1, <3>2, <3>3
    <3>5. rows'[r] # NoRow BY <2>2, <3>4, RowFacts DEF NoRow
    <3> QED BY <1>5, <2>3, <3>1, <3>4, <3>5
  <2> QED BY <2>4, <2>5
<1> QED BY <1>4, <1>5

\* What the documents give does not change while they do not.
LEMMA SameDocuments ==
  ASSUME content' = content
  PROVE  /\ ByType' = ByType
         /\ \A byType, f : Candidate(byType, f)' = Candidate(byType, f)
         /\ \A byType : Candidates(byType)' = Candidates(byType)
<1>1. ByType' = ByType BY DEF ByType, LastOf, Settled
<1>2. \A byType, f : Candidate(byType, f)' = Candidate(byType, f) BY DEF Candidate
<1> QED BY <1>1, <1>2 DEF Candidates

LEMMA AgreementStep ==
  ASSUME ConsistencyInv, FindingsConsistent, OneWorkerInv, AgreementInv, [Next]_vars
  PROVE  AgreementInv'
<1>1. pool' = pool
  BY DEF Next, Check, vars, worker, Settle, SendCheck, TakeCheck, CheckShipment, LoadExisting,
     Reconcile, ReconcileStale, CheckFails, EndCheck, AcknowledgeRead, AcknowledgeCommit
<1> DEFINE Agreed == \/ \E w \in Workers : wpc[w] = "compare"
                     \/ \E w \in Workers : /\ wpc[w] \in {"load", "reconcile"}
                                           /\ \E byType \in ByType : found[w] = Candidates(byType)
                     \/ RowsAgree /\ \A w \in Workers : wpc[w] = "idle"
<1> SUFFICES ASSUME OneWorker, failures' = 0, unsent' = 0, pending' = 0 PROVE Agreed'
  BY <1>1 DEF AgreementInv, OneWorker
<1>2. /\ unsent \in Nat /\ pending \in Nat /\ failures \in Nat
      /\ wpc \in [Workers -> {"idle", "compare", "load", "reconcile"}]
      /\ found \in [Workers -> [Fields -> CandidateRecord \cup {NoCandidate}]]
  BY ConsistencyAssumption DEF ConsistencyInv, MessageTypes, WorkerTypes
<1>3. Alone BY DEF OneWorkerInv
<1>4. ASSUME NEW v \in Workers, wpc[v] # "idle", NEW w \in Workers \ {v} PROVE wpc[w] = "idle"
  BY <1>4 DEF ConsistencyInv, CheckOf, OneWorker
<1>5. ASSUME failures' = failures, unsent' = unsent, pending' = pending PROVE Agreed
  BY <1>5 DEF AgreementInv
<1>6. ASSUME NEW w \in Workers, TakeCheck(w) PROVE Agreed'
  BY <1>2, <1>6 DEF TakeCheck
<1>7. ASSUME NEW w \in Workers, CheckShipment(w) PROVE Agreed'
  <2>1. PICK byType \in ByType : found' = [found EXCEPT ![w] = Candidates(byType)]
    BY <1>7 DEF CheckShipment
  <2>2. content' = content /\ wpc'[w] = "load" /\ found'[w] = Candidates(byType)
    BY <1>2, <1>7, <2>1 DEF CheckShipment, table
  <2> QED BY <2>1, <2>2, SameDocuments
<1>8. ASSUME NEW w \in Workers, LoadExisting(w) PROVE Agreed'
  <2>1. /\ content' = content /\ found' = found /\ wpc[w] = "load" /\ wpc'[w] = "reconcile"
        /\ unsent' = unsent /\ pending' = pending /\ failures' = failures
    BY <1>2, <1>8 DEF LoadExisting, table
  <2>2. \E byType \in ByType : found[w] = Candidates(byType) BY <1>4, <1>5, <2>1
  <2> QED BY <2>1, <2>2, SameDocuments
<1>9. ASSUME NEW w \in Workers, Reconcile(w) PROVE Agreed'
  <2>1. /\ content' = content /\ wpc[w] = "reconcile"
        /\ unsent' = unsent /\ pending' = pending /\ failures' = failures
    BY <1>9 DEF Reconcile
  <2>2. PICK byType \in ByType : found[w] = Candidates(byType) BY <1>4, <1>5, <2>1
  <2>3. ASSUME NEW f \in Fields
        PROVE  IF Candidate(byType, f)' = NoCandidate THEN RowsOf(f)' = {}
               ELSE \E r \in RowsOf(f)' : RowsOf(f)' = {r} /\ rows'[r].found = Candidate(byType, f)'
    <3>1. found[w][f] = Candidate(byType, f) /\ Candidate(byType, f)' = Candidate(byType, f)
      BY <2>1, <2>2, SameDocuments DEF Candidates
    <3> QED BY <1>3, <1>9, <3>1, ReconcileAgrees
  <2>4. byType \in ByType' BY <2>1, <2>2, SameDocuments
  <2>5. RowsAgree' BY <2>3, <2>4 DEF RowsAgree
  <2>6. wpc'[w] = "idle" /\ \A v \in Workers \ {w} : wpc'[v] = wpc[v]
    BY <1>9, EndCheckEffect DEF Reconcile
  <2>7. \A v \in Workers : wpc'[v] = "idle" BY <1>4, <2>1, <2>6
  <2> QED BY <2>5, <2>7
\* A worker that runs alone finds its rows again.
<1>10. ASSUME NEW w \in Workers, ReconcileStale(w) PROVE FALSE
  <2>1. PICK f \in Updated(w) : rows[loaded[w][f].id] = NoRow
    BY <1>10 DEF ReconcileStale, UpdatesLostRow
  <2>2. Knows(w, f) BY <1>3, <1>10, <2>1 DEF Alone, ReconcileStale, Updated
  <2> QED BY <2>1, <2>2 DEF Knows, RowsOf, Updated
<1>11. ASSUME NEW w \in Workers, CheckFails(w) PROVE FALSE
  BY <1>2, <1>11 DEF CheckFails
<1>12. ASSUME content' = content, wpc' = wpc, found' = found, Agreed,
              \A r \in RowIds : /\ rows[r] = NoRow <=> rows'[r] = NoRow
                                /\ rows[r] # NoRow => rows'[r].found = rows[r].found
       PROVE  Agreed'
  <2>1. \A f \in Fields : RowsOf(f)' = RowsOf(f) BY <1>12 DEF RowsOf
  <2>2. ASSUME RowsAgree PROVE RowsAgree'
    <3>1. PICK byType \in ByType : \A f \in Fields :
            IF Candidate(byType, f) = NoCandidate THEN RowsOf(f) = {}
            ELSE \E r \in RowsOf(f) : RowsOf(f) = {r} /\ rows[r].found = Candidate(byType, f)
      BY <2>2 DEF RowsAgree
    <3>2. ASSUME NEW f \in Fields
          PROVE  IF Candidate(byType, f)' = NoCandidate THEN RowsOf(f)' = {}
                 ELSE \E r \in RowsOf(f)' : RowsOf(f)' = {r} /\ rows'[r].found = Candidate(byType, f)'
      <4>1. Candidate(byType, f)' = Candidate(byType, f) BY <1>12, SameDocuments
      <4>2. \A r \in RowsOf(f) : rows'[r].found = rows[r].found BY <1>12 DEF RowsOf
      <4> QED BY <2>1, <3>1, <4>1, <4>2
    <3>3. byType \in ByType' BY <1>12, <3>1, SameDocuments
    <3> QED BY <3>2, <3>3 DEF RowsAgree
  <2> QED BY <1>12, <2>2, SameDocuments
<1>13. ASSUME NEW h \in Handlers, AcknowledgeCommit(h) PROVE Agreed'
  <2>1. /\ content' = content /\ wpc' = wpc /\ found' = found
        /\ unsent' = unsent /\ pending' = pending /\ failures' = failures
    BY <1>13 DEF AcknowledgeCommit, worker
  <2>2. \A r \in RowIds : /\ rows[r] = NoRow <=> rows'[r] = NoRow
                          /\ rows[r] # NoRow => rows'[r].found = rows[r].found
    BY <1>13, AcknowledgeEffect
  <2> QED BY <1>5, <1>12, <2>1, <2>2
<1>14. CASE (\E h \in Handlers, r \in RowIds : AcknowledgeRead(h, r)) \/ UNCHANGED vars
  <2>1. /\ content' = content /\ rows' = rows /\ wpc' = wpc /\ found' = found
        /\ unsent' = unsent /\ pending' = pending /\ failures' = failures
    BY <1>14 DEF AcknowledgeRead, table, worker, vars
  <2> QED BY <1>5, <1>12, <2>1
<1>15. ASSUME (\E d \in Docs : Settle(d)) \/ SendCheck PROVE FALSE
  BY <1>2, <1>15 DEF Settle, SendCheck
<1> QED BY <1>6, <1>7, <1>8, <1>9, <1>10, <1>11, <1>13, <1>14, <1>15 DEF Next, Check

\* With one worker and no failure, once every message has been worked off the rows are
\* what the documents give, field by field: none missing, none stale.
THEOREM RowsFollowDocuments == Spec => []RowsAgreeAtRest
<1>1. Init => AgreementInv BY InitAgrees
<1>2. ConsistencyInv /\ FindingsConsistent /\ OneWorkerInv /\ AgreementInv /\ [Next]_vars => AgreementInv'
  BY AgreementStep
<1>3. ConsistencyInv /\ AgreementInv => RowsAgreeAtRest
  BY SoloIsOneWorker DEF AgreementInv, RowsAgreeAtRest, AtRest
<1> QED BY <1>1, <1>2, <1>3, ConsistencyInvariant, OneWorkerInvariant, PTL DEF Spec
=============================================================================
