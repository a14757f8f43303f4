----------------------- MODULE ShipmentAnalysisProofs -----------------------
(***************************************************************************)
(* Proofs about ShipmentAnalysis: types for any number of workers,         *)
(* requests and failures, and with one worker that permits and             *)
(* determinations follow the codes and that breakdowns are kept.           *)
(*                                                                         *)
(* AnalysisInv is the inductive type invariant.  TriageInv, BreakdownInv   *)
(* and SettlesInv are inductive together with it where the pool is one     *)
(* worker (Solo): none of the three survives a second task that overlaps.  *)
(***************************************************************************)
EXTENDS ShipmentAnalysis, FiniteSetTheorems, WellFoundedInduction, TLAPS

-----------------------------------------------------------------------------
(* The type invariant.                                                     *)

TriageSteps == {"triageCodes", "delete", "lock", "replace"}
OriginSteps == {"originCodes", "originRows", "next", "upsert", "flush", "commit"}
Steps == {"idle"} \cup TriageSteps \cup OriginSteps

Readings == [Items -> Codes \cup {NoCode, Absent}]
PermitRow ==
  [batch : 1..MaxBatches, permit : {r.permit : r \in PermitRules}, items : (SUBSET Items) \ {{}}]
Row == Determination \cup {NoRow}

Pending == {h \in Handlers : hpc[h] # "idle"}

CodesInv ==
  /\ codes \in Readings /\ pool \in Pools
  /\ wpc \in [Workers -> Steps] /\ read \in [Workers -> Readings]
  /\ \A w \in Workers \ pool : wpc[w] = "idle"
  /\ requests \in 0..MaxRequests[pool] /\ failures \in 0..MaxFailures[pool]
  /\ triageQ \in Nat /\ triageQ <= requests
  /\ originQ \in Nat /\ originQ + Cardinality(Pending) <= requests

PermitsInv ==
  /\ permits \subseteq PermitRow
  /\ doomed \in [Workers -> SUBSET PermitRow]
  /\ \A w \in Workers : doomed[w] # {} => wpc[w] \in {"lock", "replace"}

\* What a task writes of a row: some columns, or all of a new one.
ValuesOf(column) ==
  CASE column = "agreement" -> {CepaRules[k].agreement : k \in DOMAIN CepaRules} \cup {NoAgreement}
    [] column = "qualifies" -> {"NOT_APPLICABLE", "INSUFFICIENT_DATA", "QUALIFIES", "DOES_NOT_QUALIFY"}
    [] column = "savings" -> Int \cup {NoValue}
    [] column \in {"local", "total"} -> Nat \cup {NoValue}

Partial(columns) ==
  /\ DOMAIN columns \subseteq Columns
  /\ \A c \in DOMAIN columns : columns[c] \in ValuesOf(c)

FlushedInv ==
  \A w \in Workers :
    /\ DOMAIN flushed[w] \subseteq Items
    /\ wpc[w] \notin {"next", "upsert", "flush", "commit"} => DOMAIN flushed[w] = {}
    /\ \A i \in DOMAIN flushed[w] :
         /\ Partial(flushed[w][i])
         /\ determinations[i] = NoRow => DOMAIN flushed[w][i] = Columns

TasksInv ==
  /\ determinations \in [Items -> Row]
  /\ loaded \in [Workers -> [Items -> Row]]
  /\ todo \in [Workers -> SUBSET Items] /\ item \in [Workers -> Items \cup {NoItem}]
  /\ seen \in [Workers -> Row] /\ base \in [Workers -> Row]
  /\ flushed = [w \in Workers |-> flushed[w]]
  /\ \A w \in Workers :
       /\ wpc[w] \in {"upsert", "flush"} => item[w] \in Items
       /\ \A i \in Items : loaded[w][i] # NoRow => determinations[i] # NoRow
       /\ wpc[w] \in {"upsert", "flush"} /\ seen[w] # NoRow => determinations[item[w]] # NoRow
       /\ wpc[w] = "flush" /\ base[w] # NoRow => determinations[item[w]] # NoRow

RequestsInv ==
  /\ hpc \in [Handlers -> {"idle", "submit", "send"}]
  /\ target \in [Handlers -> Items \cup {NoItem}] /\ found \in [Handlers -> Row]
  /\ \A h \in Handlers :
       /\ hpc[h] # "idle" => target[h] \in Items
       /\ hpc[h] = "submit" /\ found[h] # NoRow => determinations[target[h]] # NoRow

\* The type invariant, inductive: every request in progress and every message has used
\* one of the bounded requests; who has found a row finds it still there.
AnalysisInv == CodesInv /\ PermitsInv /\ FlushedInv /\ TasksInv /\ RequestsInv

-----------------------------------------------------------------------------
(* One worker.                                                             *)

Agree(rows, reading) ==
  /\ {[permit |-> r.permit, items |-> r.items] : r \in rows} = Grouped(reading)
  /\ \A r, s \in rows : r.permit = s.permit => r = s

\* The DELETE of a re-triage sees all rows there are, and the last one that is taken has
\* read the current codes: whatever changed them after would have sent another message.
TriageInv ==
  /\ \A w \in Workers : wpc[w] \in {"lock", "replace"} => doomed[w] = permits
  /\ triageQ = 0 /\ failures = 0 =>
       /\ \A w \in Workers : wpc[w] \in TriageSteps => read[w] = codes
       /\ (\A w \in Workers : wpc[w] \notin TriageSteps) => Agree(permits, codes)

\* The row as the task will commit it.
Merged(w, i) ==
  IF i \notin DOMAIN flushed[w] THEN determinations[i]
  ELSE [c \in Columns |-> IF c \in DOMAIN flushed[w][i] THEN flushed[w][i][c]
                          ELSE determinations[i][c]]

Complete(row) ==
  row.qualifies \in {"QUALIFIES", "DOES_NOT_QUALIFY"} => row.local # NoValue /\ row.total # NoValue

\* A row that only requests have changed since it was the other.
Follows(row, old) ==
  /\ row # NoRow
  /\ row.agreement = old.agreement /\ row.qualifies = old.qualifies /\ row.savings = old.savings
  /\ old.local # NoValue => row.local # NoValue
  /\ old.total # NoValue => row.total # NoValue

\* What a session has loaded differs from the table in requests' breakdowns only, and what
\* it flushes leaves those alone but on a placeholder, which it has not loaded.
BreakdownInv ==
  /\ \A i \in Items : Complete(determinations[i])
  /\ \A w \in Workers :
       /\ wpc[w] \in {"next", "upsert", "flush", "commit"} =>
            \A i \in Items : loaded[w][i] # NoRow => Follows(determinations[i], loaded[w][i])
       /\ wpc[w] \in {"upsert", "flush"} =>
            IF seen[w] # NoRow THEN Follows(determinations[item[w]], seen[w])
            ELSE determinations[item[w]] # NoRow => IsPlaceholder(determinations[item[w]])
       /\ wpc[w] = "flush" =>
            /\ seen[w] # NoRow => base[w] = seen[w]
            /\ base[w] # NoRow => Follows(determinations[item[w]], base[w])
       /\ \A i \in DOMAIN flushed[w] :
            /\ Complete(Merged(w, i))
            /\ determinations[i] # NoRow =>
                 IsPlaceholder(determinations[i]) \/ {"local", "total"} \cap DOMAIN flushed[w][i] = {}

\* No message is waiting or about to be sent, so nobody has changed anything since the
\* task that runs, if one does, was taken.
Quiet == originQ = 0 /\ failures = 0 /\ \A h \in Handlers : hpc[h] # "send"

\* The row is the verdict on the current code and on its own breakdown.
Settled(i, row) == codes[i] # Absent => row # NoRow /\ row = Determined(codes[i], row)

\* The task works on the current codes and rows, and each line item is still to do, in
\* hand, or settled by what is flushed.
Current(w) ==
  /\ read[w] = codes
  /\ wpc[w] \in {"next", "upsert", "flush", "commit"} =>
       /\ \A i \in todo[w] : codes[i] # Absent
       /\ \A i \in Items : codes[i] # Absent =>
            /\ loaded[w][i] = determinations[i]
            /\ \/ i \in todo[w]
               \/ wpc[w] \in {"upsert", "flush"} /\ i = item[w]
               \/ Settled(i, Merged(w, i))
  /\ wpc[w] \in {"upsert", "flush"} => seen[w] = determinations[item[w]] /\ codes[item[w]] # Absent
  /\ wpc[w] = "flush" => base[w] = seen[w]
  /\ wpc[w] = "commit" => todo[w] = {}

\* A line item is worked on once.
OnceInv ==
  \A w \in Workers :
    /\ todo[w] \cap DOMAIN flushed[w] = {}
    /\ wpc[w] \in {"upsert", "flush"} => item[w] \notin todo[w] \cup DOMAIN flushed[w]
    /\ wpc[w] = "next" /\ todo[w] = {} => DOMAIN flushed[w] = {}

\* A quiet shipment is settled, or the task that settles it runs.
SettlesInv ==
  Quiet =>
    /\ \A w \in Workers : wpc[w] \in OriginSteps => Current(w)
    /\ (\A w \in Workers : wpc[w] \notin OriginSteps) =>
         ZeroTotal \/ \A i \in Items : Settled(i, determinations[i])

-----------------------------------------------------------------------------
(* Rows, and what a task writes of them.                                   *)

\* The least of a set of numbers, as SelectInSeq takes it.
LEMMA NatMin ==
  ASSUME NEW T, T \subseteq Nat, T # {}
  PROVE  Min(T) \in T /\ \A n \in T : Min(T) <= n
<1>1. PICK m \in T : \A n \in T : ~ (<<n, m>> \in OpToRel(<, Nat))
  BY NatLessThanWellFounded, WFMin
<1>2. \A n \in T : m <= n
  <2> SUFFICES ASSUME NEW n \in T, n < m PROVE FALSE
    OBVIOUS
  <2>1. <<n, m>> \in Nat \X Nat /\ <<n, m>>[1] < <<n, m>>[2]
    OBVIOUS
  <2> QED BY <1>1, <2>1 DEF OpToRel
<1> QED BY <1>2 DEF Min

LEMMA RuleType == ASSUME NEW code PROVE Rule(code) \in DOMAIN CepaRules \cup {0}
<1> DEFINE I == { k \in 1..Len(CepaRules) :
                   /\ CaseFold[CepaRules[k].origin] = CaseFold[Origin]
                   /\ CaseFold[CepaRules[k].destination] = CaseFold[Destination]
                   /\ Matches(code, CepaRules[k].prefixes)}
<1>1. CASE I # {}
  <2>1. I \subseteq DOMAIN CepaRules /\ I \subseteq Nat
    BY CepaOriginAssumption
  <2> HIDE DEF I
  <2>2. Min(I) \in I
    BY <1>1, <2>1, NatMin
  <2>3. Rule(code) \in {0, Min(I)}
    BY <1>1 DEF Rule, SelectInSeq, I
  <2> QED BY <2>1, <2>2, <2>3
<1>2. CASE I = {}
  BY <1>2 DEF Rule, SelectInSeq
<1> QED BY <1>1, <1>2

\* A row put together from its columns, and taken apart.
LEMMA ColumnsOf ==
  ASSUME NEW f, f = [c \in Columns |-> f[c]], \A c \in Columns : f[c] \in ValuesOf(c)
  PROVE  f \in Determination
<1>1. /\ f["agreement"] \in {CepaRules[k].agreement : k \in DOMAIN CepaRules} \cup {NoAgreement}
      /\ f["qualifies"] \in {"NOT_APPLICABLE", "INSUFFICIENT_DATA", "QUALIFIES", "DOES_NOT_QUALIFY"}
      /\ f["savings"] \in Int \cup {NoValue}
      /\ f["local"] \in Nat \cup {NoValue} /\ f["total"] \in Nat \cup {NoValue}
  BY DEF ValuesOf, Columns
<1>2. f = [agreement |-> f["agreement"], qualifies |-> f["qualifies"], savings |-> f["savings"],
           local |-> f["local"], total |-> f["total"]]
  BY DEF Columns
<1> QED BY <1>1, <1>2 DEF Determination

LEMMA RowColumns ==
  ASSUME NEW r \in Determination
  PROVE  /\ r = [c \in Columns |-> r[c]] /\ \A c \in Columns : r[c] \in ValuesOf(c)
         /\ r.agreement = r["agreement"]
<1>1. DOMAIN r = Columns
  BY DEF Determination, Columns
<1>2. r = [c \in Columns |-> r[c]]
  BY <1>1 DEF Determination, Columns
<1>3. /\ r["agreement"] \in ValuesOf("agreement")
      /\ r["qualifies"] \in ValuesOf("qualifies")
      /\ r["savings"] \in ValuesOf("savings")
      /\ r["local"] \in ValuesOf("local") /\ r["total"] \in ValuesOf("total")
  BY DEF Determination, ValuesOf
<1> QED BY <1>1, <1>2, <1>3 DEF Columns

LEMMA NoRowIsNone == NoRow \notin Determination
BY DEF NoRow, Determination

LEMMA RuleTyped ==
  ASSUME NEW code, Rule(code) # 0
  PROVE  LET r == CepaRules[Rule(code)] IN
         /\ r.agreement \in {CepaRules[k].agreement : k \in DOMAIN CepaRules}
         /\ r.threshold \in Nat /\ r.with \in Nat /\ r.without \in Nat
BY RuleType, CepaOriginAssumption DEF Range

LEMMA DeterminedTyped ==
  ASSUME NEW code, NEW row \in Row
  PROVE  /\ Determined(code, row) \in Determination
         /\ Complete(Determined(code, row))
         /\ Determined(code, row).local = LocalIn(row)
         /\ Determined(code, row).total = TotalIn(row)
<1> DEFINE local == LocalIn(row)
           total == TotalIn(row)
<1>1. local \in Nat \cup {NoValue} /\ total \in Nat \cup {NoValue}
  BY DEF Row, LocalIn, TotalIn, Determination
<1>2. LET verdict == Evaluate(code, local, total) IN
      /\ verdict.agreement \in {CepaRules[k].agreement : k \in DOMAIN CepaRules} \cup {NoAgreement}
      /\ verdict.qualifies \in {"NOT_APPLICABLE", "INSUFFICIENT_DATA", "QUALIFIES", "DOES_NOT_QUALIFY"}
      /\ verdict.savings \in Int \cup {NoValue}
      /\ verdict.qualifies \in {"QUALIFIES", "DOES_NOT_QUALIFY"} => local # NoValue /\ total # NoValue
  <2> HIDE DEF local, total
  <2>1. CASE Rule(code) = 0
    BY <2>1 DEF Evaluate
  <2>2. CASE Rule(code) # 0 /\ (local = NoValue \/ total = NoValue)
    BY <2>2, RuleTyped DEF Evaluate
  <2>3. CASE Rule(code) # 0 /\ local # NoValue /\ total # NoValue
    <3> DEFINE r == CepaRules[Rule(code)]
    <3>1. total * (r.without - r.with) \in Int
      BY <1>1, <2>3, RuleTyped
    <3>2. Evaluate(code, local, total) = Verdict(Rule(code), local, total)
      BY <2>3 DEF Evaluate
    <3>3. r.agreement \in {CepaRules[k].agreement : k \in DOMAIN CepaRules}
      BY <2>3, RuleTyped
    <3> QED BY <2>3, <3>1, <3>2, <3>3 DEF Verdict
  <2> QED BY <2>1, <2>2, <2>3
<1> HIDE DEF local, total
<1>3. Determined(code, row) =
        [agreement |-> Evaluate(code, local, total).agreement,
         qualifies |-> Evaluate(code, local, total).qualifies,
         savings |-> Evaluate(code, local, total).savings, local |-> local, total |-> total]
  BY DEF Determined, local, total
<1> QED BY <1>1, <1>2, <1>3 DEF Determination, Complete, local, total

\* A determination made again of the row it has made is the same.
LEMMA DeterminedAgain ==
  ASSUME NEW code, NEW row \in Row
  PROVE  Determined(code, Determined(code, row)) = Determined(code, row)
<1> DEFINE new == Determined(code, row)
<1>1. new \in Determination /\ new.local = LocalIn(row) /\ new.total = TotalIn(row)
  BY DeterminedTyped
<1>2. LocalIn(new) = LocalIn(row) /\ TotalIn(new) = TotalIn(row)
  BY <1>1, NoRowIsNone DEF LocalIn, TotalIn
<1> QED BY <1>2 DEF Determined

LEMMA WrittenColumns ==
  ASSUME NEW old \in Row, NEW new \in Determination
  PROVE  /\ Partial(Written(old, new))
         /\ \A c \in Columns : c \in DOMAIN Written(old, new) <=> old = NoRow \/ new[c] # old[c]
         /\ \A c \in DOMAIN Written(old, new) : Written(old, new)[c] = new[c]
         /\ old = NoRow => DOMAIN Written(old, new) = Columns
         /\ Written(old, new) = <<>> => old = new
<1> DEFINE D == {c \in Columns : old = NoRow \/ new[c] # old[c]}
<1>1. DOMAIN Written(old, new) = D /\ \A c \in D : Written(old, new)[c] = new[c]
  BY DEF Written
<1>2. Partial(Written(old, new))
  BY <1>1, RowColumns DEF Partial
<1>3. ASSUME Written(old, new) = <<>> PROVE old = new
  <2>1. D = {}
    BY <1>1, <1>3
  <2>2. old \in Determination
    BY <2>1 DEF Row, Columns
  <2>3. \A c \in Columns : new[c] = old[c]
    BY <2>1
  <2> QED BY <2>2, <2>3, RowColumns
<1> QED BY <1>1, <1>2, <1>3

LEMMA MergedTyped ==
  ASSUME FlushedInv, TasksInv, NEW w \in Workers, NEW i \in Items
  PROVE  /\ Merged(w, i) \in Row
         /\ i \in DOMAIN flushed[w] \/ determinations[i] # NoRow => Merged(w, i) \in Determination
         /\ i \in DOMAIN flushed[w] =>
              \A c \in Columns : Merged(w, i)[c] = IF c \in DOMAIN flushed[w][i] THEN flushed[w][i][c]
                                                   ELSE determinations[i][c]
<1>1. CASE i \notin DOMAIN flushed[w]
  BY <1>1 DEF Merged, TasksInv, Row
<1>2. CASE i \in DOMAIN flushed[w]
  <2>1. /\ Partial(flushed[w][i])
        /\ determinations[i] \in Determination \/ DOMAIN flushed[w][i] = Columns
    BY <1>2 DEF FlushedInv, TasksInv, Row
  <2>2. Merged(w, i) = [c \in Columns |-> IF c \in DOMAIN flushed[w][i] THEN flushed[w][i][c]
                                          ELSE determinations[i][c]]
    BY <1>2 DEF Merged
  <2>3. \A c \in Columns : Merged(w, i)[c] \in ValuesOf(c)
    BY <2>1, <2>2, RowColumns DEF Partial
  <2>4. Merged(w, i) = [c \in Columns |-> Merged(w, i)[c]]
    BY <2>2
  <2>5. Merged(w, i) \in Determination
    BY <2>3, <2>4, ColumnsOf
  <2> QED BY <2>2, <2>5, NoRowIsNone DEF Row
<1> QED BY <1>1, <1>2

-----------------------------------------------------------------------------
(* The type invariant is inductive.                                        *)

LEMMA PendingCount ==
  ASSUME RequestsInv
  PROVE  /\ IsFiniteSet(Pending) /\ Cardinality(Pending) \in Nat
         /\ \A h \in Pending : Cardinality(Pending \ {h}) = Cardinality(Pending) - 1
         /\ \A h \in Handlers \ Pending : Cardinality(Pending \cup {h}) = Cardinality(Pending) + 1
<1>1. IsFiniteSet(Pending)
  BY FS_Subset, CepaOriginAssumption DEF Pending
<1> QED BY <1>1, FS_CardinalityType, FS_AddElement, FS_RemoveElement

LEMMA InitAnalysis == Init => AnalysisInv
<1> SUFFICES ASSUME Init PROVE AnalysisInv
  OBVIOUS
<1> USE DEF Init, InitCodes, InitPermits, InitOrigin
<1>1. CodesInv
  <2>1. Pending = {} /\ Cardinality(Pending) = 0
    BY FS_EmptySet DEF Pending
  <2>2. MaxRequests[pool] \in Nat /\ MaxFailures[pool] \in Nat
    BY EffectiveCodesAssumption
  <2> QED BY <2>1, <2>2 DEF CodesInv, Readings, Unread, Steps
<1>2. PermitsInv
  BY DEF PermitsInv
<1>3. FlushedInv
  BY DEF FlushedInv
<1>4. TasksInv
  BY DEF TasksInv, Row, Unloaded
<1>5. RequestsInv
  BY DEF RequestsInv, Row
<1> QED BY <1>1, <1>2, <1>3, <1>4, <1>5 DEF AnalysisInv

\* Reading and the worker's next step: what a step of a task does to them.
LEMMA TaskSteps ==
  ASSUME CodesInv, NEW w \in Workers,
         Triage(w) \/ TriageFails(w) \/ DetermineOrigin(w) \/ OriginFails(w)
  PROVE  /\ w \in pool
         /\ \E s \in Steps : wpc' = [wpc EXCEPT ![w] = s]
         /\ \E r \in Readings : read' = [read EXCEPT ![w] = r]
<1> USE DEF CodesInv, Steps, TriageSteps, OriginSteps
<1>1. \A s \in {"triageCodes", "originCodes"} : ListLineItems(w, s) =>
        /\ w \in pool
        /\ \E t \in Steps : wpc' = [wpc EXCEPT ![w] = t]
        /\ \E r \in Readings : read' = [read EXCEPT ![w] = r]
  BY DEF ListLineItems
<1>2. \A s \in {"delete", "originRows"} : wpc[w] # "idle" /\ LoadCodes(w, s) =>
        /\ w \in pool
        /\ \E t \in Steps : wpc' = [wpc EXCEPT ![w] = t]
        /\ \E r \in Readings : read' = [read EXCEPT ![w] = r]
  <2>1. [i \in Items |-> IF read[w][i] = Absent THEN Absent ELSE codes[i]] \in Readings
    BY DEF Readings
  <2> QED BY <2>1 DEF LoadCodes
<1>3. wpc[w] # "idle" /\ EndTask(w) =>
        /\ w \in pool
        /\ \E t \in Steps : wpc' = [wpc EXCEPT ![w] = t]
        /\ \E r \in Readings : read' = [read EXCEPT ![w] = r]
  <2>1. Unread \in Readings
    BY DEF Readings, Unread
  <2> QED BY <2>1 DEF EndTask
<1>4. \A s \in Steps : wpc[w] # "idle" /\ wpc' = [wpc EXCEPT ![w] = s] /\ UNCHANGED read =>
        /\ w \in pool
        /\ \E t \in Steps : wpc' = [wpc EXCEPT ![w] = t]
        /\ \E r \in Readings : read' = [read EXCEPT ![w] = r]
  <2>1. read = [read EXCEPT ![w] = read[w]] /\ read[w] \in Readings
    OBVIOUS
  <2> QED BY <2>1
<1>5. CASE TakeTriage(w) \/ TakeOrigin(w)
  BY <1>5, <1>1 DEF TakeTriage, TakeOrigin
<1>6. CASE TriageLoadCodes(w) \/ OriginLoadCodes(w)
  BY <1>6, <1>2 DEF TriageLoadCodes, OriginLoadCodes
<1>7. CASE ReplacePermits(w) \/ TriageFails(w)
  BY <1>7, <1>3 DEF ReplacePermits, TriageFails, EndTriage
<1>8. CASE \/ DivisionFails(w) \/ InsertCollides(w) \/ Deadlocked(w) \/ NothingToDo(w)
           \/ CommitOrigin(w) \/ OriginFails(w)
  BY <1>8, <1>3 DEF DivisionFails, InsertCollides, Deadlocked, NothingToDo, CommitOrigin,
                    OriginFails, EndOrigin
<1>9. CASE DeletePermits(w) \/ LockPermits(w)
  BY <1>9, <1>4 DEF DeletePermits, LockPermits, triageVars
<1>10. CASE LoadDeterminations(w) \/ ReadBreakdown(w) \/ FindForUpsert(w)
  BY <1>10, <1>4 DEF LoadDeterminations, ReadBreakdown, FindForUpsert
<1>11. CASE Flush(w)
  BY <1>11, <1>4 DEF Flush
<1> QED BY <1>5, <1>6, <1>7, <1>8, <1>9, <1>10, <1>11 DEF Triage, DetermineOrigin

\* The counters, at a step of a task.
LEMMA TaskCounters ==
  ASSUME CodesInv, NEW w \in Workers,
         Triage(w) \/ TriageFails(w) \/ DetermineOrigin(w) \/ OriginFails(w)
  PROVE  /\ UNCHANGED <<codes, pool, requests>>
         /\ triageQ' \in Nat /\ triageQ' <= triageQ /\ originQ' \in Nat /\ originQ' <= originQ
         /\ failures' = failures \/ (failures < MaxFailures[pool] /\ failures' = failures + 1)
<1> USE DEF CodesInv, messages
<1>1. CASE Triage(w) \/ TriageFails(w)
  BY <1>1 DEF Triage, TriageFails, TakeTriage, TriageLoadCodes, DeletePermits, LockPermits,
              ReplacePermits
<1>2. CASE DetermineOrigin(w) \/ OriginFails(w)
  BY <1>2 DEF DetermineOrigin, OriginFails, TakeOrigin, OriginLoadCodes, LoadDeterminations,
              ReadBreakdown, FindForUpsert, DivisionFails, Flush, InsertCollides, Deadlocked,
              NothingToDo, CommitOrigin
<1> QED BY <1>1, <1>2

LEMMA CodesStep ==
  ASSUME AnalysisInv, [Next]_vars
  PROVE  CodesInv'
<1> USE EffectiveCodesAssumption DEF AnalysisInv
<1>1. CASE UNCHANGED vars
  <2>1. Pending' = Pending
    BY <1>1 DEF vars, originVars, requestVars, Pending
  <2> QED BY <1>1, <2>1 DEF vars, messages, CodesInv
<1>2. CASE ChangeCodes /\ UNCHANGED <<triageVars, originVars>>
  <2>1. Pending' = Pending
    BY <1>2 DEF originVars, requestVars, Pending
  <2>2. codes' \in Readings
    BY <1>2 DEF ChangeCodes, Readings
  <2> QED BY <1>2, <2>1, <2>2, PendingCount DEF ChangeCodes, MayRequest, SendBoth, CodesInv
<1>3. ASSUME NEW w \in Workers,
             \/ (Triage(w) \/ TriageFails(w)) /\ UNCHANGED originVars
             \/ (DetermineOrigin(w) \/ OriginFails(w)) /\ UNCHANGED triageVars
      PROVE  CodesInv'
  <2>1. UNCHANGED requestVars
    BY <1>3 DEF originVars, DetermineOrigin, OriginFails, TakeOrigin, OriginLoadCodes,
       LoadDeterminations, ReadBreakdown, FindForUpsert, DivisionFails, Flush, InsertCollides,
       Deadlocked, NothingToDo, CommitOrigin
  <2>2. Pending' = Pending
    BY <2>1 DEF requestVars, Pending
  <2>3. /\ wpc' \in [Workers -> Steps] /\ read' \in [Workers -> Readings]
        /\ \A v \in Workers \ pool : wpc'[v] = "idle"
    BY <1>3, TaskSteps DEF CodesInv
  <2> QED BY <1>3, <2>2, <2>3, PendingCount, TaskCounters DEF CodesInv
<1>4. ASSUME NEW h \in Handlers, Submit(h) \/ SubmitFails(h) \/ \E i \in Items : SubmitRead(h, i),
             UNCHANGED triageVars
      PROVE  CodesInv'
  <2> USE DEF CodesInv, RequestsInv, Pending
  <2>1. CASE SubmitCommit(h)
    <3>1. Pending' = Pending
      BY <2>1 DEF SubmitCommit
    <3> QED BY <2>1, <3>1 DEF SubmitCommit, messages
  <2>2. CASE SubmitCollides(h) \/ SubmitSend(h) \/ SubmitFails(h)
    <3>1. h \in Pending /\ Pending' = Pending \ {h}
      BY <2>2 DEF SubmitCollides, SubmitSend, SubmitFails, EndSubmit
    <3>2. Cardinality(Pending') = Cardinality(Pending) - 1
      BY <3>1, PendingCount
    <3> QED BY <2>2, <3>2, PendingCount DEF SubmitCollides, SubmitSend, SubmitFails, messages, taskVars
  <2>3. ASSUME NEW i \in Items, SubmitRead(h, i) PROVE CodesInv'
    <3>1. h \in Handlers \ Pending /\ Pending' = Pending \cup {h}
      BY <2>3 DEF SubmitRead
    <3>2. Cardinality(Pending') = Cardinality(Pending) + 1
      BY <3>1, PendingCount
    <3> QED BY <2>3, <3>2, PendingCount DEF SubmitRead, MayRequest, messages
  <2> QED BY <1>4, <2>1, <2>2, <2>3 DEF Submit
<1> QED BY <1>1, <1>2, <1>3, <1>4 DEF Next

\* A group is a permit of the rules with the line items that require it, at least one.
LEMMA GroupedRows ==
  ASSUME NEW reading, NEW g \in Grouped(reading)
  PROVE  g.permit \in {r.permit : r \in PermitRules} /\ g.items \in (SUBSET Items) \ {{}}
<1> DEFINE For(p) == {i \in Classified(reading) :
                        \E r \in PermitRules : r.permit = p /\ Requires(r, reading[i])}
<1>1. PICK r \in PermitRules :
        /\ \E i \in Classified(reading) : Requires(r, reading[i])
        /\ g = [permit |-> r.permit, items |-> For(r.permit)]
  BY DEF Grouped
<1>2. For(r.permit) # {} BY <1>1
<1>3. For(r.permit) \subseteq Items BY DEF Classified
<1> QED BY <1>1, <1>2, <1>3

LEMMA PermitsStep ==
  ASSUME AnalysisInv, [Next]_vars
  PROVE  PermitsInv'
<1> USE DEF AnalysisInv, CodesInv, PermitsInv
<1>1. CASE UNCHANGED vars
  BY <1>1 DEF vars, triageVars
<1>2. CASE ChangeCodes /\ UNCHANGED <<triageVars, originVars>>
  BY <1>2 DEF ChangeCodes, triageVars
<1>3. ASSUME NEW w \in Workers, Triage(w) \/ TriageFails(w) PROVE PermitsInv'
  <2>1. CASE TakeTriage(w)
    BY <2>1 DEF TakeTriage, ListLineItems, triageVars
  <2>2. CASE TriageLoadCodes(w)
    BY <2>2 DEF TriageLoadCodes, LoadCodes, triageVars
  <2>3. CASE DeletePermits(w)
    BY <2>3 DEF DeletePermits, Doomed
  <2>4. CASE LockPermits(w)
    BY <2>4 DEF LockPermits, triageVars
  <2>5. CASE ReplacePermits(w)
    <3> DEFINE new == CHOOSE n \in FreeBatches : TRUE
    <3>1. new \in 1..MaxBatches
      BY <2>5 DEF ReplacePermits, FreeBatches
    <3> HIDE DEF new
    <3>2. \A g \in Grouped(read[w]) : [batch |-> new, permit |-> g.permit, items |-> g.items] \in PermitRow
      BY <3>1, GroupedRows DEF PermitRow
    <3>3. permits' \subseteq PermitRow
      BY <2>5, <3>2 DEF ReplacePermits, new
    <3> QED BY <2>5, <3>3 DEF ReplacePermits, EndTriage, EndTask
  <2>6. CASE TriageFails(w)
    BY <2>6 DEF TriageFails, EndTriage, EndTask
  <2> QED BY <1>3, <2>1, <2>2, <2>3, <2>4, <2>5, <2>6 DEF Triage
<1>4. ASSUME NEW w \in Workers, DetermineOrigin(w) \/ OriginFails(w), UNCHANGED triageVars
      PROVE  PermitsInv'
  <2>1. \E s \in Steps : wpc' = [wpc EXCEPT ![w] = s]
    BY <1>4, TaskSteps
  <2>2. doomed[w] = {}
    BY <1>4 DEF DetermineOrigin, OriginFails, TakeOrigin, ListLineItems, OriginLoadCodes,
       LoadDeterminations, ReadBreakdown, FindForUpsert, DivisionFails, Flush, InsertCollides,
       Deadlocked, NothingToDo, CommitOrigin
  <2> QED BY <1>4, <2>1, <2>2 DEF triageVars
<1>5. ASSUME NEW h \in Handlers, Submit(h) \/ SubmitFails(h) \/ \E i \in Items : SubmitRead(h, i),
             UNCHANGED triageVars
      PROVE  PermitsInv'
  BY <1>5 DEF Submit, SubmitCommit, SubmitCollides, SubmitSend, SubmitFails, SubmitRead, triageVars
<1> QED BY <1>1, <1>2, <1>3, <1>4, <1>5 DEF Next

\* Every step leaves the determinations rows, and those there are stay.
LEMMA DeterminationsStep ==
  ASSUME AnalysisInv, [Next]_vars
  PROVE  /\ determinations' \in [Items -> Row]
         /\ \A i \in Items : determinations[i] # NoRow => determinations'[i] # NoRow
<1> USE DEF AnalysisInv
<1>1. CASE UNCHANGED determinations
  BY <1>1 DEF TasksInv
<1>2. ASSUME NEW w \in Workers, CommitOrigin(w)
      PROVE  /\ determinations' \in [Items -> Row]
             /\ \A i \in Items : determinations[i] # NoRow => determinations'[i] # NoRow
  <2>1. determinations' = [i \in Items |-> Merged(w, i)]
    BY <1>2 DEF CommitOrigin, Merged
  <2> QED BY <2>1, MergedTyped, NoRowIsNone
<1>3. ASSUME NEW h \in Handlers, SubmitCommit(h)
      PROVE  /\ determinations' \in [Items -> Row]
             /\ \A i \in Items : determinations[i] # NoRow => determinations'[i] # NoRow
  <2>1. PICK b \in Breakdowns : determinations' = [determinations EXCEPT ![target[h]] =
                                  IF found[h] = NoRow THEN Placeholder(b)
                                  ELSE WithBreakdown(@, found[h], b)]
    BY <1>3 DEF SubmitCommit
  <2>2. b.local \in Nat /\ b.total \in Nat
    BY CepaOriginAssumption
  <2>3. Placeholder(b) \in Determination
    BY <2>2 DEF Placeholder, Determination
  <2>4. target[h] \in Items /\ (found[h] # NoRow => determinations[target[h]] \in Determination)
    BY <1>3 DEF SubmitCommit, RequestsInv, TasksInv, Row
  <2>5. found[h] # NoRow => WithBreakdown(determinations[target[h]], found[h], b) \in Determination
    BY <2>2, <2>4 DEF WithBreakdown, Determination
  <2> QED BY <2>1, <2>3, <2>4, <2>5, NoRowIsNone DEF TasksInv, Row
<1>4. \/ UNCHANGED determinations
      \/ \E w \in Workers : CommitOrigin(w)
      \/ \E h \in Handlers : SubmitCommit(h)
  BY DEF Next, vars, originVars, DetermineOrigin, OriginFails, TakeOrigin, OriginLoadCodes,
     LoadDeterminations, ReadBreakdown, FindForUpsert, DivisionFails, Flush, InsertCollides,
     Deadlocked, NothingToDo, Submit, SubmitCollides, SubmitSend, SubmitFails, SubmitRead
<1> QED BY <1>1, <1>2, <1>3, <1>4

LEMMA TasksStep ==
  ASSUME AnalysisInv, [Next]_vars
  PROVE  TasksInv'
<1> USE DeterminationsStep DEF AnalysisInv, CodesInv, TasksInv
<1>0. \A s : NoRow \in Row
  BY DEF Row
<1>1. CASE UNCHANGED vars
  BY <1>1 DEF vars, originVars, taskVars
<1>2. CASE ChangeCodes /\ UNCHANGED <<triageVars, originVars>>
  BY <1>2 DEF ChangeCodes, originVars, taskVars
<1>3. ASSUME NEW w \in Workers, Triage(w) \/ TriageFails(w), UNCHANGED originVars PROVE TasksInv'
  <2>1. \E s \in Steps \ {"upsert", "flush"} : wpc' = [wpc EXCEPT ![w] = s]
    BY <1>3 DEF Triage, TriageFails, TakeTriage, ListLineItems, TriageLoadCodes, LoadCodes,
       DeletePermits, LockPermits, ReplacePermits, EndTriage, EndTask, Steps, TriageSteps, triageVars
  <2> QED BY <1>3, <2>1 DEF originVars, taskVars
<1>4. ASSUME NEW w \in Workers, DetermineOrigin(w) \/ OriginFails(w) PROVE TasksInv'
  <2>1. ASSUME EndOrigin(w) PROVE TasksInv'
    <3>1. Unloaded \in [Items -> Row] /\ \A i \in Items : Unloaded[i] = NoRow
      BY <1>0 DEF Unloaded
    <3>2. /\ wpc' = [wpc EXCEPT ![w] = "idle"]
          /\ loaded' = [loaded EXCEPT ![w] = Unloaded] /\ todo' = [todo EXCEPT ![w] = {}]
          /\ item' = [item EXCEPT ![w] = NoItem] /\ seen' = [seen EXCEPT ![w] = NoRow]
          /\ base' = [base EXCEPT ![w] = NoRow] /\ flushed' = [flushed EXCEPT ![w] = <<>>]
      BY <2>1 DEF EndOrigin, NextItem, EndTask
    <3>3. /\ loaded' \in [Workers -> [Items -> Row]] /\ todo' \in [Workers -> SUBSET Items]
          /\ item' \in [Workers -> Items \cup {NoItem}] /\ seen' \in [Workers -> Row]
          /\ base' \in [Workers -> Row] /\ flushed' = [v \in Workers |-> flushed'[v]]
      BY <3>1, <3>2, <1>0
    <3>4. \A v \in Workers :
            /\ \A i \in Items : loaded'[v][i] # NoRow => determinations'[i] # NoRow
            /\ wpc'[v] \in {"upsert", "flush"} => v # w
      BY <3>1, <3>2
    <3> QED BY <3>2, <3>3, <3>4
  <2>2. CASE TakeOrigin(w)
    BY <2>2 DEF TakeOrigin, ListLineItems, originVars, taskVars
  <2>3. CASE OriginLoadCodes(w)
    BY <2>3 DEF OriginLoadCodes, LoadCodes, originVars, taskVars
  <2>4. CASE LoadDeterminations(w)
    BY <2>4, <1>0 DEF LoadDeterminations
  <2>5. CASE ReadBreakdown(w)
    BY <2>5 DEF ReadBreakdown, RowSeen
  <2>6. CASE FindForUpsert(w)
    BY <2>6 DEF FindForUpsert
  <2>7. CASE Flush(w)
    BY <2>7, <1>0 DEF Flush, NextItem
  <2> QED BY <1>4, <2>1, <2>2, <2>3, <2>4, <2>5, <2>6, <2>7
          DEF DetermineOrigin, OriginFails, DivisionFails, InsertCollides, Deadlocked, NothingToDo,
              CommitOrigin
<1>5. ASSUME NEW h \in Handlers, Submit(h) \/ SubmitFails(h) \/ \E i \in Items : SubmitRead(h, i)
      PROVE  TasksInv'
  BY <1>5 DEF Submit, SubmitCommit, SubmitCollides, SubmitSend, SubmitFails, SubmitRead, taskVars
<1> QED BY <1>1, <1>2, <1>3, <1>4, <1>5 DEF Next

LEMMA FlushedStep ==
  ASSUME AnalysisInv, [Next]_vars
  PROVE  FlushedInv'
<1> USE DeterminationsStep DEF AnalysisInv, CodesInv, FlushedInv
<1>0. \A w \in Workers : \A i \in DOMAIN flushed[w] : determinations'[i] = NoRow => determinations[i] = NoRow
  OBVIOUS
<1>1. CASE UNCHANGED vars
  BY <1>1 DEF vars, originVars, taskVars
<1>2. CASE ChangeCodes /\ UNCHANGED <<triageVars, originVars>>
  BY <1>2 DEF ChangeCodes, originVars, taskVars
<1>3. ASSUME NEW w \in Workers, Triage(w) \/ TriageFails(w), UNCHANGED originVars PROVE FlushedInv'
  <2>1. /\ wpc[w] \notin {"next", "upsert", "flush", "commit"}
        /\ \E s \in Steps : wpc' = [wpc EXCEPT ![w] = s]
    BY <1>3, TaskSteps DEF Triage, TriageFails, TakeTriage, ListLineItems, TriageLoadCodes,
       DeletePermits, LockPermits, ReplacePermits
  <2> QED BY <1>3, <2>1 DEF originVars, taskVars
<1>4. ASSUME NEW w \in Workers, DetermineOrigin(w) \/ OriginFails(w) PROVE FlushedInv'
  <2>1. EndOrigin(w) => FlushedInv'
    <3>1. DOMAIN <<>> = {}
      OBVIOUS
    <3> QED BY <1>0, <3>1 DEF EndOrigin, EndTask, TasksInv
  <2>2. CASE TakeOrigin(w)
    BY <2>2 DEF TakeOrigin, ListLineItems, originVars, taskVars
  <2>3. CASE OriginLoadCodes(w)
    BY <2>3 DEF OriginLoadCodes, LoadCodes, originVars, taskVars
  <2>4. CASE LoadDeterminations(w) \/ ReadBreakdown(w) \/ FindForUpsert(w)
    BY <2>4 DEF LoadDeterminations, ReadBreakdown, FindForUpsert
  <2>5. CASE Flush(w)
    <3> DEFINE i == item[w]
               columns == Written(base[w], Determined(read[w][i], seen[w]))
    <3>1. i \in Items /\ base[w] \in Row /\ Determined(read[w][i], seen[w]) \in Determination
      BY <2>5, DeterminedTyped DEF Flush, TasksInv
    <3>2. Partial(columns) /\ (determinations[i] = NoRow => DOMAIN columns = Columns)
      BY <2>5, <3>1, WrittenColumns DEF Flush, TasksInv
    <3>3. flushed' = [flushed EXCEPT ![w] =
             IF columns = <<>> THEN @
             ELSE [j \in DOMAIN @ \cup {i} |-> IF j = i THEN columns ELSE @[j]]]
      BY <2>5 DEF Flush
    <3>4. \/ wpc' = [wpc EXCEPT ![w] = "commit"] \/ wpc' = [wpc EXCEPT ![w] = "next"]
      BY <2>5 DEF Flush
    <3>5. UNCHANGED determinations
      BY <2>5 DEF Flush
    <3> HIDE DEF i, columns
    <3>6. /\ \A v \in Workers \ {w} : flushed'[v] = flushed[v]
          /\ \/ flushed'[w] = flushed[w]
             \/ /\ DOMAIN flushed'[w] = DOMAIN flushed[w] \cup {i}
                /\ \A j \in DOMAIN flushed'[w] :
                     flushed'[w][j] = IF j = i THEN columns ELSE flushed[w][j]
      BY <3>3 DEF TasksInv
    <3>7. wpc'[w] \in {"next", "commit"} /\ \A v \in Workers \ {w} : wpc'[v] = wpc[v]
      BY <3>4
    <3>8. /\ DOMAIN flushed'[w] \subseteq Items
          /\ \A j \in DOMAIN flushed'[w] :
               /\ Partial(flushed'[w][j])
               /\ determinations'[j] = NoRow => DOMAIN flushed'[w][j] = Columns
      BY <3>1, <3>2, <3>5, <3>6
    <3> QED BY <3>5, <3>6, <3>7, <3>8
  <2> QED BY <1>4, <2>1, <2>2, <2>3, <2>4, <2>5
          DEF DetermineOrigin, OriginFails, DivisionFails, InsertCollides, Deadlocked, NothingToDo,
              CommitOrigin
<1>5. ASSUME NEW h \in Handlers, Submit(h) \/ SubmitFails(h) \/ \E i \in Items : SubmitRead(h, i)
      PROVE  FlushedInv'
  <2>1. UNCHANGED <<wpc, taskVars>>
    BY <1>5 DEF Submit, SubmitCommit, SubmitCollides, SubmitSend, SubmitFails, SubmitRead
  <2>2. flushed' = flushed /\ wpc' = wpc
    BY <2>1 DEF taskVars
  <2>3. \A v \in Workers : \A i \in DOMAIN flushed[v] :
          determinations'[i] = NoRow => DOMAIN flushed[v][i] = Columns
    BY <1>0
  <2> QED BY <2>2, <2>3
<1> QED BY <1>1, <1>2, <1>3, <1>4, <1>5 DEF Next

LEMMA RequestsStep ==
  ASSUME AnalysisInv, [Next]_vars
  PROVE  RequestsInv'
<1> USE DeterminationsStep DEF AnalysisInv, RequestsInv
<1>0. NoRow \in Row
  BY DEF Row
<1>1. CASE UNCHANGED requestVars
  BY <1>1 DEF requestVars
<1>2. ASSUME NEW h \in Handlers, Submit(h) \/ SubmitFails(h) \/ \E i \in Items : SubmitRead(h, i)
      PROVE  RequestsInv'
  <2>1. CASE SubmitCommit(h)
    BY <2>1 DEF SubmitCommit
  <2>2. CASE SubmitCollides(h) \/ SubmitSend(h) \/ SubmitFails(h)
    BY <2>2, <1>0 DEF SubmitCollides, SubmitSend, SubmitFails, EndSubmit
  <2>3. ASSUME NEW i \in Items, SubmitRead(h, i) PROVE RequestsInv'
    BY <2>3 DEF SubmitRead, TasksInv
  <2> QED BY <1>2, <2>1, <2>2, <2>3 DEF Submit
<1>3. \/ UNCHANGED requestVars
      \/ \E h \in Handlers : Submit(h) \/ SubmitFails(h) \/ \E i \in Items : SubmitRead(h, i)
  BY DEF Next, vars, originVars, DetermineOrigin, OriginFails, TakeOrigin, OriginLoadCodes,
     LoadDeterminations, ReadBreakdown, FindForUpsert, DivisionFails, Flush, InsertCollides,
     Deadlocked, NothingToDo, CommitOrigin
<1> QED BY <1>1, <1>2, <1>3

LEMMA AnalysisAlways == Spec => []AnalysisInv
<1>1. ASSUME AnalysisInv, [Next]_vars PROVE AnalysisInv'
  BY <1>1, CodesStep, PermitsStep, FlushedStep, TasksStep, RequestsStep DEF AnalysisInv
<1> QED BY InitAnalysis, <1>1, PTL DEF Spec

\* Types, and counters within their bounds: a session of a task or a request never
\* writes to a row that is not there, and a row has always all of its columns.
THEOREM AnalysisTypeCorrect == Spec => []TypeOK
<1>1. ASSUME AnalysisInv PROVE TypeOK
  <2> USE <1>1 DEF AnalysisInv
  <2>1. PermitsTypeOK
    BY DEF PermitsTypeOK, PermitsInv, PermitRow
  <2>2. OriginTypeOK
    BY DEF OriginTypeOK, TasksInv, FlushedInv, RequestsInv, Row
  <2>3. /\ requests \in 0..MaxRequests[pool] /\ MaxRequests[pool] \in Nat
        /\ triageQ \in 0..MaxRequests[pool] /\ originQ \in 0..MaxRequests[pool]
    BY PendingCount, EffectiveCodesAssumption DEF CodesInv
  <2> QED BY <2>1, <2>2, <2>3 DEF TypeOK, CodesInv, Readings
<1> QED BY <1>1, AnalysisAlways, PTL

-----------------------------------------------------------------------------
(* A task works on a line item once.                                       *)

LEMMA OnceStep ==
  ASSUME AnalysisInv, OnceInv, [Next]_vars
  PROVE  OnceInv'
<1> USE DEF AnalysisInv, CodesInv, TasksInv, OnceInv
<1>1. ASSUME UNCHANGED <<wpc, todo, item, flushed>> PROVE OnceInv'
  BY <1>1
<1>2. ASSUME NEW w \in Workers, Triage(w) \/ TriageFails(w), UNCHANGED originVars PROVE OnceInv'
  <2>1. \E s \in Steps \ {"upsert", "flush", "next"} : wpc' = [wpc EXCEPT ![w] = s]
    BY <1>2 DEF Triage, TriageFails, TakeTriage, ListLineItems, TriageLoadCodes, LoadCodes,
       DeletePermits, LockPermits, ReplacePermits, EndTriage, EndTask, Steps, TriageSteps, triageVars
  <2> QED BY <1>2, <2>1 DEF originVars, taskVars
<1>3. ASSUME NEW w \in Workers, DetermineOrigin(w) \/ OriginFails(w) PROVE OnceInv'
  <2>1. ASSUME EndOrigin(w) PROVE OnceInv'
    <3>1. /\ wpc' = [wpc EXCEPT ![w] = "idle"] /\ todo' = [todo EXCEPT ![w] = {}]
          /\ item' = [item EXCEPT ![w] = NoItem] /\ flushed' = [flushed EXCEPT ![w] = <<>>]
      BY <2>1 DEF EndOrigin, NextItem, EndTask
    <3> QED BY <3>1
  <2>2. CASE TakeOrigin(w)
    BY <2>2 DEF TakeOrigin, ListLineItems, originVars, taskVars
  <2>3. CASE OriginLoadCodes(w)
    BY <2>3 DEF OriginLoadCodes, LoadCodes, originVars, taskVars
  <2>4. CASE LoadDeterminations(w)
    <3>1. DOMAIN flushed[w] = {}
      BY <2>4 DEF LoadDeterminations, FlushedInv
    <3> QED BY <2>4, <3>1 DEF LoadDeterminations
  <2>5. CASE ReadBreakdown(w)
    <3>1. PICK i \in todo[w] : /\ item' = [item EXCEPT ![w] = i]
                               /\ todo' = [todo EXCEPT ![w] = todo[w] \ {i}]
      BY <2>5 DEF ReadBreakdown
    <3>2. wpc' = [wpc EXCEPT ![w] = "upsert"] /\ flushed' = flushed
      BY <2>5 DEF ReadBreakdown
    <3> QED BY <3>1, <3>2
  <2>6. CASE FindForUpsert(w)
    BY <2>6 DEF FindForUpsert
  <2>7. CASE Flush(w)
    <3> DEFINE columns == Written(base[w], Determined(read[w][item[w]], seen[w]))
    <3>1. flushed' = [flushed EXCEPT ![w] =
             IF columns = <<>> THEN @
             ELSE [j \in DOMAIN @ \cup {item[w]} |-> IF j = item[w] THEN columns ELSE @[j]]]
      BY <2>7 DEF Flush
    <3> HIDE DEF columns
    <3>2. DOMAIN flushed'[w] \subseteq DOMAIN flushed[w] \cup {item[w]}
      BY <3>1
    <3>3. /\ \A v \in Workers \ {w} : flushed'[v] = flushed[v]
          /\ todo' = todo /\ item' = [item EXCEPT ![w] = NoItem]
          /\ wpc' = [wpc EXCEPT ![w] = IF todo[w] = {} THEN "commit" ELSE "next"]
      BY <2>7, <3>1 DEF Flush, NextItem
    <3>4. wpc[w] = "flush"
      BY <2>7 DEF Flush
    <3>5. \A v \in Workers \ {w} : wpc'[v] = wpc[v] /\ todo'[v] = todo[v] /\ item'[v] = item[v]
      BY <3>3
    <3>6. wpc'[w] = IF todo[w] = {} THEN "commit" ELSE "next"
      BY <3>3
    <3>7. todo'[w] \cap DOMAIN flushed'[w] = {}
      BY <3>2, <3>3, <3>4
    <3> QED BY <3>3, <3>5, <3>6, <3>7
  <2> QED BY <1>3, <2>1, <2>2, <2>3, <2>4, <2>5, <2>6, <2>7
          DEF DetermineOrigin, OriginFails, DivisionFails, InsertCollides, Deadlocked, NothingToDo,
              CommitOrigin
<1>4. CASE \E h \in Handlers : Submit(h) \/ SubmitFails(h) \/ \E i \in Items : SubmitRead(h, i)
  BY <1>1, <1>4 DEF Submit, SubmitCommit, SubmitCollides, SubmitSend, SubmitFails, SubmitRead, taskVars
<1>5. CASE UNCHANGED vars \/ (ChangeCodes /\ UNCHANGED <<triageVars, originVars>>)
  BY <1>1, <1>5 DEF vars, ChangeCodes, originVars, taskVars
<1> QED BY <1>2, <1>3, <1>4, <1>5 DEF Next

-----------------------------------------------------------------------------
(* One worker.                                                             *)

LEMMA OthersIdle ==
  ASSUME AnalysisInv, Solo, NEW w \in Workers,
         Triage(w) \/ TriageFails(w) \/ DetermineOrigin(w) \/ OriginFails(w)
  PROVE  /\ \A v \in Workers \ {w} : wpc[v] = "idle" /\ wpc'[v] = "idle" /\ read'[v] = read[v]
         /\ wpc'[w] \in Steps /\ read'[w] \in Readings
<1>1. IsFiniteSet(pool)
  BY FS_Subset, EffectiveCodesAssumption DEF AnalysisInv, CodesInv
<1>2. \E x : pool = {x}
  BY <1>1, FS_Singleton DEF Solo
<1> QED BY <1>2, TaskSteps DEF AnalysisInv, CodesInv

LEMMA GroupedOnce ==
  ASSUME NEW reading, NEW g \in Grouped(reading), NEW k \in Grouped(reading), g.permit = k.permit
  PROVE  g = k
BY DEF Grouped

\* Steps that leave triage alone.
LEMMA TriageFrame ==
  ASSUME TriageInv, UNCHANGED <<codes, triageQ, permits, doomed>>, failures' = 0 => failures = 0,
         \A v \in Workers : \/ wpc[v] \notin TriageSteps /\ wpc'[v] \notin TriageSteps
                            \/ wpc'[v] = wpc[v] /\ read'[v] = read[v]
  PROVE  TriageInv'
<1>1. Agree(permits, codes)' <=> Agree(permits, codes)
  BY DEF Agree
<1>2. \A v \in Workers : wpc'[v] \in TriageSteps <=> wpc[v] \in TriageSteps
  OBVIOUS
<1>3. \A v \in Workers : wpc'[v] \in {"lock", "replace"} => doomed'[v] = permits'
  BY DEF TriageInv, TriageSteps
<1> QED BY <1>1, <1>2, <1>3 DEF TriageInv

LEMMA TriageStep ==
  ASSUME AnalysisInv, Solo, TriageInv, [Next]_vars
  PROVE  TriageInv'
<1> USE DEF AnalysisInv
<1>1. CASE UNCHANGED vars
  BY <1>1, TriageFrame DEF vars, messages, triageVars
<1>2. CASE ChangeCodes /\ UNCHANGED triageVars
  <2>1. triageQ' # 0 /\ wpc' = wpc /\ doomed' = doomed /\ permits' = permits
    BY <1>2 DEF ChangeCodes, SendBoth, CodesInv, triageVars
  <2> QED BY <2>1 DEF TriageInv
<1>3. ASSUME NEW w \in Workers, Triage(w) \/ TriageFails(w) PROVE TriageInv'
  <2>0. \A v \in Workers \ {w} : wpc[v] = "idle" /\ wpc'[v] = "idle" /\ read'[v] = read[v]
    BY <1>3, OthersIdle
  <2> USE DEF CodesInv, PermitsInv
  <2>1. CASE TakeTriage(w)
    BY <2>0, <2>1 DEF TakeTriage, ListLineItems, triageVars, TriageInv, TriageSteps
  <2>2. CASE TriageLoadCodes(w)
    <3>1. read[w] = codes => read'[w] = codes
      BY <2>2 DEF TriageLoadCodes, LoadCodes, Readings
    <3> QED BY <2>0, <2>2, <3>1 DEF TriageLoadCodes, LoadCodes, messages, triageVars, TriageInv, TriageSteps
  <2>3. CASE DeletePermits(w)
    BY <2>0, <2>3 DEF DeletePermits, Doomed, messages, TriageInv, TriageSteps
  <2>4. CASE LockPermits(w)
    BY <2>0, <2>4 DEF LockPermits, messages, triageVars, TriageInv, TriageSteps
  <2>5. CASE ReplacePermits(w)
    <3> DEFINE new == CHOOSE n \in FreeBatches : TRUE
               RowOf(g) == [batch |-> new, permit |-> g.permit, items |-> g.items]
    <3>1. permits' = {RowOf(g) : g \in Grouped(read[w])}
      BY <2>5 DEF ReplacePermits, TriageInv
    <3> HIDE DEF new
    <3>2. \A g \in Grouped(read[w]) : g = [permit |-> g.permit, items |-> g.items]
      BY DEF Grouped
    <3>3. {[permit |-> r.permit, items |-> r.items] : r \in permits'} = Grouped(read[w])
      <4>1. \A g \in Grouped(read[w]) :
              [permit |-> RowOf(g).permit, items |-> RowOf(g).items] = g
        BY <3>2
      <4> HIDE DEF RowOf
      <4> QED BY <3>1, <4>1
    <3>4. \A r, s \in permits' : r.permit = s.permit => r = s
      BY <3>1, GroupedOnce
    <3>5. triageQ = 0 /\ failures = 0 => read[w] = codes
      BY <2>5 DEF ReplacePermits, TriageInv, TriageSteps
    <3>6. /\ wpc'[w] = "idle" /\ triageQ' = triageQ /\ failures' = failures /\ codes' = codes
      BY <2>5 DEF ReplacePermits, EndTriage, EndTask, messages
    <3>7. triageQ' = 0 /\ failures' = 0 => Agree(permits, codes)'
      BY <3>3, <3>4, <3>5, <3>6 DEF Agree
    <3> QED BY <2>0, <3>6, <3>7 DEF TriageInv, TriageSteps
  <2>6. CASE TriageFails(w)
    BY <2>0, <2>6 DEF TriageFails, EndTriage, EndTask, TriageInv
  <2> QED BY <1>3, <2>1, <2>2, <2>3, <2>4, <2>5, <2>6 DEF Triage
<1>4. ASSUME NEW w \in Workers, DetermineOrigin(w) \/ OriginFails(w), UNCHANGED triageVars
      PROVE  TriageInv'
  <2>1. \A v \in Workers \ {w} : wpc[v] = "idle" /\ wpc'[v] = "idle" /\ read'[v] = read[v]
    BY <1>4, OthersIdle
  <2>2. /\ wpc[w] \notin TriageSteps /\ wpc'[w] \notin TriageSteps
        /\ UNCHANGED <<codes, triageQ>>
    BY <1>4 DEF DetermineOrigin, OriginFails, TakeOrigin, ListLineItems, OriginLoadCodes, LoadCodes,
       LoadDeterminations, ReadBreakdown, FindForUpsert, DivisionFails, Flush, InsertCollides,
       Deadlocked, NothingToDo, CommitOrigin, EndOrigin, EndTask, messages, TriageSteps, CodesInv
  <2>3. failures' = 0 => failures = 0
    BY <1>4, TaskCounters DEF CodesInv
  <2> QED BY <1>4, <2>1, <2>2, <2>3, TriageFrame DEF triageVars
<1>5. ASSUME NEW h \in Handlers, Submit(h) \/ SubmitFails(h) \/ \E i \in Items : SubmitRead(h, i),
             UNCHANGED triageVars
      PROVE  TriageInv'
  <2>1. UNCHANGED <<codes, triageQ, wpc, read>> /\ (failures' = 0 => failures = 0)
    BY <1>5 DEF Submit, SubmitCommit, SubmitCollides, SubmitSend, SubmitFails, SubmitRead, messages,
                CodesInv
  <2> QED BY <1>5, <2>1, TriageFrame DEF triageVars
<1> QED BY <1>1, <1>2, <1>3, <1>4, <1>5 DEF Next

LEMMA InitTriage == Init => TriageInv
<1> SUFFICES ASSUME Init PROVE TriageInv
  OBVIOUS
<1>1. Grouped(codes) = {}
  BY EffectiveCodesAssumption DEF Init, InitCodes, Unread, Grouped, Classified
<1> QED BY <1>1 DEF Init, InitCodes, InitPermits, TriageInv, Agree

LEMMA SoloStays == ASSUME AnalysisInv, [Next]_vars PROVE pool' = pool
BY TaskCounters DEF AnalysisInv, Next, vars, ChangeCodes, Submit, SubmitCommit, SubmitCollides, SubmitSend,
   SubmitFails, SubmitRead

\* With one worker and no failure, the permits at rest are those the current codes
\* require, one row each: the DELETE of a re-triage sees every row of the ones before.
THEOREM PermitsFollowCodes == Spec => []PermitsAgreeAtRest
<1>1. Init => (Solo => TriageInv)
  BY InitTriage
<1>2. AnalysisInv /\ (Solo => TriageInv) /\ [Next]_vars => (Solo => TriageInv)'
  BY TriageStep, SoloStays DEF Solo
<1>3. (Solo => TriageInv) => PermitsAgreeAtRest
  BY DEF TriageInv, PermitsAgreeAtRest, TriageAtRest, TriageSteps, Agree
<1> QED BY <1>1, <1>2, <1>3, AnalysisAlways, PTL DEF Spec

\* A task that ends without a commit, or with one: nothing of it is left.
LEMMA EndOriginEffect ==
  ASSUME AnalysisInv, NEW w \in Workers, EndOrigin(w)
  PROVE  /\ wpc'[w] = "idle" /\ DOMAIN flushed'[w] = {}
         /\ \A v \in Workers \ {w} :
              /\ wpc'[v] = wpc[v] /\ read'[v] = read[v] /\ loaded'[v] = loaded[v] /\ todo'[v] = todo[v]
              /\ item'[v] = item[v] /\ seen'[v] = seen[v] /\ base'[v] = base[v]
              /\ flushed'[v] = flushed[v]
<1>1. /\ wpc' = [wpc EXCEPT ![w] = "idle"] /\ read' = [read EXCEPT ![w] = Unread]
      /\ loaded' = [loaded EXCEPT ![w] = Unloaded] /\ todo' = [todo EXCEPT ![w] = {}]
      /\ item' = [item EXCEPT ![w] = NoItem] /\ seen' = [seen EXCEPT ![w] = NoRow]
      /\ base' = [base EXCEPT ![w] = NoRow] /\ flushed' = [flushed EXCEPT ![w] = <<>>]
  BY DEF EndOrigin, NextItem, EndTask
<1> QED BY <1>1 DEF AnalysisInv, CodesInv, TasksInv

LEMMA FlushEffect ==
  ASSUME AnalysisInv, NEW w \in Workers, Flush(w)
  PROVE  LET i == item[w]
             new == Determined(read[w][i], seen[w])
             columns == Written(base[w], new)
         IN
         /\ i \in Items /\ new \in Determination /\ base[w] \in Row /\ seen[w] \in Row
         /\ UNCHANGED <<determinations, loaded, todo, read, codes>>
         /\ base[w] = NoRow => determinations[i] = NoRow
         /\ wpc[w] = "flush" /\ wpc'[w] = IF todo[w] = {} THEN "commit" ELSE "next"
         /\ \A v \in Workers \ {w} :
              /\ wpc'[v] = wpc[v] /\ item'[v] = item[v] /\ seen'[v] = seen[v] /\ base'[v] = base[v]
              /\ flushed'[v] = flushed[v]
         /\ \/ columns = <<>> /\ flushed'[w] = flushed[w]
            \/ /\ columns # <<>>
               /\ DOMAIN flushed'[w] = DOMAIN flushed[w] \cup {i}
               /\ \A j \in DOMAIN flushed'[w] :
                    flushed'[w][j] = IF j = i THEN columns ELSE flushed[w][j]
<1> DEFINE i == item[w]
           new == Determined(read[w][i], seen[w])
           columns == Written(base[w], new)
<1> USE DEF AnalysisInv, CodesInv, TasksInv
<1>1. i \in Items /\ base[w] \in Row /\ seen[w] \in Row /\ new \in Determination
  BY DeterminedTyped DEF Flush
<1>2. flushed' = [flushed EXCEPT ![w] =
         IF columns = <<>> THEN @ ELSE [j \in DOMAIN @ \cup {i} |-> IF j = i THEN columns ELSE @[j]]]
  BY DEF Flush
<1>3. base[w] = NoRow => determinations[i] = NoRow
  <2>1. CASE columns = <<>>
    BY <1>1, <2>1, WrittenColumns, NoRowIsNone
  <2>2. CASE columns # <<>>
    BY <2>2 DEF Flush
  <2> QED BY <2>1, <2>2
<1>4. /\ wpc[w] = "flush" /\ wpc' = [wpc EXCEPT ![w] = IF todo[w] = {} THEN "commit" ELSE "next"]
      /\ item' = [item EXCEPT ![w] = NoItem] /\ seen' = [seen EXCEPT ![w] = NoRow]
      /\ base' = [base EXCEPT ![w] = NoRow]
      /\ UNCHANGED <<determinations, loaded, todo, read, codes>>
  BY DEF Flush, NextItem
<1> HIDE DEF new, columns
<1>5. /\ \A v \in Workers \ {w} : flushed'[v] = flushed[v]
      /\ \/ columns = <<>> /\ flushed'[w] = flushed[w]
         \/ /\ columns # <<>>
            /\ DOMAIN flushed'[w] = DOMAIN flushed[w] \cup {i}
            /\ \A j \in DOMAIN flushed'[w] :
                 flushed'[w][j] = IF j = i THEN columns ELSE flushed[w][j]
  BY <1>2
<1> QED BY <1>1, <1>3, <1>4, <1>5 DEF new, columns

LEMMA CommitEffect ==
  ASSUME AnalysisInv, NEW w \in Workers, CommitOrigin(w)
  PROVE  determinations' = [i \in Items |-> Merged(w, i)] /\ EndOrigin(w) /\ wpc[w] = "commit"
BY DEF CommitOrigin, Merged

LEMMA SubmitEffect ==
  ASSUME AnalysisInv, NEW h \in Handlers, SubmitCommit(h)
  PROVE  LET i == target[h] IN
         /\ i \in Items /\ hpc[h] = "submit" /\ hpc'[h] = "send"
         /\ \A j \in Items \ {i} : determinations'[j] = determinations[j]
         /\ \A w \in Workers : i \notin DOMAIN flushed[w]
         /\ determinations[i] = NoRow =>
              determinations'[i] # NoRow /\ determinations'[i].qualifies = "INSUFFICIENT_DATA"
              /\ IsPlaceholder(determinations'[i])
         /\ determinations[i] # NoRow =>
              /\ Follows(determinations'[i], determinations[i])
              /\ IsPlaceholder(determinations[i]) => IsPlaceholder(determinations'[i])
<1> DEFINE i == target[h]
<1> USE DEF AnalysisInv, TasksInv, RequestsInv
<1>1. i \in Items /\ hpc[h] = "submit" /\ hpc'[h] = "send" /\ \A w \in Workers : i \notin DOMAIN flushed[w]
  BY DEF SubmitCommit, RowLocked
<1>2. PICK b \in Breakdowns : determinations' = [determinations EXCEPT ![i] =
                                IF found[h] = NoRow THEN Placeholder(b)
                                ELSE WithBreakdown(@, found[h], b)]
  BY DEF SubmitCommit
<1>3. b.local \in Nat /\ b.total \in Nat /\ b.local # NoValue /\ b.total # NoValue
  BY CepaOriginAssumption
<1>4. CASE found[h] = NoRow
  <2>1. determinations[i] = NoRow
    BY <1>4 DEF SubmitCommit
  <2>2. determinations'[i] = Placeholder(b)
    BY <1>1, <1>2, <1>4
  <2>3. Placeholder(b) \in Determination
    BY <1>3 DEF Placeholder, Determination
  <2> QED BY <1>1, <1>2, <2>1, <2>2, <2>3, NoRowIsNone DEF Placeholder, IsPlaceholder
<1>5. CASE found[h] # NoRow
  <2> DEFINE old == determinations[i]
  <2>1. old \in Determination
    BY <1>1, <1>5 DEF Row
  <2>2. determinations'[i] = WithBreakdown(old, found[h], b)
    BY <1>1, <1>2, <1>5
  <2>3. WithBreakdown(old, found[h], b) \in Determination
    BY <1>3, <2>1 DEF WithBreakdown, Determination
  <2>4. LET new == WithBreakdown(old, found[h], b) IN
        /\ new.agreement = old.agreement /\ new.qualifies = old.qualifies /\ new.savings = old.savings
        /\ new.local \in {b.local, old.local} /\ new.total \in {b.total, old.total}
    BY <2>1 DEF WithBreakdown, Determination
  <2>5. Follows(determinations'[i], old)
    BY <1>3, <2>2, <2>3, <2>4, NoRowIsNone DEF Follows
  <2>6. IsPlaceholder(old) => IsPlaceholder(determinations'[i])
    BY <2>2, <2>3, <2>4, NoRowIsNone DEF IsPlaceholder
  <2> QED BY <1>1, <1>2, <2>1, <2>5, <2>6, NoRowIsNone
<1> QED BY <1>4, <1>5

\* What the flush of a determination makes of the row, before any commit.
LEMMA FlushedRow ==
  ASSUME AnalysisInv, BreakdownInv, NEW w \in Workers, Flush(w), NEW i, i = item[w],
         i \in DOMAIN flushed'[w], flushed'[w][i] = Written(base[w], Determined(read[w][i], seen[w]))
  PROVE  /\ Complete(Merged(w, i)')
         /\ determinations[i] # NoRow =>
              IsPlaceholder(determinations[i]) \/ {"local", "total"} \cap DOMAIN flushed'[w][i] = {}
<1> DEFINE new == Determined(read[w][i], seen[w])
           columns == Written(base[w], new)
           row == Merged(w, i)'
           old == determinations[i]
<1>1. /\ i \in Items /\ new \in Determination /\ base[w] \in Row /\ seen[w] \in Row
      /\ determinations' = determinations /\ (base[w] = NoRow => old = NoRow) /\ wpc[w] = "flush"
      /\ flushed'[w][i] = columns
  BY FlushEffect
<1>2. Complete(new) /\ new.local = LocalIn(seen[w]) /\ new.total = TotalIn(seen[w])
  BY <1>1, DeterminedTyped
<1>3. /\ \A c \in Columns : c \in DOMAIN columns <=> base[w] = NoRow \/ new[c] # base[w][c]
      /\ \A c \in DOMAIN columns : columns[c] = new[c]
      /\ base[w] = NoRow => DOMAIN columns = Columns
  BY <1>1, WrittenColumns
<1>4. \A c \in Columns : row[c] = IF c \in DOMAIN columns THEN new[c] ELSE old[c]
  <2>1. Merged(w, i)' = [c \in Columns |-> IF c \in DOMAIN columns THEN columns[c] ELSE old[c]]
    BY <1>1 DEF Merged
  <2> QED BY <1>3, <2>1
<1>5. /\ seen[w] # NoRow => Follows(old, seen[w]) /\ base[w] = seen[w]
      /\ seen[w] = NoRow /\ old # NoRow => IsPlaceholder(old)
      /\ base[w] # NoRow => Follows(old, base[w])
  BY <1>1 DEF BreakdownInv
<1> HIDE DEF new, columns, row, old
<1> USE DEF Columns
<1>6. row.qualifies = new.qualifies
  <2>1. base[w] # NoRow => old.qualifies = base[w].qualifies
    BY <1>5 DEF Follows
  <2> QED BY <1>3, <1>4, <2>1
<1>7. CASE seen[w] # NoRow
  <2>1. new.local = base[w].local /\ new.total = base[w].total /\ base[w] # NoRow
    BY <1>2, <1>5, <1>7 DEF LocalIn, TotalIn
  <2>2. "local" \notin DOMAIN columns /\ "total" \notin DOMAIN columns
    BY <1>3, <2>1
  <2>3. row.local = old.local /\ row.total = old.total
    BY <1>4, <2>2
  <2>4. Complete(row)
    BY <1>2, <1>5, <1>6, <2>1, <2>3 DEF Complete, Follows
  <2> QED BY <1>1, <2>2, <2>4 DEF row, old, columns, new
<1>8. CASE seen[w] = NoRow
  <2>1. new.qualifies \notin {"QUALIFIES", "DOES_NOT_QUALIFY"}
    BY <1>2, <1>8 DEF Complete, LocalIn
  <2>2. Complete(row)
    BY <1>6, <2>1 DEF Complete
  <2> QED BY <1>5, <1>8, <2>2 DEF row, old
<1> QED BY <1>7, <1>8

LEMMA BreakdownStep ==
  ASSUME AnalysisInv, Solo, BreakdownInv, [Next]_vars
  PROVE  BreakdownInv'
<1> USE DEF AnalysisInv, CodesInv, TasksInv
<1>1. ASSUME UNCHANGED <<determinations, wpc, loaded, item, seen, base, flushed>> PROVE BreakdownInv'
  <2>1. \A w \in Workers, i \in Items : Merged(w, i)' = Merged(w, i)
    BY <1>1 DEF Merged
  <2> QED BY <1>1, <2>1 DEF BreakdownInv, FlushedInv
<1>2. ASSUME NEW w \in Workers, Triage(w) \/ TriageFails(w), UNCHANGED originVars PROVE BreakdownInv'
  <2>1. /\ wpc'[w] \notin {"next", "upsert", "flush", "commit"} /\ \A v \in Workers \ {w} : wpc'[v] = wpc[v]
    BY <1>2 DEF Triage, TriageFails, TakeTriage, ListLineItems, TriageLoadCodes, LoadCodes,
       DeletePermits, LockPermits, ReplacePermits, EndTriage, EndTask, triageVars
  <2>2. \A v \in Workers, i \in Items : Merged(v, i)' = Merged(v, i)
    BY <1>2 DEF Merged, originVars, taskVars
  <2> QED BY <1>2, <2>1, <2>2 DEF BreakdownInv, FlushedInv, originVars, taskVars
<1>3. ASSUME NEW w \in Workers, DetermineOrigin(w) \/ OriginFails(w) PROVE BreakdownInv'
  <2>0. \A v \in Workers \ {w} : wpc[v] = "idle" /\ wpc'[v] = "idle" /\ DOMAIN flushed[v] = {}
    BY <1>3, OthersIdle DEF FlushedInv
  <2>1. ASSUME EndOrigin(w), \A i \in Items : Complete(determinations'[i]) PROVE BreakdownInv'
    BY <2>0, <2>1, EndOriginEffect DEF BreakdownInv
  <2>2. CASE CommitOrigin(w)
    <3>1. \A i \in Items : Complete(Merged(w, i))
      <4>1. \A i \in Items : i \notin DOMAIN flushed[w] => Merged(w, i) = determinations[i]
        BY DEF Merged
      <4> QED BY <4>1 DEF BreakdownInv
    <3> QED BY <2>1, <2>2, <3>1, CommitEffect
  <2>3. CASE DivisionFails(w) \/ InsertCollides(w) \/ Deadlocked(w) \/ NothingToDo(w) \/ OriginFails(w)
    BY <2>1, <2>3 DEF DivisionFails, InsertCollides, Deadlocked, NothingToDo, OriginFails, BreakdownInv
  <2>4. CASE TakeOrigin(w) \/ OriginLoadCodes(w)
    <3>1. /\ UNCHANGED <<determinations, loaded, item, seen, base, flushed>>
          /\ wpc'[w] \notin {"next", "upsert", "flush", "commit"}
      BY <2>4 DEF TakeOrigin, ListLineItems, OriginLoadCodes, LoadCodes, originVars, taskVars
    <3>2. \A v \in Workers, i \in Items : Merged(v, i)' = Merged(v, i)
      BY <3>1 DEF Merged
    <3> QED BY <2>0, <3>1, <3>2 DEF BreakdownInv, FlushedInv
  <2>5. CASE LoadDeterminations(w)
    <3>1. \A i \in Items : loaded'[w][i] # NoRow => loaded'[w][i] = determinations[i]
      BY <2>5 DEF LoadDeterminations
    <3>2. /\ UNCHANGED <<determinations, item, seen, base, flushed>>
          /\ wpc'[w] = "next" /\ DOMAIN flushed[w] = {}
      BY <2>5 DEF LoadDeterminations, FlushedInv
    <3>3. \A i \in Items : loaded'[w][i] # NoRow => Follows(determinations[i], loaded'[w][i])
      BY <3>1 DEF Follows
    <3>4. \A i \in Items : Complete(determinations'[i])
      BY <3>2 DEF BreakdownInv
    <3>5. \A v \in Workers : DOMAIN flushed'[v] = {}
      BY <2>0, <3>2
    <3>6. \A v \in Workers : wpc'[v] = IF v = w THEN "next" ELSE "idle"
      BY <2>0, <3>2
    <3>7. determinations' = determinations
      BY <3>2
    <3> QED BY <3>3, <3>4, <3>5, <3>6, <3>7 DEF BreakdownInv
  <2>6. CASE ReadBreakdown(w)
    <3>1. PICK i \in todo[w] : item' = [item EXCEPT ![w] = i] /\ seen' = [seen EXCEPT ![w] = RowSeen(w, i)]
      BY <2>6 DEF ReadBreakdown
    <3>2. /\ UNCHANGED <<determinations, loaded, base, flushed>> /\ wpc[w] = "next"
          /\ wpc'[w] = "upsert" /\ i \in Items /\ item'[w] = i /\ seen'[w] = RowSeen(w, i)
      BY <2>6, <3>1 DEF ReadBreakdown
    <3>3. IF seen'[w] # NoRow THEN Follows(determinations[i], seen'[w]) ELSE determinations[i] = NoRow
      BY <3>2 DEF BreakdownInv, RowSeen, Follows
    <3>4. \A v \in Workers, j \in Items : Merged(v, j)' = Merged(v, j)
      BY <3>2 DEF Merged
    <3> QED BY <2>0, <3>2, <3>3, <3>4 DEF BreakdownInv, FlushedInv
  <2>7. CASE FindForUpsert(w)
    <3>1. /\ UNCHANGED <<determinations, loaded, item, seen, flushed>> /\ wpc[w] = "upsert"
          /\ wpc'[w] = "flush"
          /\ base'[w] = IF seen[w] # NoRow THEN seen[w] ELSE determinations[item[w]]
      BY <2>7 DEF FindForUpsert
    <3>2. base'[w] # NoRow => Follows(determinations[item[w]], base'[w])
      BY <3>1 DEF BreakdownInv, Follows
    <3>3. \A v \in Workers, j \in Items : Merged(v, j)' = Merged(v, j)
      BY <3>1 DEF Merged
    <3> QED BY <2>0, <3>1, <3>2, <3>3 DEF BreakdownInv, FlushedInv
  <2>8. CASE Flush(w)
    <3> DEFINE i == item[w]
               columns == Written(base[w], Determined(read[w][i], seen[w]))
    <3>1. /\ UNCHANGED <<determinations, loaded>> /\ wpc[w] = "flush" /\ wpc'[w] \in {"next", "commit"}
          /\ i \in Items
          /\ \A v \in Workers \ {w} : flushed'[v] = flushed[v]
          /\ \/ flushed'[w] = flushed[w]
             \/ /\ DOMAIN flushed'[w] = DOMAIN flushed[w] \cup {i}
                /\ \A j \in DOMAIN flushed'[w] :
                     flushed'[w][j] = IF j = i THEN columns ELSE flushed[w][j]
      BY <2>8, FlushEffect
    <3>2. ASSUME NEW j \in DOMAIN flushed'[w]
          PROVE  /\ Complete(Merged(w, j)')
                 /\ determinations[j] # NoRow =>
                      IsPlaceholder(determinations[j])
                      \/ {"local", "total"} \cap DOMAIN flushed'[w][j] = {}
      <4>1. CASE j \in DOMAIN flushed[w] /\ flushed'[w][j] = flushed[w][j]
        <5>1. Merged(w, j)' = Merged(w, j)
          BY <3>1, <4>1 DEF Merged
        <5> QED BY <4>1, <5>1 DEF BreakdownInv
      <4>2. CASE j = i /\ flushed'[w][j] = columns
        BY <2>8, <4>2, FlushedRow
      <4> QED BY <3>1, <4>1, <4>2
    <3> HIDE DEF i, columns
    <3>3. \A v \in Workers \ {w} : DOMAIN flushed'[v] = {}
      BY <2>0, <3>1
    <3> QED BY <2>0, <3>1, <3>2, <3>3 DEF BreakdownInv
  <2> QED BY <1>3, <2>2, <2>3, <2>4, <2>5, <2>6, <2>7, <2>8 DEF DetermineOrigin
<1>4. ASSUME NEW h \in Handlers, SubmitCommit(h) PROVE BreakdownInv'
  <2> DEFINE i == target[h]
  <2>1. /\ i \in Items /\ UNCHANGED <<wpc, loaded, item, seen, base, flushed>>
        /\ \A j \in Items \ {i} : determinations'[j] = determinations[j]
        /\ \A w \in Workers : i \notin DOMAIN flushed[w]
        /\ determinations[i] = NoRow =>
             determinations'[i] # NoRow /\ determinations'[i].qualifies = "INSUFFICIENT_DATA"
             /\ IsPlaceholder(determinations'[i])
        /\ determinations[i] # NoRow =>
             /\ Follows(determinations'[i], determinations[i])
             /\ IsPlaceholder(determinations[i]) => IsPlaceholder(determinations'[i])
    BY <1>4, SubmitEffect DEF SubmitCommit, taskVars
  <2> HIDE DEF i
  <2>2. \A row : \A j \in Items : row # NoRow /\ determinations[j] # NoRow /\ Follows(determinations[j], row)
                                  => Follows(determinations'[j], row)
    BY <2>1 DEF Follows
  <2>3. \A j \in Items : Complete(determinations'[j])
    <3> SUFFICES ASSUME NEW j \in Items PROVE Complete(determinations'[j])
      OBVIOUS
    <3>1. Complete(determinations[j])
      BY DEF BreakdownInv
    <3>2. CASE j # i
      BY <2>1, <3>1, <3>2
    <3>3. CASE j = i /\ determinations[i] = NoRow
      BY <2>1, <3>3 DEF Complete
    <3>4. CASE j = i /\ determinations[i] # NoRow
      BY <2>1, <3>1, <3>4 DEF Complete, Follows
    <3> QED BY <3>2, <3>3, <3>4
  <2>4. \A j \in Items : /\ IsPlaceholder(determinations[j]) => IsPlaceholder(determinations'[j])
                         /\ determinations[j] = NoRow /\ determinations'[j] # NoRow => IsPlaceholder(determinations'[j])
    BY <2>1
  <2>5. \A w \in Workers : \A j \in DOMAIN flushed[w] :
          j \in Items /\ j # i /\ determinations'[j] = determinations[j] /\ Merged(w, j)' = Merged(w, j)
    BY <2>1 DEF Merged, FlushedInv
  <2>6. \A w \in Workers : wpc[w] \in {"upsert", "flush"} => item[w] \in Items
    OBVIOUS
  <2> QED BY <2>1, <2>2, <2>3, <2>4, <2>5, <2>6 DEF BreakdownInv
<1>5. ASSUME NEW h \in Handlers,
             SubmitCollides(h) \/ SubmitSend(h) \/ SubmitFails(h) \/ \E i \in Items : SubmitRead(h, i)
      PROVE  BreakdownInv'
  BY <1>1, <1>5 DEF SubmitCollides, SubmitSend, SubmitFails, SubmitRead, taskVars
<1>6. CASE UNCHANGED vars \/ (ChangeCodes /\ UNCHANGED <<triageVars, originVars>>)
  BY <1>1, <1>6 DEF vars, ChangeCodes, originVars, taskVars
<1> QED BY <1>2, <1>3, <1>4, <1>5, <1>6 DEF Next, Submit

LEMMA BreakdownAlways == Spec => [](Solo => BreakdownInv)
<1>1. ASSUME Init PROVE BreakdownInv
  <2>1. \A w \in Workers : DOMAIN flushed[w] = {} /\ wpc[w] = "idle"
    BY <1>1 DEF Init, InitCodes, InitOrigin
  <2>2. \A i \in Items : determinations[i] = NoRow
    BY <1>1 DEF Init, InitOrigin, Unloaded
  <2> QED BY <2>1, <2>2 DEF BreakdownInv, Complete, NoRow
<1>2. AnalysisInv /\ (Solo => BreakdownInv) /\ [Next]_vars => (Solo => BreakdownInv)'
  BY BreakdownStep, SoloStays DEF Solo
<1> QED BY <1>1, <1>2, AnalysisAlways, PTL DEF Spec

\* One worker never stores a verdict on an incomplete breakdown, though the request that
\* submits one may change the row between any two steps of its task.
THEOREM VerdictsHaveBreakdowns == Spec => []VerdictNeedsBreakdown
<1>1. (Solo => BreakdownInv) => VerdictNeedsBreakdown
  BY DEF BreakdownInv, Complete, VerdictNeedsBreakdown
<1> QED BY <1>1, BreakdownAlways, PTL

\* What a user submits on a determination that has been made is kept, by every step but
\* the commit of another breakdown for the same line item.
THEOREM BreakdownsAreKept == Spec => DeterminedBreakdownKept
<1>1. ASSUME AnalysisInv, Solo => BreakdownInv, [Next]_vars
      PROVE  [Solo => \A i \in Items :
                IsPlaceholder(determinations[i]) \/ BreakdownKeptFor(i)]_determinations
  <2> SUFFICES ASSUME Solo, determinations' # determinations, NEW i \in Items,
                      ~IsPlaceholder(determinations[i]), determinations[i] # NoRow
               PROVE  BreakdownKeptFor(i)
    BY DEF BreakdownKeptFor
  <2>1. ASSUME NEW w \in Workers, CommitOrigin(w) PROVE BreakdownKeptFor(i)
    <3>1. determinations'[i] = Merged(w, i)
      BY <1>1, <2>1, CommitEffect
    <3>2. i \in DOMAIN flushed[w] => {"local", "total"} \cap DOMAIN flushed[w][i] = {}
      BY <1>1 DEF BreakdownInv
    <3>3. Merged(w, i).local = determinations[i].local /\ Merged(w, i).total = determinations[i].total
      BY <3>2 DEF Merged, Columns
    <3> QED BY <3>1, <3>3 DEF BreakdownKeptFor
  <2>2. ASSUME NEW h \in Handlers, SubmitCommit(h) PROVE BreakdownKeptFor(i)
    BY <1>1, <2>2, SubmitEffect DEF BreakdownKeptFor
  <2>3. (\E w \in Workers : CommitOrigin(w)) \/ (\E h \in Handlers : SubmitCommit(h))
    BY <1>1 DEF Next, vars, originVars, ChangeCodes, DetermineOrigin, OriginFails, TakeOrigin,
       OriginLoadCodes, LoadDeterminations, ReadBreakdown, FindForUpsert, DivisionFails, Flush,
       InsertCollides, Deadlocked, NothingToDo, Submit, SubmitCollides, SubmitSend, SubmitFails, SubmitRead
  <2> QED BY <2>1, <2>2, <2>3
<1> QED BY <1>1, AnalysisAlways, BreakdownAlways, PTL DEF Spec, DeterminedBreakdownKept

-----------------------------------------------------------------------------
(* The last determination of a shipment.                                   *)

\* Steps that leave origin determination alone.
LEMMA SettlesFrame ==
  ASSUME SettlesInv, Quiet' => Quiet, UNCHANGED <<codes, determinations, taskVars>>,
         \A v \in Workers : \/ wpc[v] \notin OriginSteps /\ wpc'[v] \notin OriginSteps
                            \/ wpc'[v] = wpc[v] /\ read'[v] = read[v]
  PROVE  SettlesInv'
<1> SUFFICES ASSUME Quiet' PROVE SettlesInv'
  BY DEF SettlesInv
<1> USE DEF taskVars
<1>1. \A v \in Workers, i \in Items : Merged(v, i)' = Merged(v, i)
  BY DEF Merged
<1>2. \A v \in Workers, i \in Items : Settled(i, Merged(v, i))' <=> Settled(i, Merged(v, i))
  BY <1>1 DEF Settled
<1>3. ASSUME NEW v \in Workers, wpc'[v] \in OriginSteps PROVE Current(v)'
  <2>1. Current(v) /\ wpc'[v] = wpc[v] /\ read'[v] = read[v]
    BY <1>3 DEF SettlesInv
  <2> QED BY <1>2, <2>1 DEF Current
<1>4. ASSUME \A v \in Workers : wpc'[v] \notin OriginSteps
      PROVE  ZeroTotal' \/ \A i \in Items : Settled(i, determinations[i])'
  <2>1. \A v \in Workers : wpc[v] \notin OriginSteps
    BY <1>4
  <2>2. ZeroTotal \/ \A i \in Items : Settled(i, determinations[i])
    BY <2>1 DEF SettlesInv
  <2> QED BY <2>2 DEF ZeroTotal, Settled
<1> QED BY <1>3, <1>4 DEF SettlesInv

\* A task that has heard everything flushes the verdict on the current code and row.
LEMMA FlushSettles ==
  ASSUME AnalysisInv, OnceInv, NEW w \in Workers, Flush(w), Current(w), NEW i, i = item[w]
  PROVE  Settled(i, Merged(w, i))'
<1> DEFINE new == Determined(read[w][i], seen[w])
           columns == Written(base[w], new)
           old == determinations[i]
<1>1. /\ i \in Items /\ new \in Determination /\ base[w] \in Row
      /\ determinations' = determinations /\ codes' = codes /\ wpc[w] = "flush"
      /\ \/ columns = <<>> /\ flushed'[w] = flushed[w]
         \/ i \in DOMAIN flushed'[w] /\ flushed'[w][i] = columns
  BY FlushEffect
<1>2. read[w] = codes /\ base[w] = old /\ seen[w] = old /\ i \notin DOMAIN flushed[w]
  BY <1>1 DEF Current, OnceInv
<1>3. Determined(codes[i], new) = new
  BY <1>1, <1>2, DeterminedAgain DEF AnalysisInv, TasksInv
<1>4. Merged(w, i)' = new
  <2>1. CASE columns = <<>> /\ flushed'[w] = flushed[w]
    BY <1>1, <1>2, <2>1, WrittenColumns DEF Merged
  <2>2. CASE i \in DOMAIN flushed'[w] /\ flushed'[w][i] = columns
    <3>1. Merged(w, i)' = [c \in Columns |-> IF c \in DOMAIN columns THEN columns[c] ELSE old[c]]
      BY <1>1, <2>2 DEF Merged
    <3>2. \A c \in Columns : (IF c \in DOMAIN columns THEN columns[c] ELSE old[c]) = new[c]
      BY <1>1, <1>2, WrittenColumns
    <3> HIDE DEF columns, new, old
    <3> QED BY <1>1, <3>1, <3>2, RowColumns
  <2> QED BY <1>1, <2>1, <2>2
<1> QED BY <1>1, <1>3, <1>4, NoRowIsNone DEF Settled

LEMMA SettlesOrigin ==
  ASSUME AnalysisInv, Solo, OnceInv, SettlesInv, NEW w \in Workers,
         DetermineOrigin(w) \/ OriginFails(w), Quiet'
  PROVE  SettlesInv'
<1> USE DEF AnalysisInv, CodesInv, TasksInv
<1>1. \A v \in Workers \ {w} : wpc[v] = "idle" /\ wpc'[v] = "idle"
  BY OthersIdle
<1>2. (wpc'[w] \in OriginSteps /\ Current(w)') => SettlesInv'
  BY <1>1 DEF SettlesInv, OriginSteps
<1>3. ASSUME EndOrigin(w), ZeroTotal' \/ \A i \in Items : Settled(i, determinations[i])'
      PROVE  SettlesInv'
  <2>1. wpc'[w] = "idle"
    BY <1>3, EndOriginEffect
  <2> QED BY <1>1, <1>3, <2>1 DEF SettlesInv, OriginSteps
<1>4. CASE TakeOrigin(w)
  BY <1>2, <1>4 DEF TakeOrigin, ListLineItems, Current, OriginSteps
<1>5. ASSUME ~TakeOrigin(w) PROVE Quiet /\ UNCHANGED codes /\ Current(w)
  <2>1. /\ UNCHANGED <<originQ, hpc, codes>> /\ wpc[w] \in OriginSteps
    BY <1>5 DEF DetermineOrigin, OriginFails, OriginLoadCodes, LoadDeterminations, ReadBreakdown,
       FindForUpsert, DivisionFails, Flush, InsertCollides, Deadlocked, NothingToDo, CommitOrigin,
       messages, requestVars, originVars, OriginSteps
  <2>2. failures' = 0 => failures = 0
    BY TaskCounters
  <2> QED BY <2>1, <2>2 DEF Quiet, SettlesInv
<1>6. CASE OriginLoadCodes(w)
  <2>1. Current(w) /\ codes' = codes
    BY <1>5, <1>6 DEF OriginLoadCodes, TakeOrigin, ListLineItems
  <2>2. read'[w] = codes /\ wpc'[w] = "originRows"
    BY <1>6, <2>1 DEF OriginLoadCodes, LoadCodes, Current, Readings
  <2> QED BY <1>2, <2>1, <2>2 DEF Current, OriginSteps
<1>7. CASE LoadDeterminations(w)
  <2>1. Current(w) /\ codes' = codes
    BY <1>5, <1>7 DEF LoadDeterminations, TakeOrigin, ListLineItems
  <2>2. /\ read' = read /\ wpc'[w] = "next" /\ determinations' = determinations
        /\ todo'[w] = {i \in Items : codes[i] # Absent}
        /\ \A i \in Items : codes[i] # Absent => loaded'[w][i] = determinations[i]
    BY <1>7, <2>1 DEF LoadDeterminations, Current
  <2>3. Current(w)'
    BY <2>1, <2>2 DEF Current
  <2> QED BY <1>2, <2>2, <2>3 DEF OriginSteps
<1>8. CASE ReadBreakdown(w)
  <2>1. Current(w) /\ codes' = codes
    BY <1>5, <1>8 DEF ReadBreakdown, TakeOrigin, ListLineItems
  <2>2. PICK i \in todo[w] : /\ item' = [item EXCEPT ![w] = i]
                             /\ seen' = [seen EXCEPT ![w] = RowSeen(w, i)]
                             /\ todo' = [todo EXCEPT ![w] = todo[w] \ {i}]
    BY <1>8 DEF ReadBreakdown
  <2>3. /\ UNCHANGED <<read, determinations, loaded, flushed>> /\ wpc[w] = "next" /\ wpc'[w] = "upsert"
        /\ i \in Items /\ item'[w] = i /\ todo'[w] = todo[w] \ {i} /\ seen'[w] = RowSeen(w, i)
    BY <1>8, <2>2 DEF ReadBreakdown
  <2>4. codes[i] # Absent /\ seen'[w] = determinations[i]
    BY <2>1, <2>3 DEF Current, RowSeen
  <2>5. \A j \in Items : Settled(j, Merged(w, j)) => Settled(j, Merged(w, j))'
    BY <2>1, <2>3 DEF Settled, Merged
  <2>6. Current(w)'
    BY <2>1, <2>3, <2>4, <2>5 DEF Current
  <2> QED BY <1>2, <2>3, <2>6 DEF OriginSteps
<1>9. CASE FindForUpsert(w)
  <2>1. Current(w) /\ codes' = codes
    BY <1>5, <1>9 DEF FindForUpsert, TakeOrigin, ListLineItems
  <2>2. /\ UNCHANGED <<read, determinations, loaded, flushed, todo, item, seen>>
        /\ wpc[w] = "upsert" /\ wpc'[w] = "flush"
        /\ base'[w] = IF seen[w] # NoRow THEN seen[w] ELSE determinations[item[w]]
    BY <1>9 DEF FindForUpsert
  <2>3. base'[w] = seen[w]
    BY <2>1, <2>2 DEF Current
  <2>4. \A j \in Items : Settled(j, Merged(w, j)) => Settled(j, Merged(w, j))'
    BY <2>1, <2>2 DEF Settled, Merged
  <2>5. Current(w)'
    BY <2>1, <2>2, <2>3, <2>4 DEF Current
  <2> QED BY <1>2, <2>2, <2>5 DEF OriginSteps
<1>10. CASE DivisionFails(w)
  <2>1. Current(w) /\ wpc[w] = "upsert"
    BY <1>5, <1>10 DEF DivisionFails, TakeOrigin, ListLineItems
  <2>2. seen[w] = determinations[item[w]] /\ TotalIn(seen[w]) = 0
    BY <1>10, <2>1 DEF DivisionFails, DividesByZero, Current
  <2>3. determinations[item[w]] # NoRow /\ determinations[item[w]].total = 0
    BY <2>2, CepaOriginAssumption DEF TotalIn
  <2>4. ZeroTotal'
    BY <1>10, <2>1, <2>3 DEF DivisionFails, ZeroTotal
  <2> QED BY <1>3, <1>10, <2>4 DEF DivisionFails
<1>11. CASE Flush(w)
  <2>1. Current(w) /\ codes' = codes
    BY <1>5, <1>11 DEF Flush, TakeOrigin, ListLineItems
  <2>2. PICK i \in Items : i = item[w]
    BY <1>11 DEF Flush
  <2>3. /\ UNCHANGED <<determinations, loaded, todo, read>> /\ wpc[w] = "flush"
        /\ wpc'[w] = IF todo[w] = {} THEN "commit" ELSE "next"
        /\ \A j \in Items \ {i} : /\ j \in DOMAIN flushed'[w] <=> j \in DOMAIN flushed[w]
                                  /\ j \in DOMAIN flushed[w] => flushed'[w][j] = flushed[w][j]
    <3> DEFINE columns == Written(base[w], Determined(read[w][item[w]], seen[w]))
    <3>1. \/ flushed'[w] = flushed[w]
          \/ /\ DOMAIN flushed'[w] = DOMAIN flushed[w] \cup {item[w]}
             /\ \A j \in DOMAIN flushed'[w] :
                  flushed'[w][j] = IF j = item[w] THEN columns ELSE flushed[w][j]
      BY <1>11, FlushEffect
    <3>2. /\ UNCHANGED <<determinations, loaded, todo, read>> /\ wpc[w] = "flush"
          /\ wpc'[w] = IF todo[w] = {} THEN "commit" ELSE "next"
      BY <1>11, FlushEffect
    <3> HIDE DEF columns
    <3> QED BY <2>2, <3>1, <3>2
  <2>4. Settled(i, Merged(w, i))'
    BY <1>11, <2>1, <2>2, FlushSettles
  <2>5. ASSUME NEW j \in Items, j # i, Settled(j, Merged(w, j)) PROVE Settled(j, Merged(w, j))'
    <3>1. Merged(w, j)' = Merged(w, j)
      BY <2>3, <2>5 DEF Merged
    <3> QED BY <2>1, <2>5, <3>1 DEF Settled
  <2>6. ASSUME NEW j \in Items, codes[j] # Absent PROVE j \in todo'[w] \/ Settled(j, Merged(w, j))'
    BY <2>1, <2>2, <2>3, <2>4, <2>5, <2>6 DEF Current
  <2>7. Current(w)'
    BY <2>1, <2>3, <2>6 DEF Current
  <2> QED BY <1>2, <2>3, <2>7 DEF OriginSteps
<1>12. CASE InsertCollides(w)
  <2>1. Current(w)
    BY <1>5, <1>12 DEF InsertCollides, TakeOrigin, ListLineItems
  <2> QED BY <1>12, <2>1 DEF InsertCollides, Current
<1>13. CASE Deadlocked(w)
  BY <1>1, <1>13 DEF Deadlocked
<1>14. CASE NothingToDo(w)
  <2>1. Current(w) /\ codes' = codes /\ determinations' = determinations /\ EndOrigin(w)
    BY <1>5, <1>14 DEF NothingToDo, TakeOrigin, ListLineItems
  <2>2. todo[w] = {} /\ DOMAIN flushed[w] = {} /\ wpc[w] = "next"
    BY <1>14 DEF NothingToDo, OnceInv
  <2>3. \A i \in Items : codes[i] # Absent => Settled(i, determinations[i])
    BY <2>1, <2>2 DEF Current, Merged
  <2> QED BY <1>3, <2>1, <2>3 DEF Settled
<1>15. CASE CommitOrigin(w)
  <2>1. Current(w) /\ codes' = codes
    BY <1>5, <1>15 DEF CommitOrigin, TakeOrigin, ListLineItems
  <2>2. /\ determinations' = [i \in Items |-> Merged(w, i)] /\ EndOrigin(w) /\ wpc[w] = "commit"
    BY <1>15, CommitEffect
  <2>3. \A i \in Items : codes[i] # Absent => Settled(i, Merged(w, i))
    BY <2>1, <2>2 DEF Current
  <2>4. \A i \in Items : Settled(i, determinations[i])'
    BY <2>1, <2>2, <2>3 DEF Settled
  <2> QED BY <1>3, <2>2, <2>4
<1>16. CASE OriginFails(w)
  BY <1>16 DEF OriginFails, Quiet
<1> QED BY <1>4, <1>6, <1>7, <1>8, <1>9, <1>10, <1>11, <1>12, <1>13, <1>14, <1>15, <1>16
        DEF DetermineOrigin

LEMMA SettlesStep ==
  ASSUME AnalysisInv, Solo, OnceInv, SettlesInv, [Next]_vars
  PROVE  SettlesInv'
<1> SUFFICES ASSUME Quiet' PROVE SettlesInv'
  BY DEF SettlesInv
<1> USE DEF AnalysisInv, CodesInv
<1>1. CASE UNCHANGED vars
  BY <1>1, SettlesFrame DEF vars, originVars, messages, requestVars, Quiet
<1>2. CASE ChangeCodes
  BY <1>2 DEF ChangeCodes, SendBoth, Quiet
<1>3. ASSUME NEW w \in Workers, Triage(w) \/ TriageFails(w), UNCHANGED originVars PROVE SettlesInv'
  <2>1. \A v \in Workers \ {w} : wpc[v] = "idle" /\ wpc'[v] = "idle" /\ read'[v] = read[v]
    BY <1>3, OthersIdle
  <2>2. wpc[w] \notin OriginSteps /\ wpc'[w] \notin OriginSteps /\ originQ' = originQ
    BY <1>3 DEF Triage, TriageFails, TakeTriage, ListLineItems, TriageLoadCodes, LoadCodes,
       DeletePermits, LockPermits, ReplacePermits, EndTriage, EndTask, messages, triageVars, OriginSteps
  <2>3. Quiet' => Quiet
    BY <1>3, <2>2, TaskCounters DEF Quiet, originVars, requestVars
  <2> QED BY <1>3, <2>1, <2>2, <2>3, SettlesFrame, TaskCounters DEF originVars
<1>4. ASSUME NEW w \in Workers, DetermineOrigin(w) \/ OriginFails(w) PROVE SettlesInv'
  BY <1>4, SettlesOrigin
<1>5. ASSUME NEW h \in Handlers, SubmitCollides(h) \/ \E i \in Items : SubmitRead(h, i)
      PROVE  SettlesInv'
  <2>1. /\ UNCHANGED <<codes, determinations, taskVars, wpc, read, originQ, failures>>
        /\ \A g \in Handlers \ {h} : hpc'[g] = hpc[g]
        /\ hpc[h] # "send"
    BY <1>5 DEF SubmitCollides, SubmitRead, EndSubmit, messages, RequestsInv
  <2>2. Quiet' => Quiet
    BY <2>1 DEF Quiet
  <2> QED BY <2>1, <2>2, SettlesFrame
<1>6. ASSUME NEW h \in Handlers, SubmitCommit(h) \/ SubmitSend(h) \/ SubmitFails(h) PROVE FALSE
  BY <1>6 DEF SubmitCommit, SubmitSend, SubmitFails, Quiet, RequestsInv
<1> QED BY <1>1, <1>2, <1>3, <1>4, <1>5, <1>6 DEF Next, Submit

\* With one worker and no failure, once every message has been worked off each line item
\* has the determination of its current code and breakdown; only a stored total of zero,
\* on which the task fails, leaves a shipment undetermined.
THEOREM DeterminationsFollowCodes == Spec => []DeterminationsAgreeAtRest
<1>1. ASSUME Init PROVE OnceInv /\ SettlesInv
  <2>1. \A w \in Workers : DOMAIN flushed[w] = {} /\ todo[w] = {} /\ wpc[w] = "idle"
    BY <1>1 DEF Init, InitCodes, InitOrigin
  <2>2. \A i \in Items : codes[i] = Absent
    BY <1>1 DEF Init, InitCodes, Unread
  <2> QED BY <2>1, <2>2 DEF OnceInv, SettlesInv, Settled, OriginSteps
<1>2. AnalysisInv /\ OnceInv /\ (Solo => SettlesInv) /\ [Next]_vars => (OnceInv /\ (Solo => SettlesInv))'
  BY OnceStep, SettlesStep, SoloStays DEF Solo
<1>3. (Solo => SettlesInv) => DeterminationsAgreeAtRest
  BY DEF SettlesInv, DeterminationsAgreeAtRest, OriginAtRest, OriginSteps, Quiet, Settled
<1> QED BY <1>1, <1>2, <1>3, AnalysisAlways, PTL DEF Spec
=============================================================================
