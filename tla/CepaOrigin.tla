----------------------------- MODULE CepaOrigin -----------------------------
(***************************************************************************)
(* The Celery task determine_shipment_origin, one CEPA determination per   *)
(* line item (services/cepa_origin_service.py), and the HTTP request that  *)
(* submits a line item's value-content breakdown (origin_service.py).      *)
(*                                                                         *)
(* A task is one transaction at READ COMMITTED.  Its session keeps the     *)
(* rows it has loaded: a later SELECT returns them as they were.  An       *)
(* UPDATE writes the columns that differ from the loaded ones and locks    *)
(* the row until the transaction ends, and so does an INSERT.              *)
(*                                                                         *)
(* Amounts are whole units; reasoning, required_documents, missing_fields  *)
(* and the currency follow from the columns that are modelled.             *)
(***************************************************************************)
EXTENDS EffectiveCodes

CONSTANTS
  CepaRules,        \* sequence of rules, in the order of the file
  CaseFold,         \* country names, and what they are compared as
  Origin, Destination,  \* of the shipment
  NoCountry,        \* null
  Breakdowns,       \* [local, total] a user may submit
  NoValue, NoItem,  \* null, and "no line item"
  Handlers          \* HTTP requests in progress at once

ASSUME CepaOriginAssumption ==
  /\ Origin \in DOMAIN CaseFold \cup {NoCountry} /\ Destination \in DOMAIN CaseFold \cup {NoCountry}
  /\ CepaRules \in Seq(Range(CepaRules))
  /\ \A r \in Range(CepaRules) :
       /\ {r.origin, r.destination} \subseteq DOMAIN CaseFold
       /\ {r.threshold, r.with, r.without} \subseteq Nat
  /\ Breakdowns \subseteq [local : Nat, total : Nat]
  /\ NoItem \notin Items /\ NoValue \notin Int
  /\ IsFiniteSet(Handlers)

VARIABLES
  determinations,  \* origin_determinations table, by line_item_id (unique)
  loaded,          \* per worker: the rows its session loaded with the line items
  todo, item,      \* per worker: line items left, and the one it works on
  seen,            \* per worker: the row the breakdown is read from
  base,            \* per worker: the row the upsert found
  flushed,         \* per worker: columns written and not committed, by line item
  hpc, target,     \* per request: next step, and the line item
  found            \* per request: the row it has loaded

taskVars == <<loaded, todo, item, seen, base, flushed>>
requestVars == <<hpc, target, found>>
originVars == <<determinations, taskVars, requestVars>>

NoRow == [qualifies |-> "none"]
NoAgreement == "none"
Columns == {"agreement", "qualifies", "savings", "local", "total"}

-----------------------------------------------------------------------------
(* _evaluate and the rules file.                                           *)

\* CepaRulesRepository.find_matching: the first rule for both countries and the code,
\* 0 if there is none.
Rule(code) ==
  IF code = NoCode \/ Origin = NoCountry \/ Destination = NoCountry THEN 0
  ELSE SelectInSeq(CepaRules, LAMBDA r :
         /\ CaseFold[r.origin] = CaseFold[Origin]
         /\ CaseFold[r.destination] = CaseFold[Destination]
         /\ Matches(code, r.prefixes))

Verdict(rule, local, total) ==
  LET r == CepaRules[rule]
      qualifies == local * 100 >= r.threshold * total
  IN  [agreement |-> r.agreement,
       qualifies |-> IF qualifies THEN "QUALIFIES" ELSE "DOES_NOT_QUALIFY",
       savings |-> IF qualifies THEN total * (r.without - r.with) ELSE NoValue]

\* Mutant: a missing value counts as nothing.
EvaluateMissingAsZero(code, local, total) ==
  IF Rule(code) = 0
    THEN [agreement |-> NoAgreement, qualifies |-> "NOT_APPLICABLE", savings |-> NoValue]
  ELSE Verdict(Rule(code), IF local = NoValue THEN 0 ELSE local, IF total = NoValue THEN 1 ELSE total)

\* Savings in hundredths of a unit.
Evaluate(code, local, total) ==
  IF Rule(code) = 0
    THEN [agreement |-> NoAgreement, qualifies |-> "NOT_APPLICABLE", savings |-> NoValue]
  ELSE IF local = NoValue \/ total = NoValue
    THEN [agreement |-> CepaRules[Rule(code)].agreement,
          qualifies |-> "INSUFFICIENT_DATA", savings |-> NoValue]
  ELSE Verdict(Rule(code), local, total)

\* local_content_value / total_value with a total of zero.
DividesByZero(code, local, total) == Rule(code) # 0 /\ local # NoValue /\ total = 0

LocalIn(row) == IF row = NoRow THEN NoValue ELSE row.local
TotalIn(row) == IF row = NoRow THEN NoValue ELSE row.total

\* What a determination writes: the verdict, and the breakdown as it was read.
Determined(code, row) ==
  LET verdict == Evaluate(code, LocalIn(row), TotalIn(row)) IN
  [agreement |-> verdict.agreement, qualifies |-> verdict.qualifies,
   savings |-> verdict.savings, local |-> LocalIn(row), total |-> TotalIn(row)]

-----------------------------------------------------------------------------
Unloaded == [i \in Items |-> NoRow]

InitOrigin ==
  /\ determinations = Unloaded
  /\ loaded = [w \in Workers |-> Unloaded]
  /\ todo = [w \in Workers |-> {}] /\ item = [w \in Workers |-> NoItem]
  /\ seen = [w \in Workers |-> NoRow] /\ base = [w \in Workers |-> NoRow]
  /\ flushed = [w \in Workers |-> <<>>]
  /\ hpc = [h \in Handlers |-> "idle"] /\ target = [h \in Handlers |-> NoItem]
  /\ found = [h \in Handlers |-> NoRow]

NextItem(w) ==
  /\ item' = [item EXCEPT ![w] = NoItem]
  /\ seen' = [seen EXCEPT ![w] = NoRow] /\ base' = [base EXCEPT ![w] = NoRow]

EndOrigin(w) ==
  /\ EndTask(w)
  /\ loaded' = [loaded EXCEPT ![w] = Unloaded]
  /\ todo' = [todo EXCEPT ![w] = {}]
  /\ flushed' = [flushed EXCEPT ![w] = <<>>]
  /\ NextItem(w)

\* Whoever has written the row and not committed yet.
RowLockedByOther(w, i) == \E v \in Workers \ {w} : i \in DOMAIN flushed[v]
RowLocked(i) == \E v \in Workers : i \in DOMAIN flushed[v]

TakeOrigin(w) ==
  /\ originQ > 0
  /\ ListLineItems(w, "originCodes")
  /\ originQ' = originQ - 1
  /\ UNCHANGED <<codes, triageQ, pool, originVars, requests, failures>>

OriginLoadCodes(w) ==
  /\ wpc[w] = "originCodes"
  /\ LoadCodes(w, "originRows")
  /\ UNCHANGED <<codes, messages, pool, originVars, requests, failures>>

\* The eager load of origin_determination.
LoadDeterminations(w) ==
  /\ wpc[w] = "originRows"
  /\ todo' = [todo EXCEPT ![w] = {i \in Items : read[w][i] # Absent}]
  /\ loaded' = [loaded EXCEPT ![w] =
       [i \in Items |-> IF read[w][i] = Absent THEN NoRow ELSE determinations[i]]]
  /\ wpc' = [wpc EXCEPT ![w] = "next"]
  /\ UNCHANGED <<codes, messages, pool, read, determinations, item, seen, base, flushed,
                 requestVars, requests, failures>>

\* Mutant: the breakdown of an earlier determination is not read back.
RowSeenNever(w, i) == NoRow

\* get_by_line_item_id: a row of the session as the session has it, a new one fresh.
RowSeen(w, i) == IF loaded[w][i] # NoRow THEN loaded[w][i] ELSE determinations[i]

ReadBreakdown(w) ==
  /\ wpc[w] = "next"
  /\ \E i \in todo[w] :
       /\ item' = [item EXCEPT ![w] = i]
       /\ seen' = [seen EXCEPT ![w] = RowSeen(w, i)]
       /\ todo' = [todo EXCEPT ![w] = @ \ {i}]
  /\ wpc' = [wpc EXCEPT ![w] = "upsert"]
  /\ UNCHANGED <<codes, messages, pool, read, determinations, loaded, base, flushed,
                 requestVars, requests, failures>>

\* The SELECT of the upsert finds the row of the session, or one inserted meanwhile.
FindForUpsert(w) ==
  /\ wpc[w] = "upsert"
  /\ ~DividesByZero(read[w][item[w]], LocalIn(seen[w]), TotalIn(seen[w]))
  /\ base' = [base EXCEPT ![w] = IF seen[w] # NoRow THEN seen[w] ELSE determinations[item[w]]]
  /\ wpc' = [wpc EXCEPT ![w] = "flush"]
  /\ UNCHANGED <<codes, messages, pool, read, determinations, loaded, todo, item, seen, flushed,
                 requestVars, requests, failures>>

\* decimal.DivisionByZero (or InvalidOperation): the task is rolled back, not retried.
DivisionFails(w) ==
  /\ wpc[w] = "upsert"
  /\ DividesByZero(read[w][item[w]], LocalIn(seen[w]), TotalIn(seen[w]))
  /\ EndOrigin(w)
  /\ UNCHANGED <<codes, messages, pool, determinations, requestVars, requests, failures>>

\* The columns of an INSERT, or those of an UPDATE.
Written(old, new) ==
  [c \in {c \in Columns : old = NoRow \/ new[c] # old[c]} |-> new[c]]

Flush(w) ==
  LET i == item[w]
      columns == Written(base[w], Determined(read[w][i], seen[w]))
  IN
  /\ wpc[w] = "flush"
  /\ \/ columns = <<>>
     \/ ~RowLockedByOther(w, i) /\ (base[w] = NoRow => determinations[i] = NoRow)
  /\ flushed' = [flushed EXCEPT ![w] =
       IF columns = <<>> THEN @ ELSE [j \in DOMAIN @ \cup {i} |-> IF j = i THEN columns ELSE @[j]]]
  /\ wpc' = [wpc EXCEPT ![w] = IF todo[w] = {} THEN "commit" ELSE "next"]
  /\ NextItem(w)
  /\ UNCHANGED <<codes, messages, pool, read, determinations, loaded, todo,
                 requestVars, requests, failures>>

\* IntegrityError: somebody inserted the row after the upsert had looked for it.
InsertCollides(w) ==
  /\ wpc[w] = "flush"
  /\ base[w] = NoRow /\ determinations[item[w]] # NoRow
  /\ EndOrigin(w)
  /\ UNCHANGED <<codes, messages, pool, determinations, requestVars, requests, failures>>

\* PostgreSQL aborts one of two tasks that wait for each other's rows.
Deadlocked(w) ==
  /\ wpc[w] = "flush"
  /\ \E v \in Workers \ {w} :
       wpc[v] = "flush" /\ item[w] \in DOMAIN flushed[v] /\ item[v] \in DOMAIN flushed[w]
  /\ EndOrigin(w)
  /\ UNCHANGED <<codes, messages, pool, determinations, requestVars, requests, failures>>

NothingToDo(w) ==
  /\ wpc[w] = "next" /\ todo[w] = {}
  /\ EndOrigin(w)
  /\ UNCHANGED <<codes, messages, pool, determinations, requestVars, requests, failures>>

CommitOrigin(w) ==
  /\ wpc[w] = "commit"
  /\ determinations' = [i \in Items |->
       IF i \notin DOMAIN flushed[w] THEN determinations[i]
       ELSE [c \in Columns |-> IF c \in DOMAIN flushed[w][i] THEN flushed[w][i][c]
                               ELSE determinations[i][c]]]
  /\ EndOrigin(w)
  /\ UNCHANGED <<codes, messages, pool, requestVars, requests, failures>>

OriginFails(w) ==
  /\ wpc[w] \in {"originCodes", "originRows", "next", "upsert", "flush", "commit"}
  /\ failures < MaxFailures[pool]
  /\ failures' = failures + 1
  /\ EndOrigin(w)
  /\ UNCHANGED <<codes, messages, pool, determinations, requestVars, requests>>

-----------------------------------------------------------------------------
(* OriginService.submit_value_breakdown.                                   *)

EndSubmit(h) ==
  /\ hpc' = [hpc EXCEPT ![h] = "idle"]
  /\ target' = [target EXCEPT ![h] = NoItem] /\ found' = [found EXCEPT ![h] = NoRow]

SubmitRead(h, i) ==
  /\ hpc[h] = "idle" /\ codes[i] # Absent /\ MayRequest
  /\ hpc' = [hpc EXCEPT ![h] = "submit"]
  /\ target' = [target EXCEPT ![h] = i]
  /\ found' = [found EXCEPT ![h] = determinations[i]]
  /\ UNCHANGED <<codes, messages, pool, wpc, read, determinations, taskVars, failures>>

Placeholder(b) ==
  [agreement |-> NoAgreement, qualifies |-> "INSUFFICIENT_DATA", savings |-> NoValue,
   local |-> b.local, total |-> b.total]

\* The row with a breakdown: only the columns that differ from the loaded ones.
WithBreakdown(row, old, b) ==
  [row EXCEPT !.local = IF b.local = old.local THEN @ ELSE b.local,
              !.total = IF b.total = old.total THEN @ ELSE b.total]

SubmitCommit(h) ==
  LET i == target[h] IN
  /\ hpc[h] = "submit" /\ ~RowLocked(i)
  /\ found[h] = NoRow => determinations[i] = NoRow
  /\ \E b \in Breakdowns :
       determinations' = [determinations EXCEPT ![i] =
         IF found[h] = NoRow THEN Placeholder(b) ELSE WithBreakdown(@, found[h], b)]
  /\ hpc' = [hpc EXCEPT ![h] = "send"]
  /\ UNCHANGED <<codes, messages, pool, wpc, read, taskVars, target, found, requests, failures>>

\* The placeholder runs into the row a worker has inserted: 500, nothing stored.
SubmitCollides(h) ==
  /\ hpc[h] = "submit" /\ ~RowLocked(target[h])
  /\ found[h] = NoRow /\ determinations[target[h]] # NoRow
  /\ EndSubmit(h)
  /\ UNCHANGED <<codes, messages, pool, wpc, read, determinations, taskVars, requests, failures>>

\* Mutant: the task is left to the next change of a code.
SubmitSendNot(h) ==
  /\ hpc[h] = "send"
  /\ EndSubmit(h)
  /\ UNCHANGED <<codes, messages, pool, wpc, read, determinations, taskVars, requests, failures>>

SubmitSend(h) ==
  /\ hpc[h] = "send"
  /\ originQ' = originQ + 1
  /\ EndSubmit(h)
  /\ UNCHANGED <<codes, triageQ, pool, wpc, read, determinations, taskVars, requests, failures>>

SubmitFails(h) ==
  /\ hpc[h] # "idle" /\ failures < MaxFailures[pool]
  /\ failures' = failures + 1
  /\ EndSubmit(h)
  /\ UNCHANGED <<codes, messages, pool, wpc, read, determinations, taskVars, requests>>

-----------------------------------------------------------------------------
DetermineOrigin(w) ==
  \/ TakeOrigin(w) \/ OriginLoadCodes(w) \/ LoadDeterminations(w) \/ ReadBreakdown(w)
  \/ FindForUpsert(w) \/ DivisionFails(w) \/ Flush(w) \/ InsertCollides(w) \/ Deadlocked(w)
  \/ NothingToDo(w) \/ CommitOrigin(w)

Submit(h) == SubmitCommit(h) \/ SubmitCollides(h) \/ SubmitSend(h)

Determination ==
  [agreement : {CepaRules[k].agreement : k \in DOMAIN CepaRules} \cup {NoAgreement},
   qualifies : {"NOT_APPLICABLE", "INSUFFICIENT_DATA", "QUALIFIES", "DOES_NOT_QUALIFY"},
   savings : Int \cup {NoValue}, local : Nat \cup {NoValue}, total : Nat \cup {NoValue}]

OriginTypeOK ==
  /\ \A i \in Items : determinations[i] \in Determination \cup {NoRow}
  /\ \A w \in Workers :
       /\ todo[w] \subseteq Items /\ item[w] \in Items \cup {NoItem}
       /\ DOMAIN flushed[w] \subseteq Items
       /\ wpc[w] = "idle" => DOMAIN flushed[w] = {}
  /\ hpc \in [Handlers -> {"idle", "submit", "send"}]
  /\ target \in [Handlers -> Items \cup {NoItem}]

OriginAtRest ==
  /\ originQ = 0
  /\ \A w \in Workers : wpc[w] = "idle"
  /\ \A h \in Handlers : hpc[h] = "idle"

ZeroTotal == \E i \in Items : determinations[i] # NoRow /\ determinations[i].total = 0

\* When the last determination is over, every line item has one, and it is the verdict
\* on its current code and breakdown (one worker; a stored total of zero stops the
\* determination of every line item).
DeterminationsAgreeAtRest ==
  Solo /\ OriginAtRest /\ failures = 0 /\ ~ZeroTotal =>
    \A i \in Items : codes[i] # Absent =>
      /\ determinations[i] # NoRow
      /\ determinations[i] = Determined(codes[i], determinations[i])

\* No line item is told that it does not qualify, or that it does, without a complete
\* breakdown: a false negative costs the user real money (one worker).
VerdictNeedsBreakdown ==
  Solo => \A i \in Items :
    determinations[i].qualifies \in {"QUALIFIES", "DOES_NOT_QUALIFY"} =>
      determinations[i].local # NoValue /\ determinations[i].total # NoValue

BreakdownKeptFor(i) ==
  determinations[i] # NoRow /\ determinations[i].total # NoValue =>
    \/ /\ determinations'[i].local = determinations[i].local
       /\ determinations'[i].total = determinations[i].total
    \/ \E h \in Handlers : target[h] = i /\ hpc[h] = "submit" /\ hpc'[h] = "send"

\* A determination never changes the breakdown a user has submitted: the user need not
\* supply it again.
BreakdownKept == [][Solo => \A i \in Items : BreakdownKeptFor(i)]_determinations

IsPlaceholder(row) ==
  row # NoRow /\ row.qualifies = "INSUFFICIENT_DATA" /\ row.agreement = NoAgreement

\* So it is for a breakdown submitted on a determination that a worker has made.
DeterminedBreakdownKept ==
  [][Solo => \A i \in Items :
       IsPlaceholder(determinations[i]) \/ BreakdownKeptFor(i)]_determinations
=============================================================================
