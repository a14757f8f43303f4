--------------------------- MODULE EffectiveCodes ---------------------------
(***************************************************************************)
(* What permit triage and origin determination share: the effective HS     *)
(* codes of one shipment's line items, as LineItems changes them, the two  *)
(* messages sent after each change, and the Celery workers that take them. *)
(*                                                                         *)
(* A message takes effect when a worker takes it, so the delay between the *)
(* commit of a change and its send_task is time in the queue.  Line items  *)
(* are never deleted once classified (LineItems), so none disappears here. *)
(***************************************************************************)
EXTENDS Integers, FiniteSets, Sequences, SequencesExt

CONSTANTS
  Items,           \* line items the shipment may get
  Codes,           \* HS codes, as sequences of digit groups, "." and " "
  NoCode, Absent,  \* "no effective code", and "no such line item yet"
  Workers, Pools,  \* Celery workers, and the sets of them a deployment may run
  MaxRequests,     \* per pool: bound on commits of codes and submitted breakdowns
  MaxFailures      \* per pool: bound on processes that fail

ASSUME EffectiveCodesAssumption ==
  /\ NoCode \notin Codes /\ Absent \notin Codes \cup {NoCode}
  /\ IsFiniteSet(Workers) /\ Pools \subseteq SUBSET Workers
  /\ MaxRequests \in [Pools -> Nat] /\ MaxFailures \in [Pools -> Nat]

VARIABLES
  codes,             \* committed effective code of each line item
  triageQ, originQ,  \* messages waiting
  pool,              \* the workers that run
  wpc,               \* per worker: next step of its task
  read,              \* per worker: line items and codes as its task has read them
  requests, failures

messages == <<triageQ, originQ>>

Unread == [i \in Items |-> Absent]

InitCodes ==
  /\ codes = Unread
  /\ triageQ = 0 /\ originQ = 0
  /\ pool \in Pools
  /\ wpc = [w \in Workers |-> "idle"]
  /\ read = [w \in Workers |-> Unread]
  /\ requests = 0 /\ failures = 0

\* triage_shipment_permits and determine_shipment_origin.
SendBoth == triageQ' = triageQ + 1 /\ originQ' = originQ + 1

MayRequest == requests < MaxRequests[pool] /\ requests' = requests + 1

\* A classification, a reclassification or an override commits, the same codes perhaps.
ChangeCodes ==
  /\ MayRequest
  /\ \E new \in [Items -> Codes \cup {NoCode, Absent}] :
       /\ \A i \in Items : new[i] = Absent => codes[i] = Absent
       /\ codes' = new
  /\ SendBoth
  /\ UNCHANGED <<pool, wpc, read, failures>>

\* list_by_shipment is one SELECT for the line items and, later, one for their
\* classifications.
ListLineItems(w, next) ==
  /\ w \in pool /\ wpc[w] = "idle"
  /\ read' = [read EXCEPT ![w] = codes]
  /\ wpc' = [wpc EXCEPT ![w] = next]

LoadCodes(w, next) ==
  /\ read' = [read EXCEPT ![w] = [i \in Items |-> IF @[i] = Absent THEN Absent ELSE codes[i]]]
  /\ wpc' = [wpc EXCEPT ![w] = next]

\* The transaction and the session end.
EndTask(w) ==
  /\ wpc' = [wpc EXCEPT ![w] = "idle"]
  /\ read' = [read EXCEPT ![w] = Unread]

\* Rule files list code prefixes; a code matches without its separators.
Normalized(code) == SelectSeq(code, LAMBDA c : c \notin {".", " "})
Matches(code, prefixes) ==
  \E p \in prefixes : IsPrefix(SelectSeq(p, LAMBDA c : c # "."), Normalized(code))

Classified(reading) == {i \in Items : reading[i] \in Codes}
Solo == Cardinality(pool) = 1
=============================================================================
