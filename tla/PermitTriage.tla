---------------------------- MODULE PermitTriage ----------------------------
(***************************************************************************)
(* The Celery task triage_shipment_permits: the permit requirements of a   *)
(* shipment are derived from the effective codes of its line items and     *)
(* replace the previous ones, in one transaction at READ COMMITTED.        *)
(*                                                                         *)
(* The bulk DELETE works on the rows committed when it starts and waits    *)
(* for the transaction that has deleted the same rows before it; it does   *)
(* not see what that transaction inserts.                                  *)
(***************************************************************************)
EXTENDS EffectiveCodes

CONSTANTS
  PermitRules,   \* set of [permit, prefixes]: (regulator, permit_type) and its codes
  MaxBatches     \* bound on batches of rows that exist at once

ASSUME PermitTriageAssumption == MaxBatches \in Nat

VARIABLES
  permits,       \* permit_requirements rows: [batch, permit, items]
  doomed         \* per worker: the rows its DELETE works on

triageVars == <<permits, doomed>>

\* PermitRulesRepository.find_matching
Requires(rule, code) == Matches(code, rule.prefixes)

\* Mutant: a row for every rule, whether a line item requires it or not.
GroupedAll(reading) ==
  {[permit |-> p, items |-> {i \in Classified(reading) :
                              \E r \in PermitRules : r.permit = p /\ Requires(r, reading[i])}] :
     p \in {r.permit : r \in PermitRules}}

\* One row per (regulator, permit_type), with every line item it applies to.
Grouped(reading) ==
  {[permit |-> p, items |-> {i \in Classified(reading) :
                              \E r \in PermitRules : r.permit = p /\ Requires(r, reading[i])}] :
     p \in {r.permit : r \in {r \in PermitRules :
                               \E i \in Classified(reading) : Requires(r, reading[i])}}}

InitPermits ==
  /\ permits = {}
  /\ doomed = [w \in Workers |-> {}]

EndTriage(w) == EndTask(w) /\ doomed' = [doomed EXCEPT ![w] = {}]

TakeTriage(w) ==
  /\ triageQ > 0
  /\ ListLineItems(w, "triageCodes")
  /\ triageQ' = triageQ - 1
  /\ UNCHANGED <<codes, originQ, pool, triageVars, requests, failures>>

TriageLoadCodes(w) ==
  /\ wpc[w] = "triageCodes"
  /\ LoadCodes(w, "delete")
  /\ UNCHANGED <<codes, messages, pool, triageVars, requests, failures>>

\* Mutant: re-triage adds to the rows it finds.
DoomedNone == {}

Doomed == permits

\* replace_for_shipment: the DELETE starts, ...
DeletePermits(w) ==
  /\ wpc[w] = "delete"
  /\ doomed' = [doomed EXCEPT ![w] = Doomed]
  /\ wpc' = [wpc EXCEPT ![w] = "lock"]
  /\ UNCHANGED <<codes, messages, pool, read, permits, requests, failures>>

\* ... gets the row locks, ...
LockPermits(w) ==
  /\ wpc[w] = "lock"
  /\ \A v \in Workers : wpc[v] = "replace" => doomed[v] \cap doomed[w] = {}
  /\ wpc' = [wpc EXCEPT ![w] = "replace"]
  /\ UNCHANGED <<codes, messages, pool, read, triageVars, requests, failures>>

FreeBatches ==
  {n \in 1..MaxBatches :
     \A r \in permits \cup UNION {doomed[w] : w \in Workers} : r.batch # n}

\* ... and the new rows are inserted and committed with it.
ReplacePermits(w) ==
  /\ wpc[w] = "replace"
  /\ FreeBatches # {}   \* the bound
  /\ LET new == CHOOSE n \in FreeBatches : TRUE IN
     permits' = (permits \ doomed[w]) \cup
       {[batch |-> new, permit |-> g.permit, items |-> g.items] : g \in Grouped(read[w])}
  /\ EndTriage(w)
  /\ UNCHANGED <<codes, messages, pool, requests, failures>>

\* Rolled back; the message is not retried.
TriageFails(w) ==
  /\ wpc[w] \in {"triageCodes", "delete", "lock", "replace"} /\ failures < MaxFailures[pool]
  /\ failures' = failures + 1
  /\ EndTriage(w)
  /\ UNCHANGED <<codes, messages, pool, permits, requests>>

Triage(w) ==
  \/ TakeTriage(w) \/ TriageLoadCodes(w) \/ DeletePermits(w) \/ LockPermits(w) \/ ReplacePermits(w)

-----------------------------------------------------------------------------
\* No permit is required for nothing, and only a DELETE in progress has rows to work on.
PermitsTypeOK ==
  /\ permits \subseteq [batch : 1..MaxBatches, permit : {r.permit : r \in PermitRules},
                        items : (SUBSET Items) \ {{}}]
  /\ \A w \in Workers : doomed[w] # {} => wpc[w] \in {"lock", "replace"}

TriageAtRest == triageQ = 0 /\ \A w \in Workers : wpc[w] = "idle"

\* When the last triage is over, there is one row for each permit that the current
\* codes require, with exactly the line items that require it (one worker: two that
\* overlap leave both sets of rows, or those of the older codes).
PermitsAgreeAtRest ==
  Solo /\ TriageAtRest /\ failures = 0 =>
    /\ {[permit |-> r.permit, items |-> r.items] : r \in permits} = Grouped(codes)
    /\ \A r, s \in permits : r.permit = s.permit => r = s
=============================================================================
