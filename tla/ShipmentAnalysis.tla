-------------------------- MODULE ShipmentAnalysis --------------------------
(***************************************************************************)
(* Permit triage and origin determination of one shipment together: every  *)
(* change of a code sends both messages, and the same workers run both     *)
(* tasks, one task at a time each.                                         *)
(***************************************************************************)
EXTENDS PermitTriage, CepaOrigin

vars == <<codes, messages, pool, wpc, read, requests, failures, triageVars, originVars>>

Init == InitCodes /\ InitPermits /\ InitOrigin

Next ==
  \/ ChangeCodes /\ UNCHANGED <<triageVars, originVars>>
  \/ \E w \in Workers :
       \/ (Triage(w) \/ TriageFails(w)) /\ UNCHANGED originVars
       \/ (DetermineOrigin(w) \/ OriginFails(w)) /\ UNCHANGED triageVars
  \/ \E h \in Handlers :
       /\ Submit(h) \/ SubmitFails(h) \/ \E i \in Items : SubmitRead(h, i)
       /\ UNCHANGED triageVars

Spec == Init /\ [][Next]_vars

TypeOK ==
  /\ codes \in [Items -> Codes \cup {NoCode, Absent}]
  /\ triageQ \in 0..MaxRequests[pool] /\ originQ \in 0..MaxRequests[pool]
  /\ pool \in Pools
  /\ read \in [Workers -> [Items -> Codes \cup {NoCode, Absent}]]
  /\ requests \in 0..MaxRequests[pool] /\ failures \in 0..MaxFailures[pool]
  /\ PermitsTypeOK /\ OriginTypeOK
=============================================================================
