----------------------- MODULE DocumentPipelineProofs -----------------------
(***************************************************************************)
(* Proofs about DocumentPipeline for any set of documents, workers and     *)
(* requests and any bound on failures and redeliveries.                    *)
(***************************************************************************)
EXTENDS DocumentPipeline, TLAPS

USE ProcsAssumption, DocsAssumption, BoundsAssumption, NoStatusAssumption

-----------------------------------------------------------------------------
(* What the helpers return and preserve.                                   *)

\* compute_shipment_status returns None or one of two statuses.
LEMMA ComputedStatus ==
  ASSUME NEW status
  PROVE  ComputeShipmentStatus(status) \in {NoStatus, "EXTRACTING", "NEEDS_MANUAL_REVIEW"}
BY DEF ComputeShipmentStatus

\* Finishing a call forgets the process's local state and nothing else.
LocalTypeOK ==
  /\ pc \in [Procs -> PC]
  /\ job \in [Procs -> Docs \cup {NoDoc}]
  /\ \A p \in Procs : pc[p] # "idle" => job[p] \in Docs
  /\ row \in [Procs -> DocumentRow]
  /\ view \in [Procs -> ShipmentStatus \cup {NoStatus}]
  /\ write \in [Procs -> ShipmentStatus \cup {NoStatus}]

LEMMA FinishType ==
  ASSUME TypeOK, NEW p \in Procs, Finish(p)
  PROVE  LocalTypeOK'
<1>1. AbsentRow \in DocumentRow
  BY DEF AbsentRow, DocumentRow, DocumentStatus
<1>2. QED BY <1>1 DEF TypeOK, LocalTypeOK, Finish, Goto, PC

LEMMA ReleaseLocksType ==
  ASSUME TypeOK, NEW p \in Procs, ReleaseLocks(p)
  PROVE  /\ shipmentLock' \in Procs \cup {NoProc}
         /\ docLock' \in [Docs -> Procs \cup {NoProc}]
BY DEF TypeOK, ReleaseLocks

\* A commit writes the row and the status the transaction has prepared.
LEMMA CommitType ==
  ASSUME TypeOK, NEW p \in Procs, Commit(p)
  PROVE  /\ shipment' \in ShipmentStatus
         /\ doc' \in [Docs -> DocumentRow]
         /\ shipmentLock' \in Procs \cup {NoProc}
         /\ docLock' \in [Docs -> Procs \cup {NoProc}]
         /\ UNCHANGED <<objects, job, row, view, write>>
<1>1. ReleaseLocks(p) BY DEF Commit
<1>2. shipment' \in ShipmentStatus BY DEF TypeOK, Commit
<1>3. doc' \in [Docs -> DocumentRow] BY DEF TypeOK, Commit
<1>4. QED BY <1>1, <1>2, <1>3, ReleaseLocksType DEF Commit

LEMMA ChainType ==
  ASSUME TypeOK, NEW p \in Procs, Chain(p), UNCHANGED job, pc[p] # "idle"
  PROVE  /\ queue' \in [Docs -> Nat] /\ classifySent' \subseteq Docs /\ checkSent' \subseteq Docs
         /\ pc' \in [Procs -> PC]
         /\ \A q \in Procs : pc'[q] # "idle" => job'[q] \in Docs
BY DEF Chain, NextTask, TypeOK, Goto, PC

-----------------------------------------------------------------------------
(* Type correctness.                                                       *)

LEMMA InitType == Init => TypeOK
BY DEF Init, TypeOK, ShipmentStatus, DocumentRow, DocumentStatus, AbsentRow, PC

LEMMA SendType ==
  ASSUME TypeOK, NEW p \in Procs, SendClassify(p) \/ SendCheck(p)
  PROVE  TypeOK'
<1>1. CASE SendClassify(p)
  BY <1>1 DEF SendClassify, TypeOK, Goto, PC, db, locks, faults
<1>2. CASE SendCheck(p)
  BY <1>2, FinishType DEF SendCheck, TypeOK, LocalTypeOK, db, locks, faults
<1> QED BY <1>1, <1>2

LEMMA RequestType ==
  ASSUME TypeOK, NEW h \in Handlers, Request(h)
  PROVE  TypeOK'
<1> USE DEF Procs
<1>1. ASSUME NEW d \in Docs, UploadRead(h, d) PROVE TypeOK'
  BY <1>1 DEF UploadRead, TypeOK, Goto, PC, db, locks, broker, faults
<1>2. ASSUME NEW d \in Docs, NEW k \in Keys, CorrectRead(h, d, k) PROVE TypeOK'
  BY <1>2 DEF CorrectRead, TypeOK, Goto, PC, db, locks, broker, faults,
              DocumentRow, DocumentStatus
<1> QED BY <1>1, <1>2 DEF Request

LEMMA HandlerType ==
  ASSUME TypeOK, NEW h \in Handlers, HandlerStep(h)
  PROVE  TypeOK'
<1>0. h \in Procs BY DEF Procs
<1> USE <1>0
<1>1. CASE UploadStore(h)
  <2>1. StatusAfterUpload(view[h]) \in ShipmentStatus \cup {NoStatus}
    BY DEF StatusAfterUpload, ShipmentStatus
  <2>2. [status |-> "QUEUED", fields |-> {}] \in DocumentRow
    BY DEF DocumentRow, DocumentStatus
  <2>3. QED BY <1>1, <2>1, <2>2
               DEF UploadStore, TypeOK, Goto, PC, locks, broker, faults
<1>2. CASE UploadCommit(h)
  BY <1>2, CommitType DEF UploadCommit, TypeOK, Goto, PC, broker, faults
<1>3. CASE UploadEnqueue(h)
  BY <1>3, FinishType DEF UploadEnqueue, TypeOK, LocalTypeOK, db, locks, faults
<1>4. CASE CorrectSiblings(h)
  <2>1. ComputeShipmentStatus(StatusesSeenBy(h, "EXTRACTED")) \in ShipmentStatus \cup {NoStatus}
    BY ComputedStatus DEF ShipmentStatus
  <2>2. QED BY <1>4, <2>1
               DEF CorrectSiblings, TypeOK, Goto, PC, db, broker, faults
<1>5. CASE CorrectShipment(h)
  BY <1>5 DEF CorrectShipment, TypeOK, Goto, PC, db, locks, broker, faults
<1>6. CASE CorrectCommit(h)
  BY <1>6, CommitType, ChainType DEF CorrectCommit, Commit, TypeOK, faults
<1> QED BY <1>1, <1>2, <1>3, <1>4, <1>5, <1>6, SendType DEF HandlerStep

LEMMA WorkerType ==
  ASSUME TypeOK, NEW w \in Workers, WorkerStep(w)
  PROVE  TypeOK'
<1>0. w \in Procs BY DEF Procs
<1> USE <1>0
<1>1. ASSUME NEW d \in Docs, Take(w, d) PROVE TypeOK'
  BY <1>1 DEF Take, Acknowledge, TypeOK, Goto, PC, db, locks, faults
<1>2. CASE MarkProcessing(w)
  <2>1. ComputeShipmentStatus(StatusesSeenBy(w, "PROCESSING")) \in ShipmentStatus \cup {NoStatus}
    BY ComputedStatus DEF ShipmentStatus
  <2>2. QED BY <1>2, <2>1
               DEF MarkProcessing, TypeOK, Goto, PC, db, broker, faults
<1>3. CASE FlushProcessing(w)
  BY <1>3 DEF FlushProcessing, TypeOK, Goto, PC, db, broker, faults
<1>4. CASE ExtractFields(w)
  <2>1. PICK outcome \in Settled, same \in BOOLEAN :
          row' = [row EXCEPT ![w] =
                    [status |-> outcome,
                     fields |-> IF same THEN doc[job[w]].fields ELSE {}]]
    BY <1>4 DEF ExtractFields
  <2>2. [status |-> outcome, fields |-> IF same THEN doc[job[w]].fields ELSE {}]
          \in DocumentRow
    BY <1>4 DEF ExtractFields, TypeOK, DocumentRow, DocumentStatus, Settled
  <2>3. QED BY <1>4, <2>1, <2>2
               DEF ExtractFields, TypeOK, Goto, PC, db, locks, broker, faults
<1>5. CASE RecomputeSiblings(w)
  <2>1. ComputeShipmentStatus(StatusesSeenBy(w, row[w].status)) \in ShipmentStatus \cup {NoStatus}
    BY ComputedStatus DEF ShipmentStatus
  <2>2. QED BY <1>5, <2>1
               DEF RecomputeSiblings, TypeOK, Goto, PC, db, locks, broker, faults
<1>6. CASE RecomputeShipment(w)
  BY <1>6 DEF RecomputeShipment, TypeOK, Goto, PC, db, locks, broker, faults
<1>7. CASE ExtractCommit(w)
  BY <1>7, CommitType, ChainType DEF ExtractCommit, Commit, TypeOK, faults
<1> QED BY <1>1, <1>2, <1>3, <1>4, <1>5, <1>6, <1>7, SendType DEF WorkerStep

LEMMA FailType ==
  ASSUME TypeOK, NEW p \in Procs, Fail(p)
  PROVE  TypeOK'
BY FinishType, ReleaseLocksType DEF Fail, TypeOK, LocalTypeOK, db, broker

LEMMA RedeliverType ==
  ASSUME TypeOK, NEW d \in Docs, Redeliver(d)
  PROVE  TypeOK'
BY DEF Redeliver, TypeOK, db, locks, local

LEMMA NextType == TypeOK /\ [Next]_vars => TypeOK'
<1> SUFFICES ASSUME TypeOK, [Next]_vars PROVE TypeOK'
  OBVIOUS
<1>1. CASE UNCHANGED vars
  BY <1>1 DEF TypeOK, vars, db, locks, broker, local, faults
<1>2. CASE Next
  BY <1>2, RequestType, HandlerType, WorkerType, FailType, RedeliverType DEF Next
<1> QED BY <1>1, <1>2

\* Every variable keeps its type, and a process that is not idle has a document.
THEOREM TypeCorrect == Spec => []TypeOK
BY InitType, NextType, PTL DEF Spec

-----------------------------------------------------------------------------
(* The safety invariant.                                                   *)

LEMMA InitSafe == Init => SafetyInv
<1> SUFFICES ASSUME Init PROVE SafetyInv
  OBVIOUS
<1>1. TypeOK BY InitType
<1>2. Roles BY DEF Init, Roles, Procs, UploadPCs, CorrectPCs, ExtractPCs
<1>3. LocksHeld
  BY DEF Init, LocksHeld, HoldsDocument, HoldsShipment
<1>4. UploadsOwnTheirRow /\ PendingWrites
  BY DEF Init, UploadsOwnTheirRow, PendingWrites, CorrectPCs, ShipmentStatus
<1>5. RowsAreStored /\ LeavesCreated
  BY DEF Init, RowsAreStored, LeavesCreated, AbsentRow
<1> QED BY <1>1, <1>2, <1>3, <1>4, <1>5 DEF SafetyInv

\* A step that leaves the committed rows alone keeps what is said of them.
LEMMA SameRows ==
  ASSUME SafetyInv, UNCHANGED <<shipment, doc>>
  PROVE  LeavesCreated'
BY DEF SafetyInv, LeavesCreated

LEMMA SameStore ==
  ASSUME SafetyInv, UNCHANGED <<doc, queue>>, objects \subseteq objects'
  PROVE  RowsAreStored'
BY DEF SafetyInv, RowsAreStored

\* The commit of an upload, a correction or an extraction makes its row exist
\* with its bytes stored, touches no other row, and takes the shipment out of
\* CREATED for good.
LEMMA CommitEffect ==
  ASSUME SafetyInv, NEW p \in Procs, Commit(p),
         pc[p] \in {"inserting", "correctCommit", "extractCommit"}
  PROVE  /\ job[p] \in Docs /\ job[p] \in objects
         /\ doc' = [doc EXCEPT ![job[p]] = row[p]]
         /\ row[p].status # "ABSENT"
         /\ shipment' # "CREATED"
         /\ doc' \in [Docs -> DocumentRow]
<1> USE DEF SafetyInv
<1>1. job[p] \in Docs BY DEF TypeOK
<1>2. job[p] \in objects
  BY <1>1 DEF UploadsOwnTheirRow, RowsAreStored
<1>3. row[p].status # "ABSENT"
  BY DEF UploadsOwnTheirRow, PendingWrites, CorrectPCs, Settled
<1>4. shipment' # "CREATED"
  <2>1. CASE write[p] # NoStatus
    BY <2>1 DEF Commit, PendingWrites
  <2>2. CASE write[p] = NoStatus /\ pc[p] = "inserting"
    <3>1. view[p] # "CREATED"
      BY <2>2, NoStatusAssumption DEF UploadsOwnTheirRow, StatusAfterUpload, ShipmentStatus
    <3>2. QED BY <2>2, <3>1 DEF UploadsOwnTheirRow, Commit
  <2>3. CASE write[p] = NoStatus /\ pc[p] # "inserting"
    <3>1. doc[job[p]].status # "ABSENT" BY <2>3 DEF UploadsOwnTheirRow
    <3>2. QED BY <1>1, <2>3, <3>1 DEF LeavesCreated, Commit
  <2> QED BY <2>1, <2>2, <2>3
<1>5. doc' \in [Docs -> DocumentRow] BY CommitType
<1> QED BY <1>1, <1>2, <1>3, <1>4, <1>5 DEF Commit

\* The row locks of a transaction that has ended are free, the others unchanged.
LEMMA ReleasedLocks ==
  ASSUME SafetyInv, NEW p \in Procs, ReleaseLocks(p), UNCHANGED job,
         pc' \in [Procs -> PC],
         pc'[p] \notin HoldsDocument, \A q \in Procs \ {p} : pc'[q] = pc[q]
  PROVE  LocksHeld'
<1>1. p # NoProc OBVIOUS
<1>2. ASSUME NEW d \in Docs, NEW q \in Procs
      PROVE  docLock'[d] = q <=> job'[q] = d /\ pc'[q] \in HoldsDocument
  BY <1>1, <1>2 DEF SafetyInv, LocksHeld, ReleaseLocks, TypeOK
<1>3. ASSUME NEW q \in Procs, shipmentLock' = q PROVE pc'[q] \in HoldsShipment
  BY <1>1, <1>3 DEF SafetyInv, LocksHeld, ReleaseLocks, TypeOK
<1> QED BY <1>2, <1>3 DEF LocksHeld

LEMMA UploadReadSafe ==
  ASSUME SafetyInv, NEW h \in Handlers, NEW d \in Docs, UploadRead(h, d)
  PROVE  SafetyInv'
<1> USE DEF SafetyInv
<1>0. h \in Procs BY DEF Procs
<1>1. TypeOK' BY RequestType DEF Request
<1>2. Roles'
  BY DEF UploadRead, Goto, Roles, TypeOK, Procs, UploadPCs, CorrectPCs, ExtractPCs
<1>3. LocksHeld'
  BY <1>0 DEF UploadRead, Goto, LocksHeld, Roles, TypeOK, locks, HoldsDocument, HoldsShipment
<1>4. UploadsOwnTheirRow'
  BY <1>0 DEF UploadRead, Goto, UploadsOwnTheirRow, Roles, RowsAreStored, TypeOK, db
<1>5. PendingWrites'
  BY <1>0 DEF UploadRead, Goto, PendingWrites, TypeOK, CorrectPCs, ShipmentStatus
<1>6. RowsAreStored'
  BY SameStore DEF UploadRead, db, broker
<1>7. LeavesCreated'
  BY SameRows DEF UploadRead, db
<1> QED BY <1>1, <1>2, <1>3, <1>4, <1>5, <1>6, <1>7

LEMMA CorrectReadSafe ==
  ASSUME SafetyInv, NEW h \in Handlers, NEW d \in Docs, NEW k \in Keys, CorrectRead(h, d, k)
  PROVE  SafetyInv'
<1> USE DEF SafetyInv
<1>0. h \in Procs BY DEF Procs
<1>1. TypeOK' BY RequestType DEF Request
<1>2. Roles'
  BY DEF CorrectRead, Correctable, Goto, Roles, TypeOK, Procs, UploadPCs, CorrectPCs, ExtractPCs
<1>3. LocksHeld'
  BY <1>0 DEF CorrectRead, Correctable, Goto, LocksHeld, Roles, TypeOK, locks, HoldsDocument, HoldsShipment
<1>4. UploadsOwnTheirRow'
  BY <1>0 DEF CorrectRead, Correctable, Goto, UploadsOwnTheirRow, Roles, RowsAreStored, TypeOK, db
<1>5. PendingWrites'
  BY <1>0 DEF CorrectRead, Correctable, Goto, PendingWrites, TypeOK, CorrectPCs, ShipmentStatus
<1>6. RowsAreStored'
  BY SameStore DEF CorrectRead, db, broker
<1>7. LeavesCreated'
  BY SameRows DEF CorrectRead, db
<1> QED BY <1>1, <1>2, <1>3, <1>4, <1>5, <1>6, <1>7

LEMMA UploadStoreSafe ==
  ASSUME SafetyInv, NEW h \in Handlers, UploadStore(h)
  PROVE  SafetyInv'
<1> USE DEF SafetyInv
<1>0. h \in Procs BY DEF Procs
<1>1. TypeOK' BY HandlerType DEF HandlerStep
<1>2. Roles'
  BY DEF UploadStore, StatusAfterUpload, Goto, Roles, TypeOK, Procs, UploadPCs, CorrectPCs, ExtractPCs
<1>3. LocksHeld'
  BY <1>0 DEF UploadStore, StatusAfterUpload, Goto, LocksHeld, Roles, TypeOK, locks, HoldsDocument, HoldsShipment
<1>4. UploadsOwnTheirRow'
  BY <1>0 DEF UploadStore, StatusAfterUpload, Goto, UploadsOwnTheirRow, Roles, RowsAreStored, TypeOK, db
<1>5. PendingWrites'
  BY <1>0 DEF UploadStore, StatusAfterUpload, Goto, PendingWrites, TypeOK, CorrectPCs, ShipmentStatus
<1>6. RowsAreStored'
  BY SameStore DEF UploadStore, db, broker
<1>7. LeavesCreated'
  BY SameRows DEF UploadStore, db
<1> QED BY <1>1, <1>2, <1>3, <1>4, <1>5, <1>6, <1>7

LEMMA UploadCommitSafe ==
  ASSUME SafetyInv, NEW h \in Handlers, UploadCommit(h)
  PROVE  SafetyInv'
<1> USE DEF SafetyInv
<1>0. h \in Procs BY DEF Procs
<1>1. TypeOK' BY HandlerType DEF HandlerStep
<1>2. Commit(h) /\ pc[h] \in {"inserting", "correctCommit", "extractCommit"}
  BY DEF UploadCommit
<1>3. /\ UNCHANGED <<objects, job, row, view, write>>
      /\ \A q \in Procs \ {h} : pc'[q] = pc[q]
      /\ pc'[h] \in {"enqueue"}
  BY <1>0, <1>2, CommitType DEF UploadCommit, Chain, NextTask, Goto, TypeOK
<1>4. UNCHANGED queue BY DEF UploadCommit, Chain, broker
<1>5. Roles'
  BY <1>3 DEF UploadCommit, Roles, Procs, UploadPCs, CorrectPCs, ExtractPCs
<1>6. LocksHeld'
  BY <1>0, <1>1, <1>2, <1>3, ReleasedLocks
     DEF Commit, TypeOK, HoldsDocument, HoldsShipment
<1>7. UploadsOwnTheirRow'
  BY <1>0, <1>2, <1>3, CommitEffect DEF UploadsOwnTheirRow, TypeOK
<1>8. PendingWrites'
  BY <1>3 DEF PendingWrites, CorrectPCs
<1>9. RowsAreStored'
  BY <1>0, <1>2, <1>3, <1>4, CommitEffect DEF RowsAreStored, TypeOK
<1>10. LeavesCreated'
  BY <1>0, <1>2, CommitEffect DEF LeavesCreated, TypeOK
<1> QED BY <1>1, <1>5, <1>6, <1>7, <1>8, <1>9, <1>10

LEMMA UploadEnqueueSafe ==
  ASSUME SafetyInv, NEW h \in Handlers, UploadEnqueue(h)
  PROVE  SafetyInv'
<1> USE DEF SafetyInv
<1>0. h \in Procs BY DEF Procs
<1>1. TypeOK' BY HandlerType DEF HandlerStep
<1>2. Roles'
  BY DEF UploadEnqueue, Finish, Goto, Roles, TypeOK, Procs, UploadPCs, CorrectPCs, ExtractPCs
<1>3. LocksHeld'
  BY <1>0 DEF UploadEnqueue, Finish, Goto, LocksHeld, Roles, TypeOK, locks, HoldsDocument, HoldsShipment
<1>4. UploadsOwnTheirRow'
  BY <1>0 DEF UploadEnqueue, Finish, Goto, UploadsOwnTheirRow, Roles, RowsAreStored, TypeOK, db
<1>5. PendingWrites'
  BY <1>0 DEF UploadEnqueue, Finish, Goto, PendingWrites, TypeOK, CorrectPCs, ShipmentStatus
<1>6. RowsAreStored'
  BY <1>0 DEF UploadEnqueue, Finish, RowsAreStored, UploadsOwnTheirRow, TypeOK, db, broker
<1>7. LeavesCreated'
  BY SameRows DEF UploadEnqueue, db
<1> QED BY <1>1, <1>2, <1>3, <1>4, <1>5, <1>6, <1>7

LEMMA CorrectSiblingsSafe ==
  ASSUME SafetyInv, NEW h \in Handlers, CorrectSiblings(h)
  PROVE  SafetyInv'
<1> USE DEF SafetyInv
<1>0. h \in Procs BY DEF Procs
<1>1. TypeOK' BY HandlerType DEF HandlerStep
<1>2. Roles'
  BY DEF CorrectSiblings, Goto, Roles, TypeOK, Procs, UploadPCs, CorrectPCs, ExtractPCs
<1>3. LocksHeld'
  BY <1>0 DEF CorrectSiblings, Goto, LocksHeld, Roles, TypeOK, locks, HoldsDocument, HoldsShipment
<1>4. UploadsOwnTheirRow'
  BY <1>0 DEF CorrectSiblings, Goto, UploadsOwnTheirRow, Roles, RowsAreStored, TypeOK, db
<1>5. PendingWrites'
  BY <1>0, ComputedStatus DEF CorrectSiblings, Goto, PendingWrites, TypeOK, CorrectPCs, ShipmentStatus
<1>6. RowsAreStored'
  BY SameStore DEF CorrectSiblings, db, broker
<1>7. LeavesCreated'
  BY SameRows DEF CorrectSiblings, db
<1> QED BY <1>1, <1>2, <1>3, <1>4, <1>5, <1>6, <1>7

LEMMA CorrectShipmentSafe ==
  ASSUME SafetyInv, NEW h \in Handlers, CorrectShipment(h)
  PROVE  SafetyInv'
<1> USE DEF SafetyInv
<1>0. h \in Procs BY DEF Procs
<1>1. TypeOK' BY HandlerType DEF HandlerStep
<1>2. Roles'
  BY DEF CorrectShipment, Goto, Roles, TypeOK, Procs, UploadPCs, CorrectPCs, ExtractPCs
<1>3. LocksHeld'
  BY <1>0 DEF CorrectShipment, Goto, LocksHeld, Roles, TypeOK, locks, HoldsDocument, HoldsShipment
<1>4. UploadsOwnTheirRow'
  BY <1>0 DEF CorrectShipment, Goto, UploadsOwnTheirRow, Roles, RowsAreStored, TypeOK, db
<1>5. PendingWrites'
  BY <1>0 DEF CorrectShipment, Goto, PendingWrites, TypeOK, CorrectPCs, ShipmentStatus
<1>6. RowsAreStored'
  BY SameStore DEF CorrectShipment, db, broker
<1>7. LeavesCreated'
  BY SameRows DEF CorrectShipment, db
<1> QED BY <1>1, <1>2, <1>3, <1>4, <1>5, <1>6, <1>7

LEMMA CorrectCommitSafe ==
  ASSUME SafetyInv, NEW h \in Handlers, CorrectCommit(h)
  PROVE  SafetyInv'
<1> USE DEF SafetyInv
<1>0. h \in Procs BY DEF Procs
<1>1. TypeOK' BY HandlerType DEF HandlerStep
<1>2. Commit(h) /\ pc[h] \in {"inserting", "correctCommit", "extractCommit"}
  BY DEF CorrectCommit
<1>3. /\ UNCHANGED <<objects, job, row, view, write>>
      /\ \A q \in Procs \ {h} : pc'[q] = pc[q]
      /\ pc'[h] \in {"sendClassify", "sendCheck"}
  BY <1>0, <1>2, CommitType DEF CorrectCommit, Chain, NextTask, Goto, TypeOK
<1>4. UNCHANGED queue BY DEF CorrectCommit, Chain, broker
<1>5. Roles'
  BY <1>3 DEF CorrectCommit, Roles, Procs, UploadPCs, CorrectPCs, ExtractPCs
<1>6. LocksHeld'
  BY <1>0, <1>1, <1>2, <1>3, ReleasedLocks
     DEF Commit, TypeOK, HoldsDocument, HoldsShipment
<1>7. UploadsOwnTheirRow'
  BY <1>0, <1>2, <1>3, CommitEffect DEF UploadsOwnTheirRow, TypeOK
<1>8. PendingWrites'
  BY <1>3 DEF PendingWrites, CorrectPCs
<1>9. RowsAreStored'
  BY <1>0, <1>2, <1>3, <1>4, CommitEffect DEF RowsAreStored, TypeOK
<1>10. LeavesCreated'
  BY <1>0, <1>2, CommitEffect DEF LeavesCreated, TypeOK
<1> QED BY <1>1, <1>5, <1>6, <1>7, <1>8, <1>9, <1>10

LEMMA TakeSafe ==
  ASSUME SafetyInv, NEW w \in Workers, NEW d \in Docs, Take(w, d)
  PROVE  SafetyInv'
<1> USE DEF SafetyInv
<1>0. w \in Procs BY DEF Procs
<1>1. TypeOK' BY WorkerType DEF WorkerStep
<1>2. Roles'
  BY DEF Take, Acknowledge, Goto, Roles, TypeOK, Procs, UploadPCs, CorrectPCs, ExtractPCs
<1>3. LocksHeld'
  BY <1>0 DEF Take, Acknowledge, Goto, LocksHeld, Roles, TypeOK, locks, HoldsDocument, HoldsShipment
<1>4. UploadsOwnTheirRow'
  BY <1>0 DEF Take, Acknowledge, Goto, UploadsOwnTheirRow, Roles, RowsAreStored, TypeOK, db
<1>5. PendingWrites'
  BY <1>0 DEF Take, Acknowledge, Goto, PendingWrites, TypeOK, CorrectPCs, ShipmentStatus
<1>6. RowsAreStored'
  BY <1>0 DEF Take, Acknowledge, RowsAreStored, UploadsOwnTheirRow, TypeOK, db, broker
<1>7. LeavesCreated'
  BY SameRows DEF Take, db
<1> QED BY <1>1, <1>2, <1>3, <1>4, <1>5, <1>6, <1>7

LEMMA MarkProcessingSafe ==
  ASSUME SafetyInv, NEW w \in Workers, MarkProcessing(w)
  PROVE  SafetyInv'
<1> USE DEF SafetyInv
<1>0. w \in Procs BY DEF Procs
<1>1. TypeOK' BY WorkerType DEF WorkerStep
<1>2. Roles'
  BY DEF MarkProcessing, Goto, Roles, TypeOK, Procs, UploadPCs, CorrectPCs, ExtractPCs
<1>3. LocksHeld'
  BY <1>0 DEF MarkProcessing, Goto, LocksHeld, Roles, TypeOK, locks, HoldsDocument, HoldsShipment
<1>4. UploadsOwnTheirRow'
  BY <1>0 DEF MarkProcessing, Goto, UploadsOwnTheirRow, Roles, RowsAreStored, TypeOK, db
<1>5. PendingWrites'
  BY <1>0, ComputedStatus DEF MarkProcessing, Goto, PendingWrites, TypeOK, CorrectPCs, ShipmentStatus
<1>6. RowsAreStored'
  BY SameStore DEF MarkProcessing, db, broker
<1>7. LeavesCreated'
  BY SameRows DEF MarkProcessing, db
<1> QED BY <1>1, <1>2, <1>3, <1>4, <1>5, <1>6, <1>7

LEMMA FlushProcessingSafe ==
  ASSUME SafetyInv, NEW w \in Workers, FlushProcessing(w)
  PROVE  SafetyInv'
<1> USE DEF SafetyInv
<1>0. w \in Procs BY DEF Procs
<1>1. TypeOK' BY WorkerType DEF WorkerStep
<1>2. Roles'
  BY DEF FlushProcessing, Goto, Roles, TypeOK, Procs, UploadPCs, CorrectPCs, ExtractPCs
<1>3. LocksHeld'
  BY <1>0 DEF FlushProcessing, Goto, LocksHeld, Roles, TypeOK, locks, HoldsDocument, HoldsShipment
<1>4. UploadsOwnTheirRow'
  BY <1>0 DEF FlushProcessing, Goto, UploadsOwnTheirRow, Roles, RowsAreStored, TypeOK, db
<1>5. PendingWrites'
  BY <1>0 DEF FlushProcessing, Goto, PendingWrites, TypeOK, CorrectPCs, ShipmentStatus
<1>6. RowsAreStored'
  BY SameStore DEF FlushProcessing, db, broker
<1>7. LeavesCreated'
  BY SameRows DEF FlushProcessing, db
<1> QED BY <1>1, <1>2, <1>3, <1>4, <1>5, <1>6, <1>7

LEMMA ExtractFieldsSafe ==
  ASSUME SafetyInv, NEW w \in Workers, ExtractFields(w)
  PROVE  SafetyInv'
<1> USE DEF SafetyInv
<1>0. w \in Procs BY DEF Procs
<1>1. TypeOK' BY WorkerType DEF WorkerStep
<1>2. Roles'
  BY DEF ExtractFields, Goto, Roles, TypeOK, Procs, UploadPCs, CorrectPCs, ExtractPCs
<1>3. LocksHeld'
  BY <1>0 DEF ExtractFields, Goto, LocksHeld, Roles, TypeOK, locks, HoldsDocument, HoldsShipment
<1>4. UploadsOwnTheirRow'
  BY <1>0 DEF ExtractFields, Goto, UploadsOwnTheirRow, Roles, RowsAreStored, TypeOK, db
<1>5. PendingWrites'
  BY <1>0 DEF ExtractFields, Goto, PendingWrites, TypeOK, CorrectPCs, ShipmentStatus
<1>6. RowsAreStored'
  BY SameStore DEF ExtractFields, db, broker
<1>7. LeavesCreated'
  BY SameRows DEF ExtractFields, db
<1> QED BY <1>1, <1>2, <1>3, <1>4, <1>5, <1>6, <1>7

LEMMA RecomputeSiblingsSafe ==
  ASSUME SafetyInv, NEW w \in Workers, RecomputeSiblings(w)
  PROVE  SafetyInv'
<1> USE DEF SafetyInv
<1>0. w \in Procs BY DEF Procs
<1>1. TypeOK' BY WorkerType DEF WorkerStep
<1>2. Roles'
  BY DEF RecomputeSiblings, Goto, Roles, TypeOK, Procs, UploadPCs, CorrectPCs, ExtractPCs
<1>3. LocksHeld'
  BY <1>0 DEF RecomputeSiblings, Goto, LocksHeld, Roles, TypeOK, locks, HoldsDocument, HoldsShipment
<1>4. UploadsOwnTheirRow'
  BY <1>0 DEF RecomputeSiblings, Goto, UploadsOwnTheirRow, Roles, RowsAreStored, TypeOK, db
<1>5. PendingWrites'
  BY <1>0, ComputedStatus DEF RecomputeSiblings, Goto, PendingWrites, TypeOK, CorrectPCs, ShipmentStatus
<1>6. RowsAreStored'
  BY SameStore DEF RecomputeSiblings, db, broker
<1>7. LeavesCreated'
  BY SameRows DEF RecomputeSiblings, db
<1> QED BY <1>1, <1>2, <1>3, <1>4, <1>5, <1>6, <1>7

LEMMA RecomputeShipmentSafe ==
  ASSUME SafetyInv, NEW w \in Workers, RecomputeShipment(w)
  PROVE  SafetyInv'
<1> USE DEF SafetyInv
<1>0. w \in Procs BY DEF Procs
<1>1. TypeOK' BY WorkerType DEF WorkerStep
<1>2. Roles'
  BY DEF RecomputeShipment, Goto, Roles, TypeOK, Procs, UploadPCs, CorrectPCs, ExtractPCs
<1>3. LocksHeld'
  BY <1>0 DEF RecomputeShipment, Goto, LocksHeld, Roles, TypeOK, locks, HoldsDocument, HoldsShipment
<1>4. UploadsOwnTheirRow'
  BY <1>0 DEF RecomputeShipment, Goto, UploadsOwnTheirRow, Roles, RowsAreStored, TypeOK, db
<1>5. PendingWrites'
  BY <1>0 DEF RecomputeShipment, Goto, PendingWrites, TypeOK, CorrectPCs, ShipmentStatus
<1>6. RowsAreStored'
  BY SameStore DEF RecomputeShipment, db, broker
<1>7. LeavesCreated'
  BY SameRows DEF RecomputeShipment, db
<1> QED BY <1>1, <1>2, <1>3, <1>4, <1>5, <1>6, <1>7

LEMMA ExtractCommitSafe ==
  ASSUME SafetyInv, NEW w \in Workers, ExtractCommit(w)
  PROVE  SafetyInv'
<1> USE DEF SafetyInv
<1>0. w \in Procs BY DEF Procs
<1>1. TypeOK' BY WorkerType DEF WorkerStep
<1>2. Commit(w) /\ pc[w] \in {"inserting", "correctCommit", "extractCommit"}
  BY DEF ExtractCommit
<1>3. /\ UNCHANGED <<objects, job, row, view, write>>
      /\ \A q \in Procs \ {w} : pc'[q] = pc[q]
      /\ pc'[w] \in {"sendClassify", "sendCheck"}
  BY <1>0, <1>2, CommitType DEF ExtractCommit, Chain, NextTask, Goto, TypeOK
<1>4. UNCHANGED queue BY DEF ExtractCommit, Chain, broker
<1>5. Roles'
  BY <1>3 DEF ExtractCommit, Roles, Procs, UploadPCs, CorrectPCs, ExtractPCs
<1>6. LocksHeld'
  BY <1>0, <1>1, <1>2, <1>3, ReleasedLocks
     DEF Commit, TypeOK, HoldsDocument, HoldsShipment
<1>7. UploadsOwnTheirRow'
  BY <1>0, <1>2, <1>3, CommitEffect DEF UploadsOwnTheirRow, TypeOK
<1>8. PendingWrites'
  BY <1>3 DEF PendingWrites, CorrectPCs
<1>9. RowsAreStored'
  BY <1>0, <1>2, <1>3, <1>4, CommitEffect DEF RowsAreStored, TypeOK
<1>10. LeavesCreated'
  BY <1>0, <1>2, CommitEffect DEF LeavesCreated, TypeOK
<1> QED BY <1>1, <1>5, <1>6, <1>7, <1>8, <1>9, <1>10

LEMMA SendClassifySafe ==
  ASSUME SafetyInv, NEW p \in Procs, SendClassify(p)
  PROVE  SafetyInv'
<1> USE DEF SafetyInv
<1>1. TypeOK' BY SendType
<1>2. Roles'
  BY DEF SendClassify, Goto, Roles, TypeOK, Procs, UploadPCs, CorrectPCs, ExtractPCs
<1>3. LocksHeld'
  BY DEF SendClassify, Goto, LocksHeld, Roles, TypeOK, locks, HoldsDocument, HoldsShipment
<1>4. UploadsOwnTheirRow'
  BY DEF SendClassify, Goto, UploadsOwnTheirRow, Roles, RowsAreStored, TypeOK, db
<1>5. PendingWrites'
  BY DEF SendClassify, Goto, PendingWrites, TypeOK, CorrectPCs, ShipmentStatus
<1>6. RowsAreStored'
  BY SameStore DEF SendClassify, db, broker
<1>7. LeavesCreated'
  BY SameRows DEF SendClassify, db
<1> QED BY <1>1, <1>2, <1>3, <1>4, <1>5, <1>6, <1>7

LEMMA SendCheckSafe ==
  ASSUME SafetyInv, NEW p \in Procs, SendCheck(p)
  PROVE  SafetyInv'
<1> USE DEF SafetyInv
<1>1. TypeOK' BY SendType
<1>2. Roles'
  BY DEF SendCheck, Finish, Goto, Roles, TypeOK, Procs, UploadPCs, CorrectPCs, ExtractPCs
<1>3. LocksHeld'
  BY DEF SendCheck, Finish, Goto, LocksHeld, Roles, TypeOK, locks, HoldsDocument, HoldsShipment
<1>4. UploadsOwnTheirRow'
  BY DEF SendCheck, Finish, Goto, UploadsOwnTheirRow, Roles, RowsAreStored, TypeOK, db
<1>5. PendingWrites'
  BY DEF SendCheck, Finish, Goto, PendingWrites, TypeOK, CorrectPCs, ShipmentStatus
<1>6. RowsAreStored'
  BY SameStore DEF SendCheck, db, broker
<1>7. LeavesCreated'
  BY SameRows DEF SendCheck, db
<1> QED BY <1>1, <1>2, <1>3, <1>4, <1>5, <1>6, <1>7

LEMMA FailSafe ==
  ASSUME SafetyInv, NEW p \in Procs, Fail(p)
  PROVE  SafetyInv'
<1> USE DEF SafetyInv
<1>1. TypeOK' BY FailType
<1>2. Roles'
  BY DEF Fail, Finish, ReleaseLocks, Goto, Roles, TypeOK, Procs, UploadPCs, CorrectPCs, ExtractPCs
<1>3. LocksHeld'
  BY DEF Fail, Finish, ReleaseLocks, Goto, LocksHeld, Roles, TypeOK, locks, HoldsDocument, HoldsShipment
<1>4. UploadsOwnTheirRow'
  BY DEF Fail, Finish, ReleaseLocks, Goto, UploadsOwnTheirRow, Roles, RowsAreStored, TypeOK, db
<1>5. PendingWrites'
  BY DEF Fail, Finish, ReleaseLocks, Goto, PendingWrites, TypeOK, CorrectPCs, ShipmentStatus
<1>6. RowsAreStored'
  BY SameStore DEF Fail, db, broker
<1>7. LeavesCreated'
  BY SameRows DEF Fail, db
<1> QED BY <1>1, <1>2, <1>3, <1>4, <1>5, <1>6, <1>7

LEMMA RedeliverSafe ==
  ASSUME SafetyInv, NEW d \in Docs, Redeliver(d)
  PROVE  SafetyInv'
<1> USE DEF SafetyInv
<1>1. TypeOK' BY RedeliverType
<1>2. Roles' /\ LocksHeld' /\ UploadsOwnTheirRow' /\ PendingWrites' /\ LeavesCreated'
  BY DEF Redeliver, db, locks, local, Roles, LocksHeld, UploadsOwnTheirRow,
         PendingWrites, LeavesCreated
<1>3. RowsAreStored'
  BY DEF Redeliver, RowsAreStored, TypeOK, db
<1> QED BY <1>1, <1>2, <1>3

LEMMA NextSafe == SafetyInv /\ [Next]_vars => SafetyInv'
<1> SUFFICES ASSUME SafetyInv, [Next]_vars PROVE SafetyInv'
  OBVIOUS
<1>1. CASE UNCHANGED vars
  <2>1. TypeOK' BY <1>1, NextType DEF SafetyInv
  <2>2. QED BY <1>1, <2>1
     DEF SafetyInv, vars, db, locks, broker, local, Roles, LocksHeld,
         UploadsOwnTheirRow, PendingWrites, RowsAreStored, LeavesCreated
<1>2. ASSUME NEW h \in Handlers, Request(h) PROVE SafetyInv'
  BY <1>2, UploadReadSafe, CorrectReadSafe DEF Request
<1>3. ASSUME NEW h \in Handlers, HandlerStep(h) PROVE SafetyInv'
  BY <1>3, UploadStoreSafe, UploadCommitSafe, UploadEnqueueSafe, CorrectSiblingsSafe,
     CorrectShipmentSafe, CorrectCommitSafe, SendClassifySafe, SendCheckSafe
     DEF HandlerStep, Procs
<1>4. ASSUME NEW w \in Workers, WorkerStep(w) PROVE SafetyInv'
  BY <1>4, TakeSafe, MarkProcessingSafe, FlushProcessingSafe, ExtractFieldsSafe,
     RecomputeSiblingsSafe, RecomputeShipmentSafe, ExtractCommitSafe,
     SendClassifySafe, SendCheckSafe
     DEF WorkerStep, Procs
<1>5. CASE Next
  BY <1>2, <1>3, <1>4, <1>5, FailSafe, RedeliverSafe DEF Next
<1> QED BY <1>1, <1>5

LEMMA SafetyInvariant == Spec => []SafetyInv
BY InitSafe, NextSafe, PTL DEF Spec

\* What has been extracted stays extracted, and only that is corrected.
LEMMA SettledStays ==
  ASSUME SafetyInv, [Next]_vars, NEW d \in Docs, doc[d].status \in Settled
  PROVE  doc'[d].status \in Settled
<1> USE DEF SafetyInv
<1>1. CASE UNCHANGED doc BY <1>1
<1>2. ASSUME NEW p \in Procs, doc' = [doc EXCEPT ![job[p]] = row[p]],
             row[p].status \in Settled \/ doc[job[p]].status = "ABSENT"
      PROVE  doc'[d].status \in Settled
  BY <1>2 DEF TypeOK, Settled
<1>3. ASSUME NEW h \in Handlers, UploadCommit(h) PROVE doc'[d].status \in Settled
  BY <1>2, <1>3 DEF UploadCommit, Commit, UploadsOwnTheirRow, Procs
<1>4. ASSUME NEW p \in Procs, Commit(p), pc[p] \in {"correctCommit", "extractCommit"}
      PROVE  doc'[d].status \in Settled
  BY <1>2, <1>4 DEF Commit, PendingWrites, CorrectPCs, Settled
<1>5. ASSUME NEW h \in Handlers, Request(h) \/ HandlerStep(h)
      PROVE  UNCHANGED doc \/ UploadCommit(h) \/ CorrectCommit(h)
  BY <1>5 DEF Request, UploadRead, CorrectRead, HandlerStep, UploadStore, UploadEnqueue,
              CorrectSiblings, CorrectShipment, SendClassify, SendCheck, db
<1>6. ASSUME NEW w \in Workers, WorkerStep(w) PROVE UNCHANGED doc \/ ExtractCommit(w)
  BY <1>6 DEF WorkerStep, Take, MarkProcessing, FlushProcessing, ExtractFields, RecomputeSiblings,
              RecomputeShipment, SendClassify, SendCheck, db
<1>7. CASE Next
  BY <1>1, <1>3, <1>4, <1>5, <1>6, <1>7 DEF Next, Fail, Redeliver, CorrectCommit, ExtractCommit, db, Procs
<1> QED BY <1>1, <1>7 DEF vars, db

CorrectingSettled == \A p \in Procs : pc[p] \in CorrectPCs => doc[job[p]].status \in Settled

LEMMA NextCorrecting == SafetyInv /\ CorrectingSettled /\ [Next]_vars => CorrectingSettled'
<1> SUFFICES ASSUME SafetyInv, CorrectingSettled, [Next]_vars PROVE CorrectingSettled'
  OBVIOUS
<1> DEFINE Continues(p) == pc'[p] \in CorrectPCs => pc[p] \in CorrectPCs /\ job'[p] = job[p]
           Starts(p) == job'[p] \in Docs /\ doc[job'[p]].status \in Settled
<1>1. SUFFICES ASSUME NEW p \in Procs PROVE Continues(p) \/ Starts(p)
  <2>1. \A p \in Procs : pc[p] \in CorrectPCs => job[p] \in Docs
    BY DEF SafetyInv, TypeOK, CorrectPCs
  <2> QED BY <1>1, <2>1, SettledStays DEF CorrectingSettled
<1> USE DEF SafetyInv
<1>2. CASE UNCHANGED vars BY <1>2 DEF vars, local
<1>3. ASSUME NEW h \in Handlers, Request(h) PROVE Continues(p) \/ Starts(p)
  <2>0. h \in Procs BY DEF Procs
  <2>1. CASE \E d \in Docs : UploadRead(h, d)
    BY <2>0, <2>1 DEF UploadRead, Goto, TypeOK, CorrectPCs
  <2>2. ASSUME NEW d \in Docs, NEW k \in Keys, CorrectRead(h, d, k) PROVE Continues(p) \/ Starts(p)
    BY <2>0, <2>2 DEF CorrectRead, Correctable, Goto, TypeOK, CorrectPCs, Settled
  <2> QED BY <1>3, <2>1, <2>2 DEF Request
<1>4. ASSUME NEW q \in Procs, SendClassify(q) \/ SendCheck(q) \/ Fail(q) PROVE Continues(p)
  BY <1>4 DEF SendClassify, SendCheck, Fail, Finish, Goto, TypeOK, CorrectPCs
<1>5. ASSUME NEW h \in Handlers, HandlerStep(h) PROVE Continues(p)
  <2>0. h \in Procs BY DEF Procs
  <2>1. CASE UploadStore(h) \/ UploadEnqueue(h) \/ CorrectSiblings(h) \/ CorrectShipment(h)
    BY <2>0, <2>1 DEF UploadStore, UploadEnqueue, CorrectSiblings, CorrectShipment, Finish, Goto,
                      TypeOK, CorrectPCs
  <2>2. CASE UploadCommit(h) \/ CorrectCommit(h)
    BY <2>0, <2>2 DEF UploadCommit, CorrectCommit, Commit, Chain, NextTask, Goto, TypeOK, CorrectPCs
  <2> QED BY <1>4, <1>5, <2>0, <2>1, <2>2 DEF HandlerStep
<1>6. ASSUME NEW w \in Workers, WorkerStep(w) PROVE Continues(p)
  <2>0. w \in Procs BY DEF Procs
  <2>1. CASE (\E d \in Docs : Take(w, d)) \/ MarkProcessing(w) \/ FlushProcessing(w) \/ ExtractFields(w)
    BY <2>0, <2>1 DEF Take, MarkProcessing, FlushProcessing, ExtractFields, Goto, TypeOK, CorrectPCs
  <2>2. CASE RecomputeSiblings(w) \/ RecomputeShipment(w) \/ ExtractCommit(w)
    BY <2>0, <2>2 DEF RecomputeSiblings, RecomputeShipment, ExtractCommit, Commit, Chain, NextTask,
                      Goto, TypeOK, CorrectPCs
  <2> QED BY <1>4, <1>6, <2>0, <2>1, <2>2 DEF WorkerStep
<1>7. CASE Next
  BY <1>3, <1>4, <1>5, <1>6, <1>7 DEF Next, Redeliver, local
<1> QED BY <1>2, <1>7

LEMMA CorrectingInvariant == Spec => []CorrectingSettled
<1>1. Init => CorrectingSettled BY DEF Init, CorrectingSettled, CorrectPCs
<1> QED BY <1>1, NextCorrecting, SafetyInvariant, PTL DEF Spec

\* Row locks are always taken document first, shipment last, so transactions
\* never wait for each other in a cycle.
THEOREM LockOrderHolds == Spec => []LockOrder
<1>1. SafetyInv => LockOrder
  <2> SUFFICES ASSUME SafetyInv PROVE LockOrder
    OBVIOUS
  <2> USE DEF SafetyInv
  <2>1. ASSUME shipmentLock # NoProc, NEW q \in Procs \ {shipmentLock}
        PROVE  ~WaitsForDocument(shipmentLock, q) /\ ~WaitsForShipment(shipmentLock, q)
    BY <2>1 DEF LocksHeld, HoldsShipment, TypeOK, WaitsForDocument, WaitsForShipment
  <2>2. ASSUME NEW d \in Docs, docLock[d] # NoProc
        PROVE  /\ job[docLock[d]] = d
               /\ \A q \in Procs : ~WaitsForDocument(docLock[d], q)
    <3>1. docLock[d] \in Procs BY <2>2 DEF TypeOK
    <3>2. job[docLock[d]] = d /\ pc[docLock[d]] \in HoldsDocument
      BY <3>1 DEF LocksHeld
    <3>3. QED BY <3>2 DEF HoldsDocument, HoldsShipment, WaitsForDocument
  <2> QED BY <2>1, <2>2 DEF LockOrder
<1>2. QED BY <1>1, SafetyInvariant, PTL

\* No worker ever dequeues a document whose row is not committed or whose bytes
\* are not stored, whatever crashes, rolls back or is delivered twice.
THEOREM TaskFindsDocumentHolds == Spec => []TaskFindsDocument
<1>1. SafetyInv => TaskFindsDocument
  <2> SUFFICES ASSUME SafetyInv, NEW d \in Docs,
                      queue[d] > 0 \/ \E w \in Workers : job[w] = d
               PROVE  doc[d].status # "ABSENT" /\ d \in objects
    BY DEF TaskFindsDocument
  <2> USE DEF SafetyInv
  <2>1. CASE queue[d] > 0
    BY <2>1 DEF RowsAreStored
  <2>2. ASSUME NEW w \in Workers, job[w] = d PROVE doc[d].status # "ABSENT"
    <3>1. w \in Procs BY DEF Procs
    <3>2. pc[w] \notin {"idle", "storing", "inserting"}
      BY <2>2, <3>1 DEF Roles, UploadPCs
    <3>3. QED BY <2>2, <3>1, <3>2 DEF UploadsOwnTheirRow
  <2> QED BY <2>1, <2>2 DEF RowsAreStored
<1>2. QED BY <1>1, SafetyInvariant, PTL

\* The shipment is CREATED exactly while it has no document.
THEOREM LeavesCreatedHolds == Spec => []LeavesCreated
<1>1. SafetyInv => LeavesCreated BY DEF SafetyInv
<1>2. QED BY <1>1, SafetyInvariant, PTL
=============================================================================
