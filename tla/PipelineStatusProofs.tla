------------------------ MODULE PipelineStatusProofs ------------------------
(***************************************************************************)
(* Proofs about the work DocumentPipeline owes its documents and the       *)
(* status it derives from them, for any workers and requests: no document  *)
(* is forgotten; the status agrees with the documents at rest, unless the  *)
(* last transaction to settle one had missed another; and the shipment is  *)
(* in DOCUMENTS_UPLOADING only while a document is to be extracted.        *)
(***************************************************************************)
EXTENDS DocumentPipelineProofs, PipelineHistory

-----------------------------------------------------------------------------
(* No work is lost.                                                        *)

\* A process with document d has reached one of the steps in labels.
Carrier(d, labels) == \E p \in Procs : job[p] = d /\ pc[p] \in labels

ExtractionDue(d) ==
  doc[d].status = "QUEUED" => queue[d] > 0 \/ Carrier(d, ExtractPCs \cup {"enqueue"})

CheckDue(d) ==
  doc[d].status \in Settled => d \in checkSent \/ Carrier(d, {"sendClassify", "sendCheck"})

ClassificationDue(d) ==
  doc[d].status \in Settled /\ d \in Invoices =>
    d \in classifySent \/ Carrier(d, {"sendClassify"})

\* What NoWorkLost leaves open is who carries a document, and how far.
WorkInv ==
  failures = 0 => \A d \in Docs : ExtractionDue(d) /\ CheckDue(d) /\ ClassificationDue(d)

\* A step of one process leaves the documents of the others carried.
LEMMA CarrierKept ==
  ASSUME NEW p \in Procs, \A q \in Procs \ {p} : job'[q] = job[q] /\ pc'[q] = pc[q],
         NEW d, NEW labels, Carrier(d, labels),
         job[p] = d /\ pc[p] \in labels => job'[p] = d /\ pc'[p] \in labels
  PROVE  Carrier(d, labels)'
BY DEF Carrier

\* A step that is no commit, sends nothing and takes nothing, ...
LEMMA QuietWork ==
  ASSUME WorkInv, UNCHANGED <<doc, queue, classifySent, checkSent, failures>>,
         NEW p \in Procs, \A q \in Procs \ {p} : job'[q] = job[q] /\ pc'[q] = pc[q],
         job'[p] = job[p] \/ pc[p] = "idle",
         pc[p] \in ExtractPCs \cup {"enqueue"} => pc'[p] \in ExtractPCs,
         pc[p] \notin {"sendClassify", "sendCheck"}
  PROVE  WorkInv'
<1>1. SUFFICES ASSUME failures = 0, NEW d \in Docs
      PROVE (ExtractionDue(d) /\ CheckDue(d) /\ ClassificationDue(d))'
  BY DEF WorkInv
<1>2. ExtractionDue(d) /\ CheckDue(d) /\ ClassificationDue(d) BY <1>1 DEF WorkInv
<1>3. ExtractionDue(d)'
  <2>1. Carrier(d, ExtractPCs \cup {"enqueue"}) => Carrier(d, ExtractPCs \cup {"enqueue"})'
    BY CarrierKept DEF ExtractPCs
  <2> QED BY <1>2, <2>1 DEF ExtractionDue
<1>4. CheckDue(d)'
  <2>1. Carrier(d, {"sendClassify", "sendCheck"}) => Carrier(d, {"sendClassify", "sendCheck"})'
    BY CarrierKept
  <2> QED BY <1>2, <2>1 DEF CheckDue
<1>5. ClassificationDue(d)'
  <2>1. Carrier(d, {"sendClassify"}) => Carrier(d, {"sendClassify"})' BY CarrierKept
  <2> QED BY <1>2, <2>1 DEF ClassificationDue
<1> QED BY <1>3, <1>4, <1>5

\* ... a commit that settles a document, ...
LEMMA SettlingWork ==
  ASSUME SafetyInv, WorkInv, NEW p \in Procs, Commit(p), Chain(p), UNCHANGED failures,
         pc[p] \in {"correctCommit", "extractCommit"}
  PROVE  WorkInv'
<1> USE DEF SafetyInv
<1>1. /\ job[p] \in Docs /\ doc \in [Docs -> DocumentRow] /\ pc \in [Procs -> PC]
      /\ doc' = [doc EXCEPT ![job[p]] = row[p]] /\ job' = job /\ queue' = queue
      /\ row[p].status \in Settled
  BY CommitEffect DEF Commit, Chain, TypeOK, PendingWrites, CorrectPCs, Settled
<1>2. /\ classifySent' = classifySent \ {job[p]} /\ checkSent' = checkSent \ {job[p]}
      /\ pc' = [pc EXCEPT ![p] = NextTask(job[p])]
  BY DEF Chain, Goto
<1>3. SUFFICES ASSUME failures = 0, NEW d \in Docs
      PROVE (ExtractionDue(d) /\ CheckDue(d) /\ ClassificationDue(d))'
  BY DEF WorkInv
<1>4. ExtractionDue(d) /\ CheckDue(d) /\ ClassificationDue(d) BY <1>3 DEF WorkInv
<1>5. CASE d = job[p]
  <2>1. doc'[d].status \in Settled /\ doc'[d].status # "QUEUED" BY <1>1, <1>5 DEF Settled
  <2>2. job'[p] = d /\ pc'[p] \in {"sendClassify", "sendCheck"}
        /\ (d \in Invoices => pc'[p] = "sendClassify")
    BY <1>1, <1>2, <1>5 DEF NextTask
  <2> QED BY <2>1, <2>2 DEF ExtractionDue, CheckDue, ClassificationDue, Carrier
<1>6. CASE d # job[p]
  <2>1. /\ doc'[d] = doc[d] /\ (d \in checkSent' <=> d \in checkSent)
        /\ (d \in classifySent' <=> d \in classifySent)
    BY <1>1, <1>2, <1>6
  <2>2. \A q \in Procs \ {p} : job'[q] = job[q] /\ pc'[q] = pc[q] BY <1>1, <1>2
  <2>3. /\ Carrier(d, ExtractPCs \cup {"enqueue"}) => Carrier(d, ExtractPCs \cup {"enqueue"})'
        /\ Carrier(d, {"sendClassify", "sendCheck"}) => Carrier(d, {"sendClassify", "sendCheck"})'
        /\ Carrier(d, {"sendClassify"}) => Carrier(d, {"sendClassify"})'
    BY <1>6, <2>2, CarrierKept
  <2> QED BY <1>1, <1>4, <2>1, <2>3 DEF ExtractionDue, CheckDue, ClassificationDue
<1> QED BY <1>5, <1>6

\* ... and each step that hands a document on.
LEMMA UploadCommitWork ==
  ASSUME SafetyInv, WorkInv, NEW h \in Handlers, UploadCommit(h)
  PROVE  WorkInv'
<1> USE DEF SafetyInv
<1>0. h \in Procs BY DEF Procs
<1>1. /\ job[h] \in Docs /\ doc \in [Docs -> DocumentRow] /\ pc \in [Procs -> PC]
      /\ doc' = [doc EXCEPT ![job[h]] = row[h]] /\ row[h].status = "QUEUED"
      /\ pc[h] = "inserting" /\ pc' = [pc EXCEPT ![h] = "enqueue"] /\ job' = job
      /\ UNCHANGED <<queue, classifySent, checkSent, failures>>
  BY <1>0, CommitEffect DEF UploadCommit, Commit, Goto, broker, faults, TypeOK, UploadsOwnTheirRow
<1>2. SUFFICES ASSUME failures = 0, NEW d \in Docs
      PROVE (ExtractionDue(d) /\ CheckDue(d) /\ ClassificationDue(d))'
  BY <1>1 DEF WorkInv
<1>3. ExtractionDue(d) /\ CheckDue(d) /\ ClassificationDue(d) BY <1>2 DEF WorkInv
<1>4. CASE d = job[h]
  <2>1. doc'[d].status = "QUEUED" /\ job'[h] = d /\ pc'[h] = "enqueue" BY <1>0, <1>1, <1>4
  <2> QED BY <1>0, <2>1 DEF ExtractionDue, CheckDue, ClassificationDue, Carrier, Settled
<1>5. CASE d # job[h]
  <2>1. doc'[d] = doc[d] BY <1>1, <1>5
  <2>2. \A q \in Procs \ {h} : job'[q] = job[q] /\ pc'[q] = pc[q] BY <1>1
  <2>3. /\ Carrier(d, ExtractPCs \cup {"enqueue"}) => Carrier(d, ExtractPCs \cup {"enqueue"})'
        /\ Carrier(d, {"sendClassify", "sendCheck"}) => Carrier(d, {"sendClassify", "sendCheck"})'
        /\ Carrier(d, {"sendClassify"}) => Carrier(d, {"sendClassify"})'
    BY <1>0, <1>5, <2>2, CarrierKept
  <2> QED BY <1>1, <1>3, <2>1, <2>3 DEF ExtractionDue, CheckDue, ClassificationDue
<1> QED BY <1>4, <1>5

LEMMA UploadEnqueueWork ==
  ASSUME SafetyInv, WorkInv, NEW h \in Handlers, UploadEnqueue(h)
  PROVE  WorkInv'
<1> USE DEF SafetyInv
<1>0. h \in Procs BY DEF Procs
<1>1. /\ job[h] \in Docs /\ queue \in [Docs -> Nat]
      /\ queue' = [queue EXCEPT ![job[h]] = @ + 1] /\ pc[h] = "enqueue"
      /\ UNCHANGED <<doc, classifySent, checkSent, failures>>
      /\ \A q \in Procs \ {h} : job'[q] = job[q] /\ pc'[q] = pc[q]
  BY <1>0 DEF UploadEnqueue, Finish, Goto, TypeOK, db, faults
<1>2. SUFFICES ASSUME failures = 0, NEW d \in Docs
      PROVE (ExtractionDue(d) /\ CheckDue(d) /\ ClassificationDue(d))'
  BY <1>1 DEF WorkInv
<1>3. ExtractionDue(d) /\ CheckDue(d) /\ ClassificationDue(d) BY <1>2 DEF WorkInv
<1>4. queue'[d] >= queue[d] /\ (d = job[h] => queue'[d] > 0) BY <1>1
<1>5. d # job[h] /\ Carrier(d, ExtractPCs \cup {"enqueue"}) => Carrier(d, ExtractPCs \cup {"enqueue"})'
  BY <1>0, <1>1, CarrierKept
<1>6. /\ Carrier(d, {"sendClassify", "sendCheck"}) => Carrier(d, {"sendClassify", "sendCheck"})'
      /\ Carrier(d, {"sendClassify"}) => Carrier(d, {"sendClassify"})'
  BY <1>0, <1>1, CarrierKept
<1> QED BY <1>1, <1>3, <1>4, <1>5, <1>6 DEF ExtractionDue, CheckDue, ClassificationDue

LEMMA TakeWork ==
  ASSUME SafetyInv, WorkInv, NEW w \in Workers, NEW e \in Docs, Take(w, e)
  PROVE  WorkInv'
<1> USE DEF SafetyInv
<1>0. w \in Procs BY DEF Procs
<1>1. doc[e].status # "ABSENT" BY DEF Take, RowsAreStored
<1>2. /\ queue \in [Docs -> Nat] /\ queue' = [queue EXCEPT ![e] = @ - 1] /\ pc[w] = "idle"
      /\ UNCHANGED <<doc, classifySent, checkSent, failures>>
      /\ job'[w] = e /\ pc'[w] = "fetched"
      /\ \A q \in Procs \ {w} : job'[q] = job[q] /\ pc'[q] = pc[q]
  BY <1>0, <1>1 DEF Take, Acknowledge, Goto, TypeOK, db, faults
<1>3. SUFFICES ASSUME failures = 0, NEW d \in Docs
      PROVE (ExtractionDue(d) /\ CheckDue(d) /\ ClassificationDue(d))'
  BY <1>2 DEF WorkInv
<1>4. ExtractionDue(d) /\ CheckDue(d) /\ ClassificationDue(d) BY <1>3 DEF WorkInv
<1>5. ExtractionDue(d)'
  <2>1. CASE d = e BY <1>0, <1>2, <2>1 DEF ExtractionDue, Carrier, ExtractPCs
  <2>2. CASE d # e
    <3>1. Carrier(d, ExtractPCs \cup {"enqueue"}) => Carrier(d, ExtractPCs \cup {"enqueue"})'
      BY <1>0, <1>2, CarrierKept DEF ExtractPCs
    <3> QED BY <1>2, <1>4, <2>2, <3>1 DEF ExtractionDue
  <2> QED BY <2>1, <2>2
<1>6. /\ Carrier(d, {"sendClassify", "sendCheck"}) => Carrier(d, {"sendClassify", "sendCheck"})'
      /\ Carrier(d, {"sendClassify"}) => Carrier(d, {"sendClassify"})'
  BY <1>0, <1>2, CarrierKept
<1> QED BY <1>2, <1>4, <1>5, <1>6 DEF CheckDue, ClassificationDue

LEMMA SendWork ==
  ASSUME SafetyInv, WorkInv, NEW p \in Procs, SendClassify(p) \/ SendCheck(p)
  PROVE  WorkInv'
<1> USE DEF SafetyInv
<1>1. /\ job[p] \in Docs /\ pc[p] \in {"sendClassify", "sendCheck"}
      /\ UNCHANGED <<doc, queue, failures>>
      /\ classifySent \subseteq classifySent' /\ checkSent \subseteq checkSent'
      /\ pc[p] = "sendClassify" => job[p] \in classifySent' /\ job'[p] = job[p] /\ pc'[p] = "sendCheck"
      /\ pc[p] = "sendCheck" => job[p] \in checkSent'
      /\ \A q \in Procs \ {p} : job'[q] = job[q] /\ pc'[q] = pc[q]
  BY DEF SendClassify, SendCheck, Finish, Goto, TypeOK, db, faults
<1>2. SUFFICES ASSUME failures = 0, NEW d \in Docs
      PROVE (ExtractionDue(d) /\ CheckDue(d) /\ ClassificationDue(d))'
  BY <1>1 DEF WorkInv
<1>3. ExtractionDue(d) /\ CheckDue(d) /\ ClassificationDue(d) BY <1>2 DEF WorkInv
<1>4. ExtractionDue(d)'
  <2>1. Carrier(d, ExtractPCs \cup {"enqueue"}) => Carrier(d, ExtractPCs \cup {"enqueue"})'
    BY <1>1, CarrierKept DEF ExtractPCs
  <2> QED BY <1>1, <1>3, <2>1 DEF ExtractionDue
<1>5. CheckDue(d)'
  <2>1. CASE d \in checkSent' BY <2>1 DEF CheckDue
  <2>2. CASE d \notin checkSent'
    <3>1. Carrier(d, {"sendClassify", "sendCheck"}) => Carrier(d, {"sendClassify", "sendCheck"})'
      BY <1>1, <2>2, CarrierKept
    <3> QED BY <1>1, <1>3, <2>2, <3>1 DEF CheckDue
  <2> QED BY <2>1, <2>2
<1>6. ClassificationDue(d)'
  <2>1. CASE d \in classifySent' BY <2>1 DEF ClassificationDue
  <2>2. CASE d \notin classifySent'
    <3>1. Carrier(d, {"sendClassify"}) => Carrier(d, {"sendClassify"})'
      BY <1>1, <2>2, CarrierKept
    <3> QED BY <1>1, <1>3, <2>2, <3>1 DEF ClassificationDue
  <2> QED BY <2>1, <2>2
<1> QED BY <1>4, <1>5, <1>6

LEMMA RedeliverWork ==
  ASSUME SafetyInv, WorkInv, NEW e \in Docs, Redeliver(e)
  PROVE  WorkInv'
<1>1. \A d \in Docs : queue'[d] >= queue[d] BY DEF SafetyInv, TypeOK, Redeliver
<1>2. \A d, labels : Carrier(d, labels) => Carrier(d, labels)' BY DEF Redeliver, local, Carrier
<1>3. UNCHANGED <<doc, classifySent, checkSent, failures>> BY DEF Redeliver, db
<1>4. SUFFICES ASSUME failures = 0, NEW d \in Docs
      PROVE (ExtractionDue(d) /\ CheckDue(d) /\ ClassificationDue(d))'
  BY <1>3 DEF WorkInv
<1>5. queue[d] \in Nat /\ queue'[d] \in Nat BY DEF SafetyInv, TypeOK, Redeliver
<1> QED BY <1>1, <1>2, <1>3, <1>4, <1>5 DEF WorkInv, ExtractionDue, CheckDue, ClassificationDue

LEMMA NextWork == SafetyInv /\ WorkInv /\ [Next]_vars => WorkInv'
<1> SUFFICES ASSUME SafetyInv, WorkInv, [Next]_vars PROVE WorkInv'
  OBVIOUS
<1> USE DEF SafetyInv
<1>1. CASE UNCHANGED vars
  BY <1>1 DEF vars, db, broker, local, faults, WorkInv, ExtractionDue, CheckDue, ClassificationDue, Carrier
<1>2. ASSUME NEW h \in Handlers, Request(h) PROVE WorkInv'
  <2>0. h \in Procs BY DEF Procs
  <2>1. /\ UNCHANGED <<doc, queue, classifySent, checkSent, failures>> /\ pc[h] = "idle"
        /\ \A q \in Procs \ {h} : job'[q] = job[q] /\ pc'[q] = pc[q]
    BY <1>2, <2>0 DEF Request, UploadRead, CorrectRead, Goto, TypeOK, db, broker, faults
  <2> QED BY <2>0, <2>1, QuietWork DEF ExtractPCs
<1>3. ASSUME NEW h \in Handlers, HandlerStep(h) PROVE WorkInv'
  <2>0. h \in Procs BY DEF Procs
  <2>1. CASE UploadStore(h) \/ CorrectSiblings(h) \/ CorrectShipment(h)
    <3>1. /\ UNCHANGED <<doc, queue, classifySent, checkSent, failures, job>>
          /\ pc[h] \in {"storing", "correcting", "correctShipment"}
          /\ \A q \in Procs \ {h} : pc'[q] = pc[q]
      BY <2>0, <2>1 DEF UploadStore, CorrectSiblings, CorrectShipment, Goto, TypeOK, db, broker, faults
    <3> QED BY <2>0, <3>1, QuietWork DEF ExtractPCs
  <2>2. CASE CorrectCommit(h) BY <2>0, <2>2, SettlingWork DEF CorrectCommit, faults
  <2> QED BY <1>3, <2>0, <2>1, <2>2, UploadCommitWork, UploadEnqueueWork, SendWork DEF HandlerStep
<1>4. ASSUME NEW w \in Workers, WorkerStep(w) PROVE WorkInv'
  <2>0. w \in Procs BY DEF Procs
  <2>1. CASE MarkProcessing(w) \/ FlushProcessing(w) \/ ExtractFields(w)
             \/ RecomputeSiblings(w) \/ RecomputeShipment(w)
    <3>1. /\ UNCHANGED <<doc, queue, classifySent, checkSent, failures, job>>
          /\ pc[w] \in ExtractPCs /\ pc'[w] \in ExtractPCs
          /\ \A q \in Procs \ {w} : pc'[q] = pc[q]
      BY <2>0, <2>1 DEF MarkProcessing, FlushProcessing, ExtractFields, RecomputeSiblings,
                        RecomputeShipment, Goto, TypeOK, ExtractPCs, db, broker, faults
    <3> QED BY <2>0, <3>1, QuietWork DEF ExtractPCs
  <2>2. CASE ExtractCommit(w) BY <2>0, <2>2, SettlingWork DEF ExtractCommit, faults
  <2> QED BY <1>4, <2>0, <2>1, <2>2, TakeWork, SendWork DEF WorkerStep
<1>5. ASSUME NEW p \in Procs, Fail(p) PROVE WorkInv'
  BY <1>5 DEF Fail, WorkInv, TypeOK
<1>6. CASE Next
  BY <1>2, <1>3, <1>4, <1>5, <1>6, RedeliverWork DEF Next
<1> QED BY <1>1, <1>6

LEMMA WorkInvariant == Spec => []WorkInv
<1>1. Init => WorkInv
  <2> SUFFICES ASSUME Init PROVE WorkInv OBVIOUS
  <2>1. \A d \in Docs : doc[d].status = "ABSENT" BY DEF Init, AbsentRow
  <2> QED BY <2>1 DEF WorkInv, ExtractionDue, CheckDue, ClassificationDue, Settled
<1> QED BY <1>1, NextWork, SafetyInvariant, PTL DEF Spec

\* As long as no process fails, every document is on its way to be extracted, or its last
\* settling commit was followed by the messages it owes.
THEOREM NoWorkIsLost == Spec => []NoWorkLost
<1>1. SafetyInv /\ WorkInv => NoWorkLost
  <2> SUFFICES ASSUME SafetyInv, WorkInv, failures = 0, NEW d \in Docs, ~Carried(d)
      PROVE  /\ doc[d].status \notin InProgress
             /\ doc[d].status \in Settled => d \in checkSent /\ (d \in Invoices => d \in classifySent)
    BY DEF NoWorkLost
  <2>1. ExtractionDue(d) /\ CheckDue(d) /\ ClassificationDue(d) BY DEF WorkInv
  <2>2. \A labels : ~Carrier(d, labels) BY DEF Carried, Carrier
  <2>3. doc[d].status \in DocumentStatus BY DEF SafetyInv, TypeOK, DocumentRow
  <2> QED BY <2>1, <2>2, <2>3
          DEF Carried, ExtractionDue, CheckDue, ClassificationDue, DocumentStatus, InProgress
<1> QED BY <1>1, WorkInvariant, SafetyInvariant, PTL

-----------------------------------------------------------------------------
(* The status at rest.                                                     *)

Queued(d) == doc[d].status = "QUEUED"

Statuses == [d \in Docs |-> doc[d].status]

Agrees == (\E d \in Docs : Queued(d)) \/ shipment = "CREATED" \/ shipment = ComputeShipmentStatus(Statuses)

OtherQueued(p) == \E d \in Docs \ {job[p]} : Queued(d)

Computed(p) == ComputeShipmentStatus(StatusesSeenBy(p, row[p].status))

\* What p has computed is what the documents will give once it commits, unless another has
\* been queued since, whose extraction computes the status again.
StatusOf(p) ==
  pc[p] \in Recomputing =>
    /\ OtherQueued(p) \/ view[p] = Computed(p)
    /\ pc[p] \in {"correctCommit", "extractCommit"} =>
         OtherQueued(p) \/ write[p] = view[p] \/ (write[p] = NoStatus /\ view[p] = shipment)

StatusInv ==
  /\ ~stale => Agrees
  /\ \A p \in Procs \ blind : StatusOf(p)

\* A computed status is one that code assigns.
LEMMA ComputedOfPresent ==
  ASSUME NEW status, NEW d \in Docs, status[d] # "ABSENT"
  PROVE  ComputeShipmentStatus(status) \in {"EXTRACTING", "NEEDS_MANUAL_REVIEW"}
BY DEF ComputeShipmentStatus

\* Nothing changes for a process whose variables, and whose database, stay as they are.
LEMMA SameStatus ==
  ASSUME UNCHANGED <<shipment, doc>>, NEW p, pc'[p] = pc[p], job'[p] = job[p], row'[p] = row[p],
         view'[p] = view[p], write'[p] = write[p]
  PROVE  StatusOf(p)' <=> StatusOf(p)
<1>1. OtherQueued(p)' <=> OtherQueued(p) BY DEF OtherQueued, Queued
<1>2. StatusesSeenBy(p, row[p].status)' = StatusesSeenBy(p, row[p].status) BY DEF StatusesSeenBy
<1>3. Computed(p)' = Computed(p) BY <1>2 DEF Computed, ComputeShipmentStatus
<1> QED BY <1>1, <1>3 DEF StatusOf

\* A step of p alone that commits nothing.
LEMMA QuietStatus ==
  ASSUME StatusInv, Record, UNCHANGED <<shipment, doc>>, NEW p \in Procs, ~Settles(p),
         \A q \in Procs \ {p} : /\ job'[q] = job[q] /\ pc'[q] = pc[q] /\ row'[q] = row[q]
                                /\ view'[q] = view[q] /\ write'[q] = write[q],
         p \notin blind' => StatusOf(p)'
  PROVE  StatusInv'
<1>1. \A q \in Procs : ~Settles(q) BY DEF Settles
<1>2. ~stale' => ~stale BY <1>1, Zenon DEF Record
<1>3. Agrees' <=> Agrees BY DEF Agrees, Queued, Statuses
<1>4. ASSUME NEW q \in Procs \ {p}, q \notin blind' PROVE StatusOf(q)'
  <2>1. CASE pc[q] \in Recomputing
    <3>1. q \notin blind BY <1>4, <2>1 DEF Record
    <3> QED BY <3>1, SameStatus DEF StatusInv
  <2>2. CASE pc[q] \notin Recomputing BY <2>2 DEF StatusOf
  <2> QED BY <2>1, <2>2
<1> QED BY <1>2, <1>3, <1>4 DEF StatusInv

\* The commit of a document that is queued: whoever has computed a status works on another.
LEMMA UploadCommitStatus ==
  ASSUME SafetyInv, StatusInv, Record, NEW h \in Handlers, UploadCommit(h)
  PROVE  StatusInv'
<1> USE DEF SafetyInv
<1>0. h \in Procs BY DEF Procs
<1>1. /\ job[h] \in Docs /\ doc \in [Docs -> DocumentRow] /\ pc \in [Procs -> PC]
      /\ doc' = [doc EXCEPT ![job[h]] = row[h]] /\ row[h].status = "QUEUED"
      /\ pc[h] = "inserting" /\ pc' = [pc EXCEPT ![h] = "enqueue"]
      /\ UNCHANGED <<job, row, view, write>>
  BY <1>0, CommitEffect DEF UploadCommit, Commit, Goto, TypeOK, UploadsOwnTheirRow
<1>2. Queued(job[h])' BY <1>1 DEF Queued
<1>3. \A p \in Procs : pc'[p] \in Recomputing => job'[p] # job[h]
  BY <1>0, <1>1 DEF UploadsOwnTheirRow, Recomputing
<1>4. \A p \in Procs : StatusOf(p)' BY <1>1, <1>2, <1>3 DEF StatusOf, OtherQueued
<1>5. Agrees' BY <1>1, <1>2 DEF Agrees
<1> QED BY <1>4, <1>5 DEF StatusInv

\* A commit that settles a document makes everybody else blind who has computed a status; by
\* a process that was not, it leaves the status that agrees.
LEMMA SettlingStatus ==
  ASSUME SafetyInv, StatusInv, Record, NEW p \in Procs, Commit(p), Chain(p),
         pc[p] \in {"correctCommit", "extractCommit"}
  PROVE  StatusInv'
<1> USE DEF SafetyInv
<1>1. /\ pc \in [Procs -> PC] /\ job[p] \in Docs /\ doc \in [Docs -> DocumentRow]
      /\ pc' = [pc EXCEPT ![p] = NextTask(job[p])]
      /\ doc' = [doc EXCEPT ![job[p]] = row[p]] /\ row[p].status # "ABSENT"
      /\ shipment' = IF write[p] = NoStatus THEN shipment ELSE write[p]
  BY CommitEffect DEF Chain, Commit, Goto, TypeOK
<1>2. pc'[p] \in {"sendClassify", "sendCheck"} BY <1>1 DEF NextTask
<1>3. Settles(p) BY <1>2 DEF Settles
<1>4. \A q \in Procs : pc'[q] \in Recomputing => q \in blind'
  BY <1>2, <1>3 DEF Record, Recomputing
<1>5. ASSUME p \notin blind PROVE Agrees'
  <2>1. CASE OtherQueued(p)
    BY <1>1, <2>1 DEF OtherQueued, Queued, Agrees
  <2>2. CASE ~OtherQueued(p)
    <3>1. view[p] = Computed(p) /\ (write[p] = view[p] \/ (write[p] = NoStatus /\ view[p] = shipment))
      BY <1>5, <2>2 DEF StatusInv, StatusOf, Recomputing
    <3>2. view[p] \in {"EXTRACTING", "NEEDS_MANUAL_REVIEW"}
      <4>1. StatusesSeenBy(p, row[p].status)[job[p]] # "ABSENT" BY <1>1 DEF StatusesSeenBy
      <4> QED BY <1>1, <3>1, <4>1, ComputedOfPresent DEF Computed
    <3>3. shipment' = view[p]
      <4>1. view[p] # NoStatus BY <3>2, NoStatusAssumption DEF ShipmentStatus
      <4> QED BY <1>1, <3>1, <4>1
    <3>4. Statuses' = StatusesSeenBy(p, row[p].status) BY <1>1 DEF Statuses, StatusesSeenBy
    <3>5. shipment' = ComputeShipmentStatus(Statuses)'
      BY <3>1, <3>3, <3>4 DEF Computed, ComputeShipmentStatus
    <3> QED BY <3>5 DEF Agrees
  <2> QED BY <2>1, <2>2
<1>6. ~stale' => p \notin blind BY <1>3 DEF Record
<1>7. \A q \in Procs \ blind' : StatusOf(q)' BY <1>4 DEF StatusOf
<1> QED BY <1>5, <1>6, <1>7 DEF StatusInv

\* The two SELECTs of a transaction that computes a status.
LEMMA SiblingsStatus ==
  ASSUME SafetyInv, StatusInv, Record, NEW p \in Procs, UNCHANGED <<shipment, doc, job, row, write>>,
         NEW label \in {"correctShipment", "recomputeShipment"}, pc' = [pc EXCEPT ![p] = label],
         view' = [view EXCEPT ![p] = Computed(p)]
  PROVE  StatusInv'
<1>1. pc \in [Procs -> PC] /\ view \in [Procs -> ShipmentStatus \cup {NoStatus}]
  BY DEF SafetyInv, TypeOK
<1>2. ~Settles(p) BY <1>1 DEF Settles
<1>3. StatusesSeenBy(p, row[p].status)' = StatusesSeenBy(p, row[p].status) BY DEF StatusesSeenBy
<1>4. Computed(p)' = Computed(p) BY <1>3 DEF Computed, ComputeShipmentStatus
<1>5. StatusOf(p)' BY <1>1, <1>4 DEF StatusOf
<1> QED BY <1>1, <1>2, <1>5, QuietStatus

LEMMA ShipmentReadStatus ==
  ASSUME SafetyInv, StatusInv, Record, NEW p \in Procs, UNCHANGED <<shipment, doc, job, row, view>>,
         pc[p] \in {"correctShipment", "recomputeShipment"},
         NEW label \in {"correctCommit", "extractCommit"}, pc' = [pc EXCEPT ![p] = label],
         \A q \in Procs \ {p} : write'[q] = write[q],
         write'[p] = view[p] \/ (write'[p] = NoStatus /\ view[p] = shipment)
  PROVE  StatusInv'
<1>1. pc \in [Procs -> PC] BY DEF SafetyInv, TypeOK
<1>2. ~Settles(p) BY DEF Settles
<1>3. StatusesSeenBy(p, row[p].status)' = StatusesSeenBy(p, row[p].status) BY DEF StatusesSeenBy
<1>4. Computed(p)' = Computed(p) BY <1>3 DEF Computed, ComputeShipmentStatus
<1>5. OtherQueued(p)' <=> OtherQueued(p) BY DEF OtherQueued, Queued
<1>6. ASSUME p \notin blind' PROVE StatusOf(p)'
  <2>1. p \notin blind BY <1>1, <1>6 DEF Record, Recomputing
  <2>2. OtherQueued(p) \/ view[p] = Computed(p) BY <2>1 DEF StatusInv, StatusOf, Recomputing
  <2> QED BY <1>4, <1>5, <2>2 DEF StatusOf
<1> QED BY <1>1, <1>2, <1>6, QuietStatus

LEMMA NextStatus == SafetyInv /\ StatusInv /\ [HNext]_<<vars, history>> => StatusInv'
<1> SUFFICES ASSUME SafetyInv, StatusInv, [HNext]_<<vars, history>> PROVE StatusInv'
  OBVIOUS
<1> USE DEF SafetyInv
<1>1. CASE UNCHANGED <<vars, history>>
  <2>1. UNCHANGED <<shipment, doc, pc, job, row, view, write, stale, blind>>
    BY <1>1 DEF vars, db, local, history
  <2>2. Agrees' <=> Agrees BY <2>1 DEF Agrees, Queued, Statuses
  <2>3. ASSUME NEW p \in Procs \ blind PROVE StatusOf(p)' BY <2>1, SameStatus DEF StatusInv
  <2> QED BY <2>1, <2>2, <2>3 DEF StatusInv
<1>2. ASSUME Record, NEW p \in Procs, UNCHANGED <<shipment, doc>>, pc'[p] \notin Recomputing,
             pc[p] \notin {"correctCommit", "extractCommit"} \/ pc'[p] = "idle",
             \A q \in Procs \ {p} : /\ job'[q] = job[q] /\ pc'[q] = pc[q] /\ row'[q] = row[q]
                                    /\ view'[q] = view[q] /\ write'[q] = write[q]
      PROVE  StatusInv'
  <2>1. ~Settles(p) /\ StatusOf(p)' BY <1>2 DEF Settles, StatusOf
  <2> QED BY <1>2, <2>1, QuietStatus
<1>3. ASSUME Record, NEW h \in Handlers, Request(h) PROVE StatusInv'
  <2>0. h \in Procs BY DEF Procs
  <2>1. /\ UNCHANGED <<shipment, doc>> /\ pc'[h] \notin Recomputing /\ pc[h] = "idle"
        /\ \A q \in Procs \ {h} : /\ job'[q] = job[q] /\ pc'[q] = pc[q] /\ row'[q] = row[q]
                                  /\ view'[q] = view[q] /\ write'[q] = write[q]
    BY <1>3, <2>0 DEF Request, UploadRead, CorrectRead, Goto, TypeOK, db, Recomputing
  <2> QED BY <1>2, <1>3, <2>0, <2>1
<1>4. ASSUME Record, NEW p \in Procs, SendClassify(p) \/ SendCheck(p) \/ Fail(p) PROVE StatusInv'
  <2>1. /\ UNCHANGED <<shipment, doc>> /\ pc'[p] \notin Recomputing
        /\ pc[p] \notin {"correctCommit", "extractCommit"} \/ pc'[p] = "idle"
        /\ \A q \in Procs \ {p} : /\ job'[q] = job[q] /\ pc'[q] = pc[q] /\ row'[q] = row[q]
                                  /\ view'[q] = view[q] /\ write'[q] = write[q]
    BY <1>4 DEF SendClassify, SendCheck, Fail, Finish, Goto, TypeOK, db, Recomputing
  <2> QED BY <1>2, <1>4, <2>1
<1>5. ASSUME Record, NEW h \in Handlers, HandlerStep(h) PROVE StatusInv'
  <2>0. h \in Procs BY DEF Procs
  <2>1. CASE UploadStore(h) \/ UploadEnqueue(h)
    <3>1. /\ UNCHANGED <<shipment, doc>> /\ pc'[h] \notin Recomputing
          /\ pc[h] \in {"storing", "enqueue"}
          /\ \A q \in Procs \ {h} : /\ job'[q] = job[q] /\ pc'[q] = pc[q] /\ row'[q] = row[q]
                                    /\ view'[q] = view[q] /\ write'[q] = write[q]
      BY <2>0, <2>1 DEF UploadStore, UploadEnqueue, Finish, Goto, TypeOK, db, Recomputing
    <3> QED BY <1>2, <1>5, <2>0, <3>1
  <2>2. CASE CorrectSiblings(h)
    <3>1. /\ UNCHANGED <<shipment, doc, job, row, write>>
          /\ pc' = [pc EXCEPT ![h] = "correctShipment"] /\ row[h].status = "EXTRACTED"
          /\ view' = [view EXCEPT ![h] = ComputeShipmentStatus(StatusesSeenBy(h, "EXTRACTED"))]
      BY <2>0, <2>2 DEF CorrectSiblings, Goto, db, PendingWrites, CorrectPCs
    <3>2. view' = [view EXCEPT ![h] = Computed(h)] BY <3>1 DEF Computed
    <3> QED BY <1>5, <2>0, <3>1, <3>2, SiblingsStatus
  <2>3. CASE CorrectShipment(h)
    <3>1. /\ UNCHANGED <<shipment, doc, job, row, view>> /\ pc[h] = "correctShipment"
          /\ pc' = [pc EXCEPT ![h] = "correctCommit"]
          /\ \A q \in Procs \ {h} : write'[q] = write[q]
          /\ write'[h] = view[h] \/ (write'[h] = NoStatus /\ view[h] = shipment)
      BY <2>0, <2>3 DEF CorrectShipment, Goto, TypeOK, db
    <3> QED BY <1>5, <2>0, <3>1, ShipmentReadStatus
  <2>4. CASE CorrectCommit(h) BY <1>5, <2>0, <2>4, SettlingStatus DEF CorrectCommit
  <2>5. CASE UploadCommit(h) BY <1>5, <2>5, UploadCommitStatus
  <2> QED BY <1>4, <1>5, <2>0, <2>1, <2>2, <2>3, <2>4, <2>5 DEF HandlerStep
<1>6. ASSUME Record, NEW w \in Workers, WorkerStep(w) PROVE StatusInv'
  <2>0. w \in Procs BY DEF Procs
  <2>1. CASE (\E d \in Docs : Take(w, d)) \/ MarkProcessing(w) \/ FlushProcessing(w) \/ ExtractFields(w)
    <3>1. /\ UNCHANGED <<shipment, doc>>
          /\ \A q \in Procs \ {w} : /\ job'[q] = job[q] /\ pc'[q] = pc[q] /\ row'[q] = row[q]
                                    /\ view'[q] = view[q] /\ write'[q] = write[q]
      BY <2>0, <2>1 DEF Take, MarkProcessing, FlushProcessing, ExtractFields, Goto, TypeOK, db
    <3>2. /\ pc[w] \in {"idle", "fetched", "flushProcessing", "extracting"}
          /\ pc'[w] \in {"idle", "fetched", "flushProcessing", "extracting", "recompute"}
      BY <2>0, <2>1 DEF Take, MarkProcessing, FlushProcessing, ExtractFields, Goto, TypeOK
    <3> QED BY <1>2, <1>6, <2>0, <3>1, <3>2 DEF Recomputing
  <2>2. CASE RecomputeSiblings(w)
    <3>1. /\ UNCHANGED <<shipment, doc, job, row, write>>
          /\ pc' = [pc EXCEPT ![w] = "recomputeShipment"] /\ view' = [view EXCEPT ![w] = Computed(w)]
      BY <2>2 DEF RecomputeSiblings, Goto, db, Computed
    <3> QED BY <1>6, <2>0, <3>1, SiblingsStatus
  <2>3. CASE RecomputeShipment(w)
    <3>1. /\ UNCHANGED <<shipment, doc, job, row, view>> /\ pc[w] = "recomputeShipment"
          /\ pc' = [pc EXCEPT ![w] = "extractCommit"]
          /\ \A q \in Procs \ {w} : write'[q] = write[q]
          /\ write'[w] = view[w] \/ (write'[w] = NoStatus /\ view[w] = shipment)
      BY <2>0, <2>3 DEF RecomputeShipment, Goto, TypeOK, db
    <3> QED BY <1>6, <2>0, <3>1, ShipmentReadStatus
  <2>4. CASE ExtractCommit(w) BY <1>6, <2>0, <2>4, SettlingStatus DEF ExtractCommit
  <2> QED BY <1>4, <1>6, <2>0, <2>1, <2>2, <2>3, <2>4 DEF WorkerStep
<1>7. ASSUME Record, NEW d \in Docs, Redeliver(d) PROVE StatusInv'
  <2>1. UNCHANGED <<shipment, doc, pc, job, row, view, write>> BY <1>7 DEF Redeliver, db, local
  <2>2. \A p \in Procs : ~Settles(p) BY <2>1 DEF Settles
  <2>3. ~stale' => ~stale BY <1>7, <2>2, Zenon DEF Record
  <2>4. \A p \in Procs \ blind' : pc[p] \in Recomputing => p \notin blind
    BY <1>7, <2>1 DEF Record
  <2>5. Agrees' <=> Agrees BY <2>1 DEF Agrees, Queued, Statuses
  <2>6. ASSUME NEW p \in Procs \ blind' PROVE StatusOf(p)'
    <3>1. StatusOf(p)' <=> StatusOf(p) BY <2>1, SameStatus
    <3> QED BY <2>4, <3>1 DEF StatusInv, StatusOf
  <2> QED BY <2>3, <2>5, <2>6 DEF StatusInv
<1>8. CASE HNext
  BY <1>3, <1>4, <1>5, <1>6, <1>7, <1>8 DEF HNext, Next
<1> QED BY <1>1, <1>8

\* A behaviour with its history is one of the pipeline.
LEMMA HistoryOfSpec == HSpec => Spec
<1>1. HInit => Init BY DEF HInit
<1>2. [HNext]_<<vars, history>> => [Next]_vars BY DEF HNext
<1> QED BY <1>1, <1>2, PTL DEF HSpec, Spec

\* As long as no process fails, the shipment ends with the status derived from its documents,
\* however many uploads, corrections and extractions interleave and whatever the broker
\* delivers twice, unless the last of them to settle a document was blind.
THEOREM StatusAlwaysAgreesUnlessBlind == HSpec => []StatusAgreesUnlessBlind
<1>1. HInit => StatusInv
  BY DEF HInit, Init, StatusInv, StatusOf, Agrees, Recomputing
<1>2. SafetyInv /\ StatusInv /\ [HNext]_<<vars, history>> => StatusInv' BY NextStatus
<1>3. SafetyInv /\ WorkInv /\ StatusInv => StatusAgreesUnlessBlind
  <2> SUFFICES ASSUME SafetyInv, WorkInv, StatusInv, ~stale, AtRest, failures = 0
      PROVE  shipment = "CREATED" \/ shipment = ComputeShipmentStatus(Statuses)
    BY DEF StatusAgreesUnlessBlind, StatusAgreesAtRest, Statuses
  <2>1. ASSUME NEW d \in Docs PROVE ~Queued(d)
    <3>1. queue[d] = 0 BY DEF AtRest
    <3>2. ~Carrier(d, ExtractPCs \cup {"enqueue"}) BY DEF AtRest, Carrier, ExtractPCs
    <3> QED BY <3>1, <3>2 DEF WorkInv, ExtractionDue, Queued
  <2> QED BY <2>1 DEF StatusInv, Agrees
<1> QED BY <1>1, <1>2, <1>3, HistoryOfSpec, WorkInvariant, SafetyInvariant, PTL DEF HSpec

-----------------------------------------------------------------------------
(* DOCUMENTS_UPLOADING.                                                    *)

\* Whatever settles d also writes the shipment.
Moving(d) ==
  /\ doc[d].status = "QUEUED"
  /\ \A p \in Procs : job[p] = d /\ pc[p] = "extractCommit" => write[p] # NoStatus

\* Only an upload writes DOCUMENTS_UPLOADING; what is corrected is never queued again.
UploadingOf(p) ==
  /\ pc[p] \in CorrectPCs => doc[job[p]].status \in Settled
  /\ pc[p] \in {"correctShipment", "recomputeShipment"} => view[p] \in {"EXTRACTING", "NEEDS_MANUAL_REVIEW"}
  /\ write[p] = "DOCUMENTS_UPLOADING" => pc[p] \in {"inserting", "enqueue"}

UploadingInv ==
  /\ \A p \in Procs : UploadingOf(p)
  /\ shipment = "DOCUMENTS_UPLOADING" => \E d \in Docs : Moving(d)

\* A step of p alone that commits nothing.
LEMMA QuietUploading ==
  ASSUME UploadingInv, UNCHANGED <<shipment, doc>>, NEW p \in Procs, UploadingOf(p)',
         \A q \in Procs \ {p} : job'[q] = job[q] /\ pc'[q] = pc[q] /\ view'[q] = view[q] /\ write'[q] = write[q],
         pc'[p] = "extractCommit" => shipment # "DOCUMENTS_UPLOADING" \/ write'[p] # NoStatus
  PROVE  UploadingInv'
<1>1. \A q \in Procs \ {p} : UploadingOf(q)' BY DEF UploadingInv, UploadingOf
<1>2. ASSUME NEW d \in Docs, Moving(d), shipment = "DOCUMENTS_UPLOADING" PROVE Moving(d)'
  BY <1>2 DEF Moving
<1> QED BY <1>1, <1>2 DEF UploadingInv

\* An upload's commit queues a document that nobody else works on.
LEMMA UploadCommitUploading ==
  ASSUME SafetyInv, UploadingInv, NEW h \in Handlers, UploadCommit(h)
  PROVE  UploadingInv'
<1> USE DEF SafetyInv
<1>0. h \in Procs BY DEF Procs
<1>1. /\ job[h] \in Docs /\ doc \in [Docs -> DocumentRow] /\ pc \in [Procs -> PC]
      /\ doc' = [doc EXCEPT ![job[h]] = row[h]] /\ row[h].status = "QUEUED"
      /\ doc[job[h]].status = "ABSENT" /\ \A q \in Procs \ {h} : job[q] # job[h]
      /\ pc[h] = "inserting" /\ pc' = [pc EXCEPT ![h] = "enqueue"]
      /\ UNCHANGED <<job, row, view, write>>
  BY <1>0, CommitEffect DEF UploadCommit, Commit, Goto, TypeOK, UploadsOwnTheirRow
<1>2. ASSUME NEW p \in Procs PROVE UploadingOf(p)'
  <2>1. CASE p = h BY <1>1, <2>1 DEF UploadingInv, UploadingOf, CorrectPCs
  <2>2. CASE p # h
    <3>1. pc[p] \in CorrectPCs => job[p] \in Docs \ {job[h]} BY <1>1, <2>2 DEF TypeOK, CorrectPCs
    <3> QED BY <1>1, <2>2, <3>1 DEF UploadingInv, UploadingOf
  <2> QED BY <2>1, <2>2
<1>3. Moving(job[h])' BY <1>0, <1>1 DEF Moving
<1> QED BY <1>1, <1>2, <1>3 DEF UploadingInv

\* The commit that settles a document moves the shipment on, if that was the one.
LEMMA SettlingUploading ==
  ASSUME SafetyInv, UploadingInv, NEW p \in Procs, Commit(p), Chain(p),
         pc[p] \in {"correctCommit", "extractCommit"}
  PROVE  UploadingInv'
<1> USE DEF SafetyInv
<1>1. /\ pc \in [Procs -> PC] /\ job[p] \in Docs /\ doc \in [Docs -> DocumentRow]
      /\ pc' = [pc EXCEPT ![p] = NextTask(job[p])] /\ UNCHANGED <<job, row, view, write>>
      /\ doc' = [doc EXCEPT ![job[p]] = row[p]] /\ row[p].status \in Settled
      /\ shipment' = IF write[p] = NoStatus THEN shipment ELSE write[p]
  BY CommitEffect DEF Chain, Commit, Goto, TypeOK, PendingWrites, CorrectPCs, Settled
<1>2. pc'[p] \in {"sendClassify", "sendCheck"} BY <1>1 DEF NextTask
<1>3. write[p] # "DOCUMENTS_UPLOADING" BY DEF UploadingInv, UploadingOf
<1>4. ASSUME NEW q \in Procs PROVE UploadingOf(q)'
  <2>1. CASE q = p BY <1>1, <1>2, <1>3, <2>1 DEF UploadingOf, CorrectPCs
  <2>2. CASE q # p
    <3>1. pc[q] \in CorrectPCs => job[q] \in Docs BY DEF TypeOK, CorrectPCs
    <3> QED BY <1>1, <2>2, <3>1 DEF UploadingInv, UploadingOf
  <2> QED BY <2>1, <2>2
<1>5. ASSUME shipment' = "DOCUMENTS_UPLOADING" PROVE \E d \in Docs : Moving(d)'
  <2>1. shipment = "DOCUMENTS_UPLOADING" /\ write[p] = NoStatus BY <1>1, <1>3, <1>5
  <2>2. PICK d \in Docs : Moving(d) BY <2>1 DEF UploadingInv
  <2>3. d # job[p]
    <3>1. CASE pc[p] = "extractCommit" BY <2>1, <2>2, <3>1 DEF Moving
    <3>2. CASE pc[p] = "correctCommit"
      BY <2>2, <3>2 DEF Moving, UploadingInv, UploadingOf, CorrectPCs, Settled
    <3> QED BY <3>1, <3>2
  <2>4. Moving(d)' BY <1>1, <1>2, <2>2, <2>3 DEF Moving
  <2> QED BY <2>4
<1> QED BY <1>4, <1>5 DEF UploadingInv

LEMMA NextUploading == SafetyInv /\ UploadingInv /\ [Next]_vars => UploadingInv'
<1> SUFFICES ASSUME SafetyInv, UploadingInv, [Next]_vars PROVE UploadingInv'
  OBVIOUS
<1> USE DEF SafetyInv
<1>1. CASE UNCHANGED vars
  BY <1>1 DEF vars, db, local, UploadingInv, UploadingOf, Moving
<1>2. ASSUME NEW h \in Handlers, Request(h) PROVE UploadingInv'
  <2>0. h \in Procs BY DEF Procs
  <2>1. /\ UNCHANGED <<shipment, doc, write>> /\ pc[h] = "idle" /\ pc'[h] \in {"storing", "correcting"}
        /\ pc'[h] = "correcting" => doc[job'[h]].status \in Settled
        /\ \A q \in Procs \ {h} : job'[q] = job[q] /\ pc'[q] = pc[q] /\ view'[q] = view[q]
    BY <1>2, <2>0 DEF Request, UploadRead, CorrectRead, Correctable, Settled, Goto, TypeOK, db
  <2>2. UploadingOf(h)' BY <2>0, <2>1 DEF UploadingInv, UploadingOf, CorrectPCs
  <2> QED BY <2>0, <2>1, <2>2, QuietUploading
<1>3. ASSUME NEW p \in Procs, SendClassify(p) \/ SendCheck(p) \/ Fail(p) PROVE UploadingInv'
  <2>1. /\ UNCHANGED <<shipment, doc>> /\ pc'[p] \in {"idle", "sendCheck"}
        /\ write'[p] = write[p] \/ write'[p] = NoStatus
        /\ pc'[p] = "sendCheck" => pc[p] = "sendClassify"
        /\ pc'[p] = "idle" => write'[p] = NoStatus
        /\ \A q \in Procs \ {p} :
             job'[q] = job[q] /\ pc'[q] = pc[q] /\ view'[q] = view[q] /\ write'[q] = write[q]
    BY <1>3 DEF SendClassify, SendCheck, Fail, Finish, Goto, TypeOK, db
  <2>2. UploadingOf(p)'
    BY <2>1, NoStatusAssumption DEF UploadingInv, UploadingOf, CorrectPCs, ShipmentStatus
  <2> QED BY <2>1, <2>2, QuietUploading
<1>4. ASSUME NEW h \in Handlers, HandlerStep(h) PROVE UploadingInv'
  <2>0. h \in Procs BY DEF Procs
  <2>1. CASE UploadStore(h) \/ UploadEnqueue(h)
    <3>1. /\ UNCHANGED <<shipment, doc>> /\ pc'[h] \in {"inserting", "idle"}
          /\ pc'[h] = "idle" => write'[h] = NoStatus
          /\ \A q \in Procs \ {h} :
               job'[q] = job[q] /\ pc'[q] = pc[q] /\ view'[q] = view[q] /\ write'[q] = write[q]
      BY <2>0, <2>1 DEF UploadStore, UploadEnqueue, Finish, Goto, TypeOK, db
    <3>2. UploadingOf(h)' BY <3>1, NoStatusAssumption DEF UploadingOf, CorrectPCs, ShipmentStatus
    <3> QED BY <2>0, <3>1, <3>2, QuietUploading
  <2>2. CASE CorrectSiblings(h)
    <3>1. /\ UNCHANGED <<shipment, doc, job, write>> /\ pc[h] = "correcting" /\ pc'[h] = "correctShipment"
          /\ view'[h] = ComputeShipmentStatus(StatusesSeenBy(h, "EXTRACTED")) /\ job[h] \in Docs
          /\ \A q \in Procs \ {h} : pc'[q] = pc[q] /\ view'[q] = view[q]
      BY <2>0, <2>2 DEF CorrectSiblings, Goto, TypeOK, db
    <3>2. view'[h] \in {"EXTRACTING", "NEEDS_MANUAL_REVIEW"}
      <4>1. StatusesSeenBy(h, "EXTRACTED")[job[h]] # "ABSENT" BY <3>1 DEF StatusesSeenBy
      <4> QED BY <3>1, <4>1, ComputedOfPresent
    <3>3. UploadingOf(h)' BY <2>0, <3>1, <3>2 DEF UploadingInv, UploadingOf, CorrectPCs
    <3> QED BY <2>0, <3>1, <3>3, QuietUploading
  <2>3. CASE CorrectShipment(h)
    <3>1. /\ UNCHANGED <<shipment, doc, job, view>> /\ pc[h] = "correctShipment" /\ pc'[h] = "correctCommit"
          /\ write'[h] \in {view[h], NoStatus}
          /\ \A q \in Procs \ {h} : pc'[q] = pc[q] /\ write'[q] = write[q]
      BY <2>0, <2>3 DEF CorrectShipment, Goto, TypeOK, db
    <3>2. UploadingOf(h)'
      BY <2>0, <3>1, NoStatusAssumption DEF UploadingInv, UploadingOf, CorrectPCs, ShipmentStatus
    <3> QED BY <2>0, <3>1, <3>2, QuietUploading
  <2>4. CASE CorrectCommit(h) BY <2>0, <2>4, SettlingUploading DEF CorrectCommit
  <2>5. CASE UploadCommit(h) BY <2>5, UploadCommitUploading
  <2> QED BY <1>3, <1>4, <2>0, <2>1, <2>2, <2>3, <2>4, <2>5 DEF HandlerStep
<1>5. ASSUME NEW w \in Workers, WorkerStep(w) PROVE UploadingInv'
  <2>0. w \in Procs BY DEF Procs
  <2>1. CASE (\E d \in Docs : Take(w, d)) \/ FlushProcessing(w) \/ ExtractFields(w)
    <3>1. /\ UNCHANGED <<shipment, doc, view, write>>
          /\ pc[w] \in {"idle", "flushProcessing", "extracting"}
          /\ pc'[w] \in {"idle", "fetched", "extracting", "recompute"}
          /\ \A q \in Procs \ {w} : job'[q] = job[q] /\ pc'[q] = pc[q]
      BY <2>0, <2>1 DEF Take, FlushProcessing, ExtractFields, Goto, TypeOK, db
    <3>2. UploadingOf(w)' BY <2>0, <3>1 DEF UploadingInv, UploadingOf, CorrectPCs
    <3> QED BY <2>0, <3>1, <3>2, QuietUploading
  <2>2. CASE MarkProcessing(w)
    <3>1. /\ UNCHANGED <<shipment, doc, job, view>>
          /\ pc'[w] \in {"flushProcessing", "extracting"}
          /\ write'[w] \in {ComputeShipmentStatus(StatusesSeenBy(w, "PROCESSING")), NoStatus}
          /\ \A q \in Procs \ {w} : pc'[q] = pc[q] /\ write'[q] = write[q]
      BY <2>0, <2>2 DEF MarkProcessing, Goto, TypeOK, db
    <3>2. write'[w] # "DOCUMENTS_UPLOADING"
      BY <3>1, ComputedStatus, NoStatusAssumption DEF ShipmentStatus
    <3>3. UploadingOf(w)' BY <3>1, <3>2 DEF UploadingOf, CorrectPCs
    <3> QED BY <2>0, <3>1, <3>3, QuietUploading
  <2>3. CASE RecomputeSiblings(w)
    <3>1. /\ UNCHANGED <<shipment, doc, job, write>> /\ pc[w] = "recompute" /\ pc'[w] = "recomputeShipment"
          /\ view'[w] = ComputeShipmentStatus(StatusesSeenBy(w, row[w].status))
          /\ job[w] \in Docs /\ row[w].status # "ABSENT"
          /\ \A q \in Procs \ {w} : pc'[q] = pc[q] /\ view'[q] = view[q]
      BY <2>0, <2>3 DEF RecomputeSiblings, Goto, TypeOK, db, PendingWrites, Settled
    <3>2. view'[w] \in {"EXTRACTING", "NEEDS_MANUAL_REVIEW"}
      <4>1. StatusesSeenBy(w, row[w].status)[job[w]] # "ABSENT" BY <3>1 DEF StatusesSeenBy
      <4> QED BY <3>1, <4>1, ComputedOfPresent
    <3>3. UploadingOf(w)' BY <2>0, <3>1, <3>2 DEF UploadingInv, UploadingOf, CorrectPCs
    <3> QED BY <2>0, <3>1, <3>3, QuietUploading
  <2>4. CASE RecomputeShipment(w)
    <3>1. /\ UNCHANGED <<shipment, doc, job, view>>
          /\ pc[w] = "recomputeShipment" /\ pc'[w] = "extractCommit"
          /\ write'[w] = view[w] \/ (write'[w] = NoStatus /\ view[w] = shipment)
          /\ \A q \in Procs \ {w} : pc'[q] = pc[q] /\ write'[q] = write[q]
      BY <2>0, <2>4 DEF RecomputeShipment, Goto, TypeOK, db
    <3>2. view[w] \in {"EXTRACTING", "NEEDS_MANUAL_REVIEW"} BY <2>0, <3>1 DEF UploadingInv, UploadingOf
    <3>3. UploadingOf(w)'
      BY <3>1, <3>2, NoStatusAssumption DEF UploadingOf, CorrectPCs, ShipmentStatus
    <3>4. shipment # "DOCUMENTS_UPLOADING" \/ write'[w] # NoStatus
      BY <3>1, <3>2, NoStatusAssumption DEF ShipmentStatus
    <3> QED BY <2>0, <3>1, <3>3, <3>4, QuietUploading
  <2>5. CASE ExtractCommit(w) BY <2>0, <2>5, SettlingUploading DEF ExtractCommit
  <2> QED BY <1>3, <1>5, <2>0, <2>1, <2>2, <2>3, <2>4, <2>5 DEF WorkerStep
<1>6. ASSUME NEW d \in Docs, Redeliver(d) PROVE UploadingInv'
  BY <1>6 DEF Redeliver, db, local, UploadingInv, UploadingOf, Moving
<1>7. CASE Next
  BY <1>2, <1>3, <1>4, <1>5, <1>6, <1>7 DEF Next
<1> QED BY <1>1, <1>7

\* However many uploads decide from a CREATED that is past, and whatever fails or is delivered
\* twice: the shipment is only in DOCUMENTS_UPLOADING while a document is to be extracted.
THEOREM UploadingAlwaysQueued == Spec => []UploadingMeansQueued
<1>1. Init => UploadingInv
  <2> SUFFICES ASSUME Init PROVE UploadingInv OBVIOUS
  <2> QED BY NoStatusAssumption DEF Init, UploadingInv, UploadingOf, CorrectPCs, ShipmentStatus
<1>2. SafetyInv /\ UploadingInv /\ [Next]_vars => UploadingInv' BY NextUploading
<1>3. UploadingInv => UploadingMeansQueued BY DEF UploadingInv, Moving, UploadingMeansQueued
<1> QED BY <1>1, <1>2, <1>3, SafetyInvariant, PTL DEF Spec
=============================================================================
