----------------------- MODULE DocumentLifecycleProofs -----------------------
(***************************************************************************)
(* What DocumentPipeline keeps of each document whose message the broker   *)
(* delivers once, for any requests, workers and failures: it goes through  *)
(* the lifecycle of DocumentLifecycle, queued once, extracted once and     *)
(* leaving review only by a correction; and it keeps its corrections,      *)
(* unless a request commits that has loaded the row before another.        *)
(***************************************************************************)
EXTENDS DocumentPipelineProofs, PipelineHistory

ExtractingPCs == ExtractPCs \cup {"enqueue"}

Extracts(p, d) == job[p] = d /\ pc[p] \in ExtractingPCs

\* A QUEUED document has one message or one process on its way to it, and nothing else has
\* work to do on it.
CarrierOf(d) ==
  /\ queue[d] \in {0, 1}
  /\ queue[d] = 1 => doc[d].status = "QUEUED"
  /\ \A p \in Procs : Extracts(p, d) =>
       /\ doc[d].status = "QUEUED" /\ queue[d] = 0
       /\ \A q \in Procs \ {p} : ~Extracts(q, d)

\* A step that leaves document d and its message alone, and gives it to nobody.
LEMMA SameCarrier ==
  ASSUME NEW d, CarrierOf(d), doc'[d] = doc[d], queue'[d] = queue[d],
         \A q \in Procs : Extracts(q, d)' => Extracts(q, d)
  PROVE  CarrierOf(d)'
BY DEF CarrierOf

\* A step of p that commits nothing, and stays on its document or gives it up.
LEMMA QuietCarrier ==
  ASSUME NEW d, CarrierOf(d), UNCHANGED <<doc, queue>>, NEW p \in Procs,
         \A q \in Procs \ {p} : pc'[q] = pc[q] /\ job'[q] = job[q],
         pc'[p] \in ExtractingPCs => pc[p] \in ExtractingPCs /\ job'[p] = job[p]
  PROVE  CarrierOf(d)'
BY SameCarrier DEF Extracts

LEMMA UploadCommitCarrier ==
  ASSUME SafetyInv, NEW d \in Docs, CarrierOf(d), NEW h \in Handlers, UploadCommit(h)
  PROVE  CarrierOf(d)'
<1> USE DEF SafetyInv
<1>0. h \in Procs BY DEF Procs
<1>1. /\ UNCHANGED <<queue, job>> /\ pc' = [pc EXCEPT ![h] = "enqueue"] /\ pc[h] = "inserting"
      /\ pc \in [Procs -> PC] /\ doc \in [Docs -> DocumentRow]
      /\ doc' = [doc EXCEPT ![job[h]] = row[h]]
  BY <1>0 DEF UploadCommit, Commit, Goto, TypeOK, broker
<1>2. /\ doc[job[h]].status = "ABSENT" /\ row[h].status = "QUEUED"
      /\ \A q \in Procs \ {h} : job[q] # job[h]
  BY <1>0, <1>1 DEF UploadsOwnTheirRow
<1>3. CASE d = job[h]
  <2>1. queue[d] = 0 BY <1>2, <1>3 DEF CarrierOf
  <2>2. doc'[d].status = "QUEUED" BY <1>1, <1>2, <1>3
  <2>3. \A q \in Procs \ {h} : ~Extracts(q, d)' BY <1>1, <1>2, <1>3 DEF Extracts
  <2> QED BY <1>1, <2>1, <2>2, <2>3 DEF CarrierOf
<1>4. CASE d # job[h] BY <1>1, <1>4, SameCarrier DEF Extracts
<1> QED BY <1>3, <1>4

LEMMA UploadEnqueueCarrier ==
  ASSUME SafetyInv, NEW d \in Docs, CarrierOf(d), NEW h \in Handlers, UploadEnqueue(h)
  PROVE  CarrierOf(d)'
<1> USE DEF SafetyInv
<1>0. h \in Procs BY DEF Procs
<1>1. /\ doc' = doc /\ pc[h] = "enqueue" /\ job[h] \in Docs
      /\ queue' = [queue EXCEPT ![job[h]] = @ + 1] /\ queue \in [Docs -> Nat]
      /\ pc'[h] = "idle" /\ \A q \in Procs \ {h} : pc'[q] = pc[q] /\ job'[q] = job[q]
  BY <1>0 DEF UploadEnqueue, Finish, Goto, TypeOK, db
<1>2. \A q \in Procs : Extracts(q, d)' => Extracts(q, d) /\ q # h
  BY <1>1 DEF Extracts, ExtractingPCs, ExtractPCs
<1>3. CASE d = job[h]
  <2>1. Extracts(h, d) BY <1>1, <1>3 DEF Extracts, ExtractingPCs
  <2>2. queue[d] = 0 /\ doc[d].status = "QUEUED" /\ \A q \in Procs \ {h} : ~Extracts(q, d)
    BY <1>0, <2>1 DEF CarrierOf
  <2>3. queue'[d] = 1 BY <1>1, <1>3, <2>2
  <2> QED BY <1>1, <1>2, <2>2, <2>3 DEF CarrierOf
<1>4. CASE d # job[h] BY <1>1, <1>2, <1>4, SameCarrier
<1> QED BY <1>3, <1>4

LEMMA TakeCarrier ==
  ASSUME SafetyInv, NEW d \in Docs, CarrierOf(d), NEW w \in Workers, NEW e \in Docs, Take(w, e)
  PROVE  CarrierOf(d)'
<1> USE DEF SafetyInv
<1>0. w \in Procs BY DEF Procs
<1>1. queue[e] > 0 /\ doc[e].status # "ABSENT" BY DEF Take, RowsAreStored
<1>2. /\ doc' = doc /\ queue' = [queue EXCEPT ![e] = @ - 1] /\ queue \in [Docs -> Nat]
      /\ pc'[w] = "fetched" /\ job'[w] = e
      /\ \A q \in Procs \ {w} : pc'[q] = pc[q] /\ job'[q] = job[q]
  BY <1>0, <1>1 DEF Take, Acknowledge, Goto, TypeOK, db
<1>3. CASE d = e
  <2>1. queue[d] = 1 /\ doc[d].status = "QUEUED" BY <1>1, <1>3 DEF CarrierOf
  <2>2. queue'[d] = 0 BY <1>2, <1>3, <2>1
  <2>3. \A q \in Procs \ {w} : ~Extracts(q, d)'
    BY <1>2, <2>1 DEF CarrierOf, Extracts
  <2> QED BY <1>2, <2>1, <2>2, <2>3 DEF CarrierOf
<1>4. CASE d # e BY <1>2, <1>4, SameCarrier DEF Extracts
<1> QED BY <1>3, <1>4

\* A settling commit: an extraction settles the document it alone carries, a correction
\* finds its document settled.
LEMMA SettlingCarrier ==
  ASSUME SafetyInv, CorrectingSettled, NEW d \in Docs, CarrierOf(d),
         NEW p \in Procs, Commit(p), Chain(p), pc[p] \in {"correctCommit", "extractCommit"}
  PROVE  CarrierOf(d)'
<1> USE DEF SafetyInv
<1>1. /\ UNCHANGED <<queue, job>> /\ pc' = [pc EXCEPT ![p] = NextTask(job[p])]
      /\ pc \in [Procs -> PC] /\ doc \in [Docs -> DocumentRow]
      /\ doc' = [doc EXCEPT ![job[p]] = row[p]]
  BY DEF Commit, Chain, Goto, TypeOK
<1>2. \A q \in Procs : Extracts(q, d)' => Extracts(q, d) /\ q # p
  BY <1>1 DEF Extracts, NextTask, ExtractingPCs, ExtractPCs
<1>3. CASE d = job[p]
  <2>1. CASE pc[p] = "extractCommit"
    <3>1. Extracts(p, d) BY <1>3, <2>1 DEF Extracts, ExtractingPCs, ExtractPCs
    <3> QED BY <1>1, <1>2, <3>1 DEF CarrierOf
  <2>2. CASE pc[p] = "correctCommit"
    <3>1. doc[d].status \in Settled BY <1>3, <2>2 DEF CorrectingSettled, CorrectPCs
    <3> QED BY <1>1, <1>2, <3>1 DEF CarrierOf, Settled
  <2> QED BY <2>1, <2>2
<1>4. CASE d # job[p] BY <1>1, <1>2, <1>4, SameCarrier
<1> QED BY <1>3, <1>4

LEMMA NextCarrier ==
  ASSUME SafetyInv, CorrectingSettled, NEW d \in Docs, CarrierOf(d), [Next]_vars, ~Redeliver(d)
  PROVE  CarrierOf(d)'
<1> USE DEF SafetyInv
<1>1. CASE UNCHANGED vars
  BY <1>1 DEF vars, db, broker, local, CarrierOf, Extracts
<1>2. ASSUME NEW h \in Handlers, Request(h) PROVE CarrierOf(d)'
  <2>0. h \in Procs BY DEF Procs
  <2>1. /\ UNCHANGED <<doc, queue>> /\ pc'[h] \in {"storing", "correcting"}
        /\ \A q \in Procs \ {h} : pc'[q] = pc[q] /\ job'[q] = job[q]
    BY <1>2, <2>0 DEF Request, UploadRead, CorrectRead, Goto, TypeOK, db, broker
  <2> QED BY <2>0, <2>1, QuietCarrier DEF ExtractingPCs, ExtractPCs
<1>3. ASSUME NEW p \in Procs, SendClassify(p) \/ SendCheck(p) \/ Fail(p) PROVE CarrierOf(d)'
  <2>1. /\ UNCHANGED <<doc, queue>> /\ pc'[p] \in {"idle", "sendCheck"}
        /\ \A q \in Procs \ {p} : pc'[q] = pc[q] /\ job'[q] = job[q]
    BY <1>3 DEF SendClassify, SendCheck, Fail, Finish, Goto, TypeOK, db, broker
  <2> QED BY <2>1, QuietCarrier DEF ExtractingPCs, ExtractPCs
<1>4. ASSUME NEW h \in Handlers, HandlerStep(h) PROVE CarrierOf(d)'
  <2>0. h \in Procs BY DEF Procs
  <2>1. CASE UploadStore(h) \/ CorrectSiblings(h) \/ CorrectShipment(h)
    <3>1. /\ UNCHANGED <<doc, queue, job>> /\ pc'[h] \in {"inserting", "correctShipment", "correctCommit"}
          /\ \A q \in Procs \ {h} : pc'[q] = pc[q]
      BY <2>0, <2>1 DEF UploadStore, CorrectSiblings, CorrectShipment, Goto, TypeOK, broker, db
    <3> QED BY <2>0, <3>1, QuietCarrier DEF ExtractingPCs, ExtractPCs
  <2>2. CASE CorrectCommit(h) BY <2>0, <2>2, SettlingCarrier DEF CorrectCommit
  <2> QED BY <1>3, <1>4, <2>0, <2>1, <2>2, UploadCommitCarrier, UploadEnqueueCarrier DEF HandlerStep
<1>5. ASSUME NEW w \in Workers, WorkerStep(w) PROVE CarrierOf(d)'
  <2>0. w \in Procs BY DEF Procs
  <2>1. CASE MarkProcessing(w) \/ FlushProcessing(w) \/ ExtractFields(w)
             \/ RecomputeSiblings(w) \/ RecomputeShipment(w)
    <3>1. /\ UNCHANGED <<doc, queue, job>> /\ pc[w] \in ExtractPCs /\ pc'[w] \in ExtractPCs
          /\ \A q \in Procs \ {w} : pc'[q] = pc[q]
      BY <2>0, <2>1 DEF MarkProcessing, FlushProcessing, ExtractFields, RecomputeSiblings,
                        RecomputeShipment, Goto, TypeOK, broker, db, ExtractPCs
    <3> QED BY <2>0, <3>1, QuietCarrier DEF ExtractingPCs
  <2>2. CASE \E e \in Docs : Take(w, e) BY <2>2, TakeCarrier
  <2>3. CASE ExtractCommit(w) BY <2>0, <2>3, SettlingCarrier DEF ExtractCommit
  <2> QED BY <1>3, <1>5, <2>0, <2>1, <2>2, <2>3 DEF WorkerStep
<1>6. ASSUME NEW e \in Docs, Redeliver(e) PROVE CarrierOf(d)'
  <2>1. e # d /\ UNCHANGED <<doc, pc, job>> /\ queue'[d] = queue[d]
    BY <1>6 DEF Redeliver, db, local, TypeOK
  <2> QED BY <2>1, SameCarrier DEF Extracts
<1>7. CASE Next
  BY <1>2, <1>3, <1>4, <1>5, <1>6, <1>7 DEF Next
<1> QED BY <1>1, <1>7

-----------------------------------------------------------------------------
(* Every step is a step of the lifecycle, or none.                         *)

Stage == [d \in Docs |-> doc[d].status]

LEMMA NextLifecycle ==
  ASSUME SafetyInv, CorrectingSettled, \A d \in Docs : CarrierOf(d), [Next]_vars
  PROVE  [Lifecycle!Next]_Stage
<1> USE DEF SafetyInv
<1>1. ASSUME UNCHANGED doc PROVE UNCHANGED Stage BY <1>1 DEF Stage
<1>2. ASSUME NEW p \in Procs, doc' = [doc EXCEPT ![job[p]] = row[p]], job[p] \in Docs
      PROVE  Stage' = [Stage EXCEPT ![job[p]] = row[p].status] /\ Stage[job[p]] = doc[job[p]].status
  BY <1>2 DEF Stage, TypeOK
<1>3. ASSUME NEW h \in Handlers, UploadCommit(h) PROVE \E d \in Docs : Lifecycle!Upload(d)
  <2>1. /\ h \in Procs /\ job[h] \in Docs /\ doc' = [doc EXCEPT ![job[h]] = row[h]]
        /\ doc[job[h]].status = "ABSENT" /\ row[h].status = "QUEUED"
    BY <1>3 DEF Procs, UploadCommit, Commit, TypeOK, UploadsOwnTheirRow
  <2>2. Stage' = [Stage EXCEPT ![job[h]] = "QUEUED"] /\ Stage[job[h]] = "ABSENT" BY <1>2, <2>1
  <2> QED BY <2>1, <2>2 DEF Lifecycle!Upload, Stage
<1>4. ASSUME NEW w \in Workers, ExtractCommit(w) PROVE \E d \in Docs : Lifecycle!Extract(d)
  <2>1. /\ w \in Procs /\ job[w] \in Docs /\ doc' = [doc EXCEPT ![job[w]] = row[w]]
        /\ pc[w] = "extractCommit" /\ row[w].status \in Settled
    BY <1>4 DEF Procs, ExtractCommit, Commit, TypeOK, PendingWrites
  <2>2. doc[job[w]].status = "QUEUED"
    BY <2>1 DEF CarrierOf, Extracts, ExtractingPCs, ExtractPCs
  <2>3. Stage' = [Stage EXCEPT ![job[w]] = row[w].status] /\ Stage[job[w]] = "QUEUED"
    BY <1>2, <2>1, <2>2
  <2> QED BY <2>1, <2>3 DEF Lifecycle!Extract, Stage, Settled
<1>5. ASSUME NEW h \in Handlers, CorrectCommit(h)
      PROVE  UNCHANGED Stage \/ \E d \in Docs : Lifecycle!Correct(d)
  <2>1. /\ h \in Procs /\ job[h] \in Docs /\ doc' = [doc EXCEPT ![job[h]] = row[h]]
        /\ pc[h] = "correctCommit" /\ row[h].status = "EXTRACTED"
    BY <1>5 DEF Procs, CorrectCommit, Commit, TypeOK, PendingWrites, CorrectPCs
  <2>2. doc[job[h]].status \in Settled BY <2>1 DEF CorrectingSettled, CorrectPCs
  <2>3. Stage' = [Stage EXCEPT ![job[h]] = "EXTRACTED"] /\ Stage[job[h]] = doc[job[h]].status
    BY <1>2, <2>1
  <2>4. CASE doc[job[h]].status = "EXTRACTED" BY <2>3, <2>4 DEF Stage
  <2>5. CASE doc[job[h]].status = "NEEDS_MANUAL_REVIEW"
    BY <2>1, <2>3, <2>5 DEF Lifecycle!Correct, Stage
  <2> QED BY <2>2, <2>4, <2>5 DEF Settled
<1>6. ASSUME NEW h \in Handlers, Request(h) \/ HandlerStep(h)
      PROVE  UNCHANGED doc \/ UploadCommit(h) \/ CorrectCommit(h)
  BY <1>6 DEF Request, UploadRead, CorrectRead, HandlerStep, UploadStore, UploadEnqueue,
              CorrectSiblings, CorrectShipment, SendClassify, SendCheck, db
<1>7. ASSUME NEW w \in Workers, WorkerStep(w) PROVE UNCHANGED doc \/ ExtractCommit(w)
  BY <1>7 DEF WorkerStep, Take, MarkProcessing, FlushProcessing, ExtractFields, RecomputeSiblings,
              RecomputeShipment, SendClassify, SendCheck, db
<1>8. CASE Next
  BY <1>1, <1>3, <1>4, <1>5, <1>6, <1>7, <1>8 DEF Next, Fail, Redeliver, db, Lifecycle!Next
<1> QED BY <1>1, <1>8 DEF vars, db

\* Whatever the interleaving of requests and workers and whichever of them fail, each
\* document goes through the lifecycle its clients know, provided the broker delivers no
\* message twice: a second delivery would extract a document again that has been corrected.
THEOREM ImplementsLifecycle ==
  ASSUME MaxRedeliveries = 0
  PROVE  Spec => LifecycleSpec
<1> DEFINE CarrierInv == \A d \in Docs : CarrierOf(d)
<1>1. Init => CarrierInv
  <2> SUFFICES ASSUME Init, NEW d \in Docs PROVE CarrierOf(d)
    OBVIOUS
  <2>1. queue[d] = 0 /\ \A p \in Procs : pc[p] = "idle" BY DEF Init
  <2>2. \A p \in Procs : ~Extracts(p, d)
    BY <2>1 DEF Extracts, ExtractingPCs, ExtractPCs
  <2> QED BY <2>1, <2>2 DEF CarrierOf
<1>2. SafetyInv /\ CorrectingSettled /\ CarrierInv /\ [Next]_vars => CarrierInv'
  <2>1. SafetyInv => \A d \in Docs : ~Redeliver(d) BY DEF SafetyInv, TypeOK, Redeliver
  <2> QED BY <2>1, NextCarrier
<1>3. Init => Lifecycle!Init
  BY DEF Init, Lifecycle!Init, AbsentRow
<1>4. SafetyInv /\ CorrectingSettled /\ CarrierInv /\ [Next]_vars => [Lifecycle!Next]_Stage
  BY NextLifecycle
<1> HIDE DEF CarrierInv
<1> QED BY <1>1, <1>2, <1>3, <1>4, SafetyInvariant, CorrectingInvariant, PTL
        DEF Spec, LifecycleSpec, Lifecycle!Spec, Stage

-----------------------------------------------------------------------------
(* Corrections.                                                            *)

\* A document not yet extracted has no corrections, and a request that has loaded its
\* document since the last commit to it has loaded them all.
FieldsInv ==
  /\ \A d \in Docs : doc[d].status \in {"ABSENT", "QUEUED"} => doc[d].fields = {}
  /\ \A p \in Procs : pc[p] = "inserting" => row[p].fields = {}
  /\ \A p \in Procs \ outdated : pc[p] \in CorrectPCs => doc[job[p]].fields \subseteq row[p].fields

CorrectionInv == FieldsInv /\ \A d \in Docs \ repeated : CarrierOf(d)

\* A step that commits no document, by a process whose own row is right, keeps all of it.
LEMMA QuietFields ==
  ASSUME FieldsInv, Record, doc' = doc, NEW p \in Procs,
         \A q \in Procs \ {p} : pc'[q] = pc[q] /\ job'[q] = job[q] /\ row'[q] = row[q],
         pc'[p] = "inserting" => row'[p].fields = {},
         p \notin outdated' /\ pc'[p] \in CorrectPCs => doc[job'[p]].fields \subseteq row'[p].fields
  PROVE  FieldsInv' /\ Kept
<1>1. \A d \in Docs : doc'[d].status \in {"ABSENT", "QUEUED"} => doc'[d].fields = {}
  BY DEF FieldsInv
<1>2. \A q \in Procs : pc'[q] = "inserting" => row'[q].fields = {}
  BY DEF FieldsInv
<1>3. ASSUME NEW q \in Procs \ outdated', pc'[q] \in CorrectPCs
      PROVE  doc'[job'[q]].fields \subseteq row'[q].fields
  <2>1. CASE q = p BY <1>3, <2>1
  <2>2. CASE q # p
    <3>1. q \notin outdated /\ pc[q] \in CorrectPCs BY <1>3, <2>2 DEF Record
    <3> QED BY <2>2, <3>1 DEF FieldsInv
  <2> QED BY <2>1, <2>2
<1> QED BY <1>1, <1>2, <1>3 DEF FieldsInv, Kept

\* A commit of p over a row without corrections, or with no more than it writes; the requests
\* that are correcting the same document are outdated by it.
LEMMA CommitFields ==
  ASSUME TypeOK, FieldsInv, Record, NEW p \in Procs, doc' = [doc EXCEPT ![job[p]] = row[p]],
         job[p] \in Docs, UNCHANGED <<job, row>>, NEW label, pc' = [pc EXCEPT ![p] = label],
         label \notin CorrectPCs \cup {"inserting"},
         row[p].status \in {"ABSENT", "QUEUED"} => row[p].fields = {},
         \/ job[p] \in repeated
         \/ doc[job[p]].fields \subseteq row[p].fields
         \/ p \in outdated /\ Settles(p),
         Settles(p) \/ \A q \in Procs \ {p} : job[q] # job[p]
  PROVE  FieldsInv' /\ Kept
<1>1. \A d \in Docs : doc'[d].status \in {"ABSENT", "QUEUED"} => doc'[d].fields = {}
  BY DEF FieldsInv, TypeOK
<1>2. pc'[p] = label /\ \A q \in Procs \ {p} : pc'[q] = pc[q] BY DEF TypeOK
<1>3. \A q \in Procs : pc'[q] = "inserting" => row'[q].fields = {}
  BY <1>2 DEF FieldsInv
<1>4. ASSUME NEW q \in Procs \ outdated', pc'[q] \in CorrectPCs
      PROVE  doc'[job'[q]].fields \subseteq row'[q].fields
  <2>1. q # p /\ pc[q] \in CorrectPCs /\ job[q] \in Docs BY <1>2, <1>4 DEF TypeOK, CorrectPCs
  <2>2. q \notin outdated /\ job[q] # job[p] BY <1>4, <2>1 DEF Record
  <2> QED BY <2>1, <2>2 DEF FieldsInv, TypeOK
<1>5. Kept BY DEF Kept, TypeOK
<1> QED BY <1>1, <1>3, <1>4, <1>5 DEF FieldsInv

LEMMA NextFields ==
  ASSUME SafetyInv, CorrectingSettled, CorrectionInv, Record, Next
  PROVE  FieldsInv' /\ Kept
<1> USE DEF SafetyInv
<1>0. FieldsInv BY DEF CorrectionInv
<1>1. ASSUME NEW p \in Procs, doc' = doc, pc'[p] \notin CorrectPCs \cup {"inserting"},
             \A q \in Procs \ {p} : pc'[q] = pc[q] /\ job'[q] = job[q] /\ row'[q] = row[q]
      PROVE  FieldsInv' /\ Kept
  BY <1>0, <1>1, QuietFields
<1>2. ASSUME NEW h \in Handlers, Request(h) PROVE FieldsInv' /\ Kept
  <2>0. h \in Procs BY DEF Procs
  <2>1. CASE \E d \in Docs : UploadRead(h, d)
    <3>1. /\ doc' = doc /\ pc'[h] = "storing"
          /\ \A q \in Procs \ {h} : pc'[q] = pc[q] /\ job'[q] = job[q] /\ row'[q] = row[q]
      BY <2>0, <2>1 DEF UploadRead, Goto, TypeOK, db
    <3> QED BY <1>1, <2>0, <3>1 DEF CorrectPCs
  <2>2. CASE \E d \in Docs, k \in Keys : CorrectRead(h, d, k)
    <3>1. /\ doc' = doc /\ pc'[h] = "correcting"
          /\ doc[job'[h]].fields \subseteq row'[h].fields
          /\ \A q \in Procs \ {h} : pc'[q] = pc[q] /\ job'[q] = job[q] /\ row'[q] = row[q]
      BY <2>0, <2>2 DEF CorrectRead, Goto, TypeOK, db
    <3> QED BY <1>0, <2>0, <3>1, QuietFields
  <2> QED BY <1>2, <2>1, <2>2 DEF Request
<1>3. ASSUME NEW p \in Procs, SendClassify(p) \/ SendCheck(p) \/ Fail(p) PROVE FieldsInv' /\ Kept
  <2>1. /\ doc' = doc /\ pc'[p] \in {"idle", "sendCheck"}
        /\ \A q \in Procs \ {p} : pc'[q] = pc[q] /\ job'[q] = job[q] /\ row'[q] = row[q]
    BY <1>3 DEF SendClassify, SendCheck, Fail, Finish, Goto, TypeOK, db
  <2> QED BY <1>1, <2>1 DEF CorrectPCs
<1>4. ASSUME NEW h \in Handlers, HandlerStep(h) PROVE FieldsInv' /\ Kept
  <2>0. h \in Procs BY DEF Procs
  <2>1. CASE UploadStore(h)
    <3>1. /\ doc' = doc /\ pc'[h] = "inserting" /\ row'[h].fields = {}
          /\ \A q \in Procs \ {h} : pc'[q] = pc[q] /\ job'[q] = job[q] /\ row'[q] = row[q]
      BY <2>0, <2>1 DEF UploadStore, Goto, TypeOK
    <3> QED BY <1>0, <2>0, <3>1, QuietFields DEF CorrectPCs
  <2>2. CASE UploadEnqueue(h)
    <3>1. /\ doc' = doc /\ pc'[h] = "idle"
          /\ \A q \in Procs \ {h} : pc'[q] = pc[q] /\ job'[q] = job[q] /\ row'[q] = row[q]
      BY <2>0, <2>2 DEF UploadEnqueue, Finish, Goto, TypeOK, db
    <3> QED BY <1>1, <2>0, <3>1 DEF CorrectPCs
  <2>3. CASE CorrectSiblings(h) \/ CorrectShipment(h)
    <3>1. /\ UNCHANGED <<doc, job, row>> /\ pc[h] \in CorrectPCs
          /\ pc'[h] \in {"correctShipment", "correctCommit"}
          /\ \A q \in Procs \ {h} : pc'[q] = pc[q]
      BY <2>0, <2>3 DEF CorrectSiblings, CorrectShipment, Goto, TypeOK, db, CorrectPCs
    <3>2. h \notin outdated' => doc[job'[h]].fields \subseteq row'[h].fields
      <4>1. h \notin outdated' => h \notin outdated BY <2>0, <3>1 DEF Record, CorrectPCs
      <4> QED BY <1>0, <2>0, <3>1, <4>1 DEF FieldsInv
    <3> QED BY <1>0, <2>0, <3>1, <3>2, QuietFields
  <2>4. CASE UploadCommit(h)
    <3>1. /\ doc' = [doc EXCEPT ![job[h]] = row[h]] /\ UNCHANGED <<job, row>>
          /\ pc' = [pc EXCEPT ![h] = "enqueue"] /\ pc[h] = "inserting" /\ job[h] \in Docs
      BY <2>0, <2>4 DEF UploadCommit, Commit, Goto, TypeOK
    <3>2. /\ row[h].fields = {} /\ doc[job[h]].fields = {}
          /\ \A q \in Procs \ {h} : job[q] # job[h]
      BY <1>0, <2>0, <3>1 DEF FieldsInv, UploadsOwnTheirRow
    <3>3. "enqueue" \notin CorrectPCs \cup {"inserting"} BY DEF CorrectPCs
    <3> QED BY <1>0, <2>0, <3>1, <3>2, <3>3, CommitFields
  <2>5. CASE CorrectCommit(h)
    <3>1. /\ doc' = [doc EXCEPT ![job[h]] = row[h]] /\ UNCHANGED <<job, row>>
          /\ pc' = [pc EXCEPT ![h] = NextTask(job[h])] /\ pc[h] = "correctCommit" /\ job[h] \in Docs
      BY <2>0, <2>5 DEF CorrectCommit, Commit, Chain, Goto, TypeOK
    <3>2. Settles(h) BY <2>0, <3>1 DEF Settles, NextTask, TypeOK
    <3>3. row[h].status = "EXTRACTED" /\ (h \notin outdated => doc[job[h]].fields \subseteq row[h].fields)
      BY <1>0, <2>0, <3>1 DEF FieldsInv, PendingWrites, CorrectPCs
    <3>4. NextTask(job[h]) \notin CorrectPCs \cup {"inserting"} BY DEF CorrectPCs, NextTask
    <3> QED BY <1>0, <2>0, <3>1, <3>2, <3>3, <3>4, CommitFields
  <2> QED BY <1>3, <1>4, <2>0, <2>1, <2>2, <2>3, <2>4, <2>5 DEF HandlerStep
<1>5. ASSUME NEW w \in Workers, WorkerStep(w) PROVE FieldsInv' /\ Kept
  <2>0. w \in Procs BY DEF Procs
  <2>1. CASE MarkProcessing(w) \/ FlushProcessing(w) \/ ExtractFields(w)
             \/ RecomputeSiblings(w) \/ RecomputeShipment(w) \/ (\E d \in Docs : Take(w, d))
    <3>1. /\ doc' = doc /\ pc'[w] \in ExtractPCs \cup {"idle"}
          /\ \A q \in Procs \ {w} : pc'[q] = pc[q] /\ job'[q] = job[q] /\ row'[q] = row[q]
      BY <2>0, <2>1 DEF MarkProcessing, FlushProcessing, ExtractFields, RecomputeSiblings,
                        RecomputeShipment, Take, Goto, TypeOK, db, ExtractPCs
    <3>2. pc'[w] \notin CorrectPCs \cup {"inserting"} BY <3>1 DEF ExtractPCs, CorrectPCs
    <3> QED BY <1>1, <2>0, <3>1, <3>2
  <2>2. CASE ExtractCommit(w)
    <3>1. /\ doc' = [doc EXCEPT ![job[w]] = row[w]] /\ UNCHANGED <<job, row>>
          /\ pc' = [pc EXCEPT ![w] = NextTask(job[w])] /\ pc[w] = "extractCommit" /\ job[w] \in Docs
      BY <2>0, <2>2 DEF ExtractCommit, Commit, Chain, Goto, TypeOK
    <3>2. Settles(w) BY <2>0, <3>1 DEF Settles, NextTask, TypeOK
    <3>3. row[w].status \notin {"ABSENT", "QUEUED"}
      BY <2>0, <3>1 DEF PendingWrites, Settled
    <3>4. job[w] \in repeated \/ doc[job[w]].fields = {}
      <4>1. job[w] \notin repeated => doc[job[w]].status = "QUEUED"
        BY <2>0, <3>1 DEF CorrectionInv, CarrierOf, Extracts, ExtractingPCs, ExtractPCs
      <4> QED BY <1>0, <3>1, <4>1 DEF FieldsInv
    <3>5. NextTask(job[w]) \notin CorrectPCs \cup {"inserting"} BY DEF CorrectPCs, NextTask
    <3> QED BY <1>0, <2>0, <3>1, <3>2, <3>3, <3>4, <3>5, CommitFields
  <2> QED BY <1>3, <1>5, <2>0, <2>1, <2>2 DEF WorkerStep
<1>6. ASSUME NEW d \in Docs, Redeliver(d) PROVE FieldsInv' /\ Kept
  <2>1. UNCHANGED <<doc, pc, job, row>> BY <1>6 DEF Redeliver, db, local
  <2>2. \A q \in Procs \ outdated' : pc'[q] \in CorrectPCs => q \notin outdated BY DEF Record
  <2> QED BY <1>0, <2>1, <2>2 DEF FieldsInv, Kept
<1> QED BY <1>2, <1>3, <1>4, <1>5, <1>6 DEF Next

\* A document that is not in repeated has not been delivered once more.
LEMMA NextCorrection ==
  ASSUME SafetyInv, CorrectingSettled, CorrectionInv, [HNext]_<<vars, history>>
  PROVE  CorrectionInv' /\ [Kept]_<<vars, history>>
<1>1. CASE UNCHANGED <<vars, history>>
  BY <1>1 DEF vars, db, broker, local, history, CorrectionInv, FieldsInv, CarrierOf, Extracts
<1>2. CASE HNext
  <2>1. FieldsInv' /\ Kept BY <1>2, NextFields DEF HNext
  <2>2. ASSUME NEW d \in Docs \ repeated' PROVE CarrierOf(d)'
    <3>1. d \notin repeated BY <1>2 DEF HNext, Record
    <3>2. ~Redeliver(d) BY <1>2 DEF HNext, Record, Redeliver, SafetyInv, TypeOK
    <3> QED BY <1>2, <3>1, <3>2, NextCarrier DEF HNext, CorrectionInv
  <2> QED BY <2>1, <2>2 DEF CorrectionInv
<1> QED BY <1>1, <1>2

\* Whatever fails, no commit drops a correction but one of a request that has loaded the row
\* before another commit to it, or an extraction of a document whose message was delivered
\* once more.
THEOREM CorrectionsAreKept == HSpec => CorrectionsKept
<1>1. HInit => Init /\ CorrectionInv
  BY DEF HInit, Init, CorrectionInv, FieldsInv, AbsentRow, CorrectPCs, CarrierOf, Extracts,
         ExtractingPCs, ExtractPCs
<1>2. [HNext]_<<vars, history>> => [Next]_vars BY DEF HNext
<1>3. SafetyInv /\ CorrectingSettled /\ CorrectionInv /\ [HNext]_<<vars, history>>
        => CorrectionInv' /\ [Kept]_<<vars, history>>
  BY NextCorrection
<1>4. HSpec => Spec
  BY <1>1, <1>2, PTL DEF HSpec, Spec
<1> QED BY <1>1, <1>3, <1>4, SafetyInvariant, CorrectingInvariant, PTL DEF HSpec, CorrectionsKept
=============================================================================
