-------------------------- MODULE PipelineHistory --------------------------
(***************************************************************************)
(* DocumentPipeline with history variables.  Two of its promises fail when *)
(* transactions at READ COMMITTED overlap in a certain way: the status     *)
(* derived from the documents, and the corrections of an operator.  The    *)
(* history says when that has happened, so that the promises can be stated *)
(* for every behaviour, any number of workers and requests included, with  *)
(* exactly those overlaps excepted.                                        *)
(*                                                                         *)
(* The variables only record: no step of the pipeline depends on them.     *)
(***************************************************************************)
EXTENDS DocumentPipeline

VARIABLES
  blind,     \* processes that have read the statuses of the siblings before the last settling commit
  stale,     \* the last settling commit was one of these
  outdated,  \* requests that have loaded their document before its last settling commit
  repeated   \* documents with a message that was delivered once more

history == <<blind, stale, outdated, repeated>>

\* Between the SELECT on the siblings and the commit of what follows from it.
Recomputing == {"correctShipment", "correctCommit", "recomputeShipment", "extractCommit"}

\* This step is p's commit that settles its document.
Settles(p) ==
  pc[p] \in {"correctCommit", "extractCommit"} /\ pc'[p] \in {"sendClassify", "sendCheck"}

HInit ==
  /\ Init
  /\ blind = {} /\ stale = FALSE /\ outdated = {} /\ repeated = {}

Record ==
  /\ blind' = {q \in Procs : /\ pc'[q] \in Recomputing
                             /\ q \in blind \/ \E p \in Procs \ {q} : Settles(p)}
  /\ stale' = \/ \E p \in blind : Settles(p)
              \/ stale /\ \A p \in Procs : ~Settles(p)
  /\ outdated' = {q \in Procs : /\ pc'[q] \in CorrectPCs
                                /\ \/ q \in outdated
                                   \/ \E p \in Procs \ {q} : Settles(p) /\ job[p] = job[q]}
  /\ repeated' = repeated \cup
       {d \in Docs : redeliveries' # redeliveries /\ queue'[d] # queue[d]}

HNext == Next /\ Record

HSpec == HInit /\ [][HNext]_<<vars, history>>

-----------------------------------------------------------------------------
\* Only the last settling commit counts: whoever overlapped before, the shipment ends with
\* the status derived from its documents if nobody settled one between the sibling SELECT
\* of that last transaction and its commit.  Uploads may commit at any time.
StatusAgreesUnlessBlind == ~stale => StatusAgreesAtRest

\* This step drops no correction, unless it is the commit of a request that has loaded the
\* row before another commit to it.
Kept ==
  \A d \in Docs \ repeated :
    doc[d].fields \subseteq doc'[d].fields \/ \E h \in outdated : job[h] = d /\ Settles(h)

\* An operator's correction, once committed, stays in the row: the only commits that can
\* drop one are a correction by a request that has loaded the row before, and an
\* extraction of a document whose message was delivered once more.
CorrectionsKept == [][Kept]_<<vars, history>>
=============================================================================
