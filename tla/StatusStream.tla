---------------------------- MODULE StatusStream ----------------------------
(***************************************************************************)
(* GET /shipments/{id}/events: a client follows the status of a shipment   *)
(* while DocumentPipeline changes it.  The stream polls, at READ COMMITTED *)
(* and without cached rows, until a status to stop at or a time limit.     *)
(*                                                                         *)
(* The shipment exists: its stream would otherwise not have opened, and no *)
(* code deletes shipments.                                                 *)
(***************************************************************************)
EXTENDS DocumentPipeline

CONSTANTS
  MaxPolls,    \* _SSE_MAX_STREAM_SECONDS / _SSE_POLL_INTERVAL_SECONDS
  MaxStreams   \* bound on streams the client opens, one after the other

ASSUME StreamAssumption == MaxPolls \in Nat \ {0} /\ MaxStreams \in Nat

VARIABLES
  stream,     \* "closed", "open", "left" (the client is gone), "timed out", "stopped"
  last_status,  \* the status of the last event
  polls,      \* elapsed / _SSE_POLL_INTERVAL_SECONDS
  streams     \* streams opened

streamVars == <<stream, last_status, polls, streams>>

\* Of _SSE_STOP_STATUSES, those that some code path assigns.
StopStatuses == {"NEEDS_MANUAL_REVIEW"}

InitStream ==
  /\ stream = "closed"
  /\ last_status = NoStatus
  /\ polls = 0 /\ streams = 0

\* The first event is the status at the time of the request.
OpenStream ==
  /\ stream \in {"closed", "timed out", "stopped"} /\ streams < MaxStreams
  /\ streams' = streams + 1
  /\ stream' = "open"
  /\ last_status' = shipment
  /\ polls' = 0

\* Mutant: only a poll that finds a change counts.
ElapsedWhenChanged == IF shipment = last_status THEN polls ELSE polls + 1

Elapsed == polls + 1

\* The generator is over, and its variables with it.
StreamOver(how) == stream' = how /\ last_status' = NoStatus /\ polls' = 0

\* One turn of the loop: sleep, get_status, an event if it has changed.
Poll ==
  /\ stream = "open" /\ polls < MaxPolls
  /\ IF shipment \in StopStatuses THEN StreamOver("stopped")
     ELSE last_status' = shipment /\ polls' = Elapsed /\ UNCHANGED stream
  /\ UNCHANGED streams

TimeOut == stream = "open" /\ polls = MaxPolls /\ StreamOver("timed out") /\ UNCHANGED streams

\* The loop notices a client that has gone when it comes round.
Disconnect == stream = "open" /\ stream' = "left" /\ UNCHANGED <<last_status, polls, streams>>
Disconnected == stream = "left" /\ StreamOver("closed") /\ UNCHANGED streams

StreamStep == Poll \/ TimeOut \/ Disconnected

StreamInit == Init /\ InitStream

StreamNext ==
  \/ Next /\ UNCHANGED streamVars
  \/ (StreamStep \/ OpenStream \/ Disconnect) /\ UNCHANGED vars

\* The pipeline's fairness, and a loop that goes round.
StreamSpec ==
  /\ StreamInit /\ [][StreamNext]_<<vars, streamVars>>
  /\ \A h \in Handlers : WF_vars(HandlerStep(h))
  /\ \A w \in Workers : WF_vars(WorkerStep(w))
  /\ WF_streamVars(StreamStep /\ UNCHANGED vars)

-----------------------------------------------------------------------------
\* No stream, and no database connection it holds, outlives its time limit, whatever the
\* shipment does and also when its client has gone.
StreamEnds == stream \in {"open", "left"} ~> stream \in {"closed", "timed out", "stopped"}
=============================================================================
