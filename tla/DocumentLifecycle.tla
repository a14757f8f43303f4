------------------------- MODULE DocumentLifecycle -------------------------
(***************************************************************************)
(* What a client of the API is promised about each document: it is queued  *)
(* once, extracted once, with or without need of review, and leaves review *)
(* only by a correction (the status values of API SPEC section 7, without  *)
(* "processing", which is never committed, and "failed", never assigned).  *)
(***************************************************************************)
CONSTANT Docs
VARIABLE stage

Init == stage = [d \in Docs |-> "ABSENT"]

Upload(d) ==
  /\ stage[d] = "ABSENT"
  /\ stage' = [stage EXCEPT ![d] = "QUEUED"]

Extract(d) ==
  /\ stage[d] = "QUEUED"
  /\ \E outcome \in {"EXTRACTED", "NEEDS_MANUAL_REVIEW"} :
       stage' = [stage EXCEPT ![d] = outcome]

Correct(d) ==
  /\ stage[d] = "NEEDS_MANUAL_REVIEW"
  /\ stage' = [stage EXCEPT ![d] = "EXTRACTED"]

Next == \E d \in Docs : Upload(d) \/ Extract(d) \/ Correct(d)

Spec == Init /\ [][Next]_stage
=============================================================================
