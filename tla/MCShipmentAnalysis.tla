------------------------- MODULE MCShipmentAnalysis -------------------------
(* Small instances of ShipmentAnalysis for TLC. *)
EXTENDS ShipmentAnalysis, TLC

CONSTANTS W1, W2

\* One worker with three requests and a failure, and two with two requests.
MCPools == {{W1}, {W1, W2}}
MCOneWorker == {{W1}}
MCMaxRequests == [p \in Pools |-> 4 - Cardinality(p)]
MCMaxFailures == [p \in Pools |-> 2 - Cardinality(p)]

\* A phone as a user types it, and a medical device.
Phone == <<"85", "17", ".", "12">>
Device == <<"90", " ", "18">>
MCCodes == {Phone, Device}

\* The rules for them in data/permit_rules/rules_v1.json: one code needs two permits.
MCPermitRules ==
  {[permit |-> "telecom", prefixes |-> {<<"85", "17">>}],
   [permit |-> "medical", prefixes |-> {<<"90", "18">>}],
   [permit |-> "conformity", prefixes |-> {<<"85", "28">>, <<"90", "18">>}]}

MCCaseFold == [c \in {"India", "INDIA", "Indonesia", "UAE"} |-> IF c = "INDIA" THEN "India" ELSE c]

\* Two agreements of the form of data/cepa_rules/rules_v1.json.
MCCepaRules ==
  <<[agreement |-> "Indonesia", origin |-> "Indonesia", destination |-> "UAE",
     prefixes |-> {<<"85", "17">>}, threshold |-> 40, without |-> 5, with |-> 0],
    [agreement |-> "India", origin |-> "India", destination |-> "UAE",
     prefixes |-> {<<"85", "17">>, <<"61", "09">>}, threshold |-> 35, without |-> 5, with |-> 0]>>

\* Exactly at the threshold, and a total of zero.
MCBreakdowns == {[local |-> 7, total |-> 20], [local |-> 1, total |-> 0]}
\* Line items are told apart by their codes and rows only.
Symmetry == Permutations(Items)
=============================================================================
