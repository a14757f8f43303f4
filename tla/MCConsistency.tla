---------------------------- MODULE MCConsistency ----------------------------
(* Small instances of Consistency for TLC. *)
EXTENDS Consistency

CONSTANTS Invoice1, Packing1, Lading1, V1, V2, W1, W2

\* One document of each compared type.
MCDocType ==
  [d \in Docs |-> CASE d = Invoice1 -> "commercial_invoice" [] d = Packing1 -> "packing_list"
                     [] d = Lading1 -> "bill_of_lading"]

\* One worker, and two; or two always.
MCPools == {{W1}, {W1, W2}}
MCTwoWorkers == {{W1, W2}}

MCSimilar == {<<V1, V1>>, <<V2, V2>>}

Same(v) == [f \in Fields |-> v]

\* Documents that agree in everything and documents that differ; an invoice whose
\* quantity and a bill of lading whose seller is unreadable.
MCContents ==
  [d \in Docs |->
     CASE d = Invoice1 -> {Same(V1), [Same(V2) EXCEPT !["quantity"] = NoValue]}
       [] d = Packing1 -> {Same(V1), Same(V2)}
       [] d = Lading1 -> {Same(V1), [Same(V2) EXCEPT !["seller_shipper_name"] = NoValue]}]
=============================================================================
