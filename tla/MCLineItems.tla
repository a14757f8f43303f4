----------------------------- MODULE MCLineItems -----------------------------
(* Small instances of LineItems for TLC. *)
EXTENDS LineItems

CONSTANTS i1, i2, c1, c2, d1, d2, W1, W2

\* An unreadable invoice, one line, and the same line corrected with another added.
MCContents == {<<>>, <<d1>>, <<d2, d1>>}

\* One worker, and two.
MCPools == {{W1}, {W1, W2}}
MCOneWorker == {{W1}}

\* A sure code, an unsure one, no code, and a code-less answer the model is sure of.
MCVerdicts ==
  {[code |-> c1, sure |-> TRUE], [code |-> c2, sure |-> FALSE],
   [code |-> NoCode, sure |-> FALSE], [code |-> NoCode, sure |-> TRUE]}
=============================================================================
