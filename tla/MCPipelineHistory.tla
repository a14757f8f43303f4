-------------------------- MODULE MCPipelineHistory --------------------------
EXTENDS PipelineHistory, TLC

\* Workers are interchangeable, and so are HTTP requests, corrected keys and, as none of them
\* is an invoice here, documents.
Symmetry ==
  Permutations(Workers) \cup Permutations(Handlers) \cup Permutations(Keys)
  \cup Permutations(Docs)
=============================================================================
