------------------------- MODULE MCDocumentPipeline -------------------------
EXTENDS DocumentPipeline, TLC

\* Workers are interchangeable, and so are HTTP requests and corrected keys.
Symmetry ==
  Permutations(Workers) \cup Permutations(Handlers) \cup Permutations(Keys)
=============================================================================
