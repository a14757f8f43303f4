SPECIFICATION FairSpec
CONSTANTS
  Invoice1 = invoice
  Packing1 = packing
  Lading1 = lading
  V1 = v1
  V2 = v2
  NoValue = NoValue
  NoDoc = NoDoc
  Docs = {invoice, packing, lading}
  Values = {v1, v2}
  DocType <- MCDocType
  Similar <- MCSimilar
  Contents <- MCContents
  W1 = w1
  W2 = w2
  Workers = {w1, w2}
  Pools <- MCPools
  Handlers = {h1}
  MaxSettles = 3
  MaxCopies = 3
  MaxFailures = 1
CHECK_DEADLOCK FALSE
INVARIANTS TypeOK OneRowPerFieldSolo RowsAgreeAtRest BlockingMeansQuantitiesDifferSolo
PROPERTIES AcknowledgmentSurvives RowsConverge
