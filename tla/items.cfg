SPECIFICATION FairSpec
CONSTANTS
  i1 = i1
  i2 = i2
  c1 = c1
  c2 = c2
  d1 = d1
  d2 = d2
  Invoices = {i1}
  Contents <- MCContents
  Codes = {c1, c2}
  NoCode = NoCode
  Verdicts <- MCVerdicts
  W1 = w1
  W2 = w2
  Workers = {w1, w2}
  Pools <- MCPools
  Handlers = {h1}
  MaxItems = 2
  MaxSettles = 2
  MaxRequests = 2
  MaxFailures = 1
CHECK_DEADLOCK FALSE
INVARIANTS TypeOK LineItemsAreClassified UpsertNeverCollides ChangesAnnounced NoDuplicateLineItems ReviewedUnlessSure
PROPERTIES OverrideSurvives InvoiceIsClassified
