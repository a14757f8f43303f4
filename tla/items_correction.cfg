SPECIFICATION Spec
CONSTANTS
  i1 = i1
  i2 = i2
  c1 = c1
  c2 = c2
  d1 = d1
  d2 = d2
  Invoices = {i1}
  Contents <- MCContents
  Codes = {c1, c2}
  NoCode = NoCode
  Verdicts <- MCVerdicts
  W1 = w1
  W2 = w2
  Workers = {w1, w2}
  Pools <- MCOneWorker
  Handlers = {}
  MaxItems = 2
  MaxSettles = 2
  MaxRequests = 0
  MaxFailures = 0
CHECK_DEADLOCK FALSE
INVARIANT LineItemsFollowInvoice
