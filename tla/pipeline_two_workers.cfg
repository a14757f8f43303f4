CONSTANTS
  NoProc = NoProc
  NoDoc = NoDoc
  NoStatus = NoStatus
  w1 = w1
  w2 = w2
  h1 = h1
  d1 = d1
  d2 = d2
  d3 = d3
  Workers = {w1, w2}
  Handlers = {h1}
  Docs = {d1, d2, d3}
  Invoices = {d1}
  Keys = {}
  Faulty = {}
  MaxFailures = 0
  MaxRedeliveries = 0
CHECK_DEADLOCK FALSE
SPECIFICATION Spec
INVARIANTS StatusAgreesAtRest
