SPECIFICATION StreamSpec
CHECK_DEADLOCK FALSE
CONSTANTS
  NoProc = NoProc
  NoDoc = NoDoc
  NoStatus = NoStatus
  w1 = w1
  h1 = h1
  h2 = h2
  d1 = d1
  d2 = d2
  d3 = d3
  Workers = {w1}
  Handlers = {h1, h2}
  Docs = {d1, d2, d3}
  Invoices = {d1}
  Keys = {}
  Faulty = {}
  MaxFailures = 0
  MaxRedeliveries = 0
  MaxPolls = 2
  MaxStreams = 1
INVARIANTS StatusAgreesAtRest
PROPERTIES StatusConverges StreamEnds
