CONSTANTS
  NoProc = NoProc
  NoDoc = NoDoc
  NoStatus = NoStatus
  w1 = w1
  w2 = w2
  h1 = h1
  h2 = h2
  d1 = d1
  d2 = d2
  k1 = k1
  k2 = k2
  Workers = {w1, w2}
  Handlers = {h1, h2}
  Docs = {d1, d2}
  Invoices = {}
  Keys = {k1, k2}
  Faulty = {w1, w2}
  MaxFailures = 1
  MaxRedeliveries = 1
CHECK_DEADLOCK FALSE
SPECIFICATION HSpec
SYMMETRY Symmetry
INVARIANTS StatusAgreesUnlessBlind
PROPERTIES CorrectionsKept
