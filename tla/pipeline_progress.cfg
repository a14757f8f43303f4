CONSTANTS
  NoProc = NoProc
  NoDoc = NoDoc
  NoStatus = NoStatus
  w1 = w1
  w2 = w2
  h1 = h1
  h2 = h2
  d1 = d1
  d2 = d2
  k1 = k1
  Workers = {w1, w2}
  Handlers = {h1, h2}
  Docs = {d1, d2}
  Invoices = {d1}
  Keys = {k1}
  Faulty = {}
  MaxFailures = 0
  MaxRedeliveries = 0
CHECK_DEADLOCK FALSE
SPECIFICATION FairSpec
PROPERTIES QueuedSettles LifecycleSpec
