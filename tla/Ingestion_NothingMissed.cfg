CONSTANTS
  d1 = d1
  d2 = d2
  d3 = d3
  t1 = t1
  t2 = t2
  Tx = {t1, t2}
  UseQueueConsumers = FALSE
  Timer = Timer
  Operator = Operator
  ViaQueue = {d2, d3}
  ChunkSize = 1
  Delivery = {d1, d2, d3}
  Relevant = {d1, d2, d3}
  TxOf <- TxOf3
  Unbuildable = {}
  Tokenless = {d3}
  MaxBatchSize = 2
  MaxFailures = 0
  MaxCrashes = 0
  MaxRestCalls = 0
SPECIFICATION Spec
INVARIANT NothingMissed
