CONSTANTS
  w1 = w1
  tx = tx
  tenant = tenant
  World = {tx}
  Id = {i1}
  Bytes = {b}
  Thread = {t1}
  Segment <- MCSegment
  Garbled = Garbled
  FlushOnWrite = TRUE
  FreshIds = TRUE
  Deletable = {}
  MaxSeq = 2
  MaxBatch = 1
  MaxCrashes = 1
  MaxDamage = 0
SPECIFICATION Spec
CHECK_DEADLOCK FALSE
INVARIANT AckedReadableAnywhere
