CONSTANTS
  w1 = w1
  tx = tx
  tenant = tenant
  World = {w1}
  Id = {i1, i2, i3}
  Bytes = {b}
  Thread = {t1, t2}
  Segment <- MCSegment
  Garbled = Garbled
  FlushOnWrite = TRUE
  FreshIds = TRUE
  Deletable = {i1}
  MaxSeq = 2
  MaxBatch = 2
  MaxCrashes = 2
  MaxDamage = 0
SPECIFICATION CarefulSpec
CHECK_DEADLOCK FALSE
INVARIANT AckedReplayed
PROPERTY ImplementsAtomLog
