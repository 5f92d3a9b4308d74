CONSTANTS
  w1 = w1
  tx = tx
  tenant = tenant
  World = {w1}
  Id = {i1, i2}
  Bytes = {b}
  Thread = {t1}
  Segment <- MCSegment
  Garbled = Garbled
  FlushOnWrite = TRUE
  FreshIds = TRUE
  Deletable = {i1}
  MaxSeq = 2
  MaxBatch = 1
  MaxCrashes = 1
  MaxDamage = 0
SPECIFICATION Spec
CHECK_DEADLOCK FALSE
INVARIANT IntactReplayed
