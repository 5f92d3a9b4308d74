CONSTANTS
  w1 = w1
  tx = tx
  tenant = tenant
  World = {w1}
  Id = {i1, i2}
  Bytes = {b}
  Thread = {t1, t2}
  Segment <- MCSegment
  Garbled = Garbled
  FlushOnWrite = TRUE
  FreshIds = TRUE
  Deletable = {}
  MaxSeq = 2
  MaxBatch = 1
  MaxCrashes = 0
  MaxDamage = 0
SPECIFICATION Spec
CHECK_DEADLOCK FALSE
INVARIANT IntactReplayed
