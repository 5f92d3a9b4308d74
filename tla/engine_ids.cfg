CONSTANTS
  w1 = w1
  tx = tx
  tenant = tenant
  World = {w1}
  Id = {1, 2}
  Bytes = {b, c, d}
  Thread = {t1}
  Segment <- MCSegment
  Garbled = Garbled
  FlushOnWrite = TRUE
  FreshIds = FALSE
  Deletable = {}
  MaxSeq = 3
  MaxBatch = 1
  MaxCrashes = 2
  MaxDamage = 0
SPECIFICATION IdsSpec
CHECK_DEADLOCK FALSE
INVARIANT IntactReplayed
