CONSTANTS
  w1 = w1
  tx = tx
  tenant = tenant
  World = {w1, tx}
  Id = {i1, i2, i3}
  Bytes = {b}
  Thread = {t1, t2}
  Segment <- MCSegment
  Garbled = Garbled
  FlushOnWrite = TRUE
  FreshIds = TRUE
  Deletable = {i1}
  MaxSeq = 2
  MaxBatch = 1
  MaxCrashes = 1
  MaxDamage = 1
SYMMETRY Symmetry
SPECIFICATION Spec
CHECK_DEADLOCK FALSE
INVARIANTS
  TypeOK
  AckedReadable
  ReplayOrder
  FramesBacked
  Repaired
