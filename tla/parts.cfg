CONSTANTS
  p1 = p1
  p2 = p2
  v1 = v1
  na = na
  nb = nb
  w1 = w1
  w2 = w2
  t1 = t1
  t2 = t2
  Content = {v1, p1}
  MaxDeaths = 2
  MaxWrites = 2
  Command = {t1, t2}
  Pid = {1, 2, 3, 4}
  Nodes = 2
  MaxKills = 1
  MaxFails = 1
  Urls = {"http", "https"}
  NatsUrls = {"nats"}
  Paths = {"path"}
  RawModes = {"install", "upgrade", "remove"}
  Answers <- SomeAnswers
  Caller = {t1, t2}
  Id = {1, 2, 3, 4}
  Bits <- BitsOf
  Begin <- HeldFirst
  Backoff = 1
  MaxCalls = 2
  MaxFaults = 1
  World = {w1, w2}
  Thread = {t1, t2}
  MaxBatch = 2
  FlushEvery = 1
  Rate = 2
  MaxEvents = 4
  MaxFailures = 1
  Peer = {p1, p2}
  Advert = {v1}
  Expiry = 2
  Base = 1
  MaxShift = 1
  MaxCounted = 3
  Check = {t1, t2}
  WorldKey = {w1, w2}
  Worker = {p1}
  Kind = {v1}
  Label = {v1}
  Importances = {1, 2}
  caps <- Caps
  Cost = 2
  RememberRate = 3
  AskRate = 1
  MaxTime = 3
  Handler = {t1, t2}
  WorldName = {"m", "p", "b", "qp", "qb"}
  Writable = {"p", "b"}
  Segment <- NameUpToSlash
  Policy <- PolicyWorlds
  Quarantine <- QuarantineOf
  Contents <- SaidByCallers
  MetaContent <- SaidByManage
  Filters <- SomeFilters
  MaxSubscribers = 1
  MaxAtoms = 2
  MaxManaged = 2
  MaxRestarts = 1
  NodeId = {na, nb}
  Ttl <- TtlOf
  Latency = 1
  MaxStops = 1
  MaxLost = 1
  Submitter = {t1, t2}
  WorkerKey = {p1}
  LowTrust = {p1}
  Second = 1
  Limit = 2
  MaxSeconds = 3
  MaxRecorded = 4
  KeyId = {t1, t2}
  FitKey = {na, nb}
  Misfit = Misfit
  Absent = Absent
  Atoms <- SealedAtoms
  MaxLog = 2
  MaxOpens = 3
  Writer = {t1}
  Asker = {t2}
  RecallWorld = {"w", "v", "qw"}
  Isolated <- Quarantined
  NewAtoms <- ToRemember
  Questions <- Asked
  EmbedDim = 2
  Hint <- Trust
  Near = 2
  Bounded = 2
  Recency = 1
  MaxMinted = 2
  MaxAsks = 1
  MaxMishaps = 1
SPECIFICATION Spec
CHECK_DEADLOCK FALSE
INVARIANTS
  PartsTypeOK
  BackoffExact
  RunningListed
  DeadNotListed
  EachEventOnce
  BufferNewest
  AdmittedAccounted
  NothingLost
  NoOrphans
  CompleteOnceSetUp
  IngressFresh
  NothingMissed
  
  AnswerSound
  EmptyMeansNone
  CurrentFirst
  SpamCaught
  RotationReads
  KeysLoseNothing
  OwnReply
PROPERTIES
  ExpiresSilent
