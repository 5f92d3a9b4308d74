CONSTANTS
  a = a
  b = b
  a1 = a1
  au = au
  ct = ct
  cu = cu
  cx = cx
  Star = Star
  Colon = Colon
  Garbled = Garbled
  Symbol = {Star, Colon, ct, cu, cx}
  Node = {a, b}
  Announcers = {b}
  Atom = {a1, au}
  WorldOf <- MCWorldOf
  Patterns <- MCPatterns
  Outbox <- MCOutbox
  CanSend <- MCAll
  CanReceive <- MCAll
  Expiry = 1
  Window = 0
  MaxIds = 1
  MaxInbox = 2
  Rate = 1
  Backoff = 1
  MaxFaults = 1
SPECIFICATION FairSpec
CHECK_DEADLOCK FALSE
INVARIANTS
  FileAgrees
  InboxAccounts
PROPERTIES
  SentToSubscribers
  TakenOnce
  SubscriberListed
  BufferDrained
