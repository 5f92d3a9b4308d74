CONSTANTS
  w = w
  wq = wq
  wp = wp
  World = {w, wp}
  Thread = {t1, t2}
  Quarantine <- MCQuarantine
  PolicyWorlds <- MCPolicyWorlds
  Requests <- MCRequests
  Batches <- MCBatches
  Unset = Unset
  Unparsable = Unparsable
  Retention = 2
  Recency = 2
  Width = 1
  Budgets <- MCCalls
  MaxRestarts = 1
SPECIFICATION Spec
SYMMETRY Symmetry
CHECK_DEADLOCK FALSE
INVARIANTS TypeOK AskFindsRecent AtMostOnce AcceptedStored LastActionHolds
PROPERTY SeenLinksKept
