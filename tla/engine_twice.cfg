CONSTANTS
  w = w
  wq = wq
  wp = wp
  World = {w}
  Thread = {t1, t2}
  Quarantine <- MCQuarantine
  PolicyWorlds <- MCPolicyWorlds
  Requests = {}
  Batches <- MCNumbered
  Unset = Unset
  Unparsable = Unparsable
  Retention = 2
  Recency = 2
  Width = 1
  Budgets <- MCTwice
  MaxRestarts = 0
SPECIFICATION Spec
CHECK_DEADLOCK FALSE
INVARIANT IngestIdempotent
