CONSTANTS
  w = w
  wq = wq
  wp = wp
  World = {w, wq, wp}
  Thread = {t1, t2}
  Quarantine <- MCQuarantine
  PolicyWorlds <- MCPolicyWorlds
  Requests <- MCLinkers
  Batches <- MCPlain
  Unset = Unset
  Unparsable = Unparsable
  Retention = 2
  Recency = 2
  Width = 1
  Budgets <- MCGc
  MaxRestarts = 0
SPECIFICATION Spec
CHECK_DEADLOCK FALSE
PROPERTY LinkedNeverDeleted
