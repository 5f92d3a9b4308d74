CONSTANTS
  w = w
  wq = wq
  wp = wp
  World = {w}
  Thread = {t1}
  Quarantine <- MCQuarantine
  PolicyWorlds <- MCPolicyWorlds
  Requests <- MCLinkers
  Batches <- MCNumbered
  Unset = Unset
  Unparsable = Unparsable
  Retention = 2
  Recency = 2
  Width = 1
  Budgets <- MCOne
  MaxRestarts = 0
SPECIFICATION Spec
CHECK_DEADLOCK FALSE
PROPERTY AcceptedWhole
