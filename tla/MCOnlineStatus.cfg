\* Two gateways, two platforms.
SPECIFICATION FairSpec
CONSTANTS
  Gateway = {g1, g2}
  Platform = {"ios", "web"}
  Push = push0
  Budgets <- MCBudgets
  ChanSize = 1
  BatchSize = 2
  QueueSize = 1
INVARIANTS Settled Follows
PROPERTIES StatusConverges
CHECK_DEADLOCK FALSE
