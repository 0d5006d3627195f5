SPECIFICATION Spec
CONSTANTS
  Configs <- MCGpu
  Steps = 3
  MaxMissed = 1
INVARIANT BudgetKept
CHECK_DEADLOCK FALSE
