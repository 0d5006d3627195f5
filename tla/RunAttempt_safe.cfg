SPECIFICATION FairSpec
CONSTANTS
  Configs <- MCConfigs
  Steps = 3
  MaxMissed = 1
INVARIANTS BudgetHolds FlagIsFresh ProgressKept
PROPERTIES BoundariesHeld Settles
CHECK_DEADLOCK FALSE
