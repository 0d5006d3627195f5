CONSTANTS
  Steps = {1, 2, 3}
  Configs <- AllConfigs
  Stages = {"simulate", "process"}
  MaxFaults = 2
  MaxForces = 2
SPECIFICATION FairSpec
INVARIANTS NothingLost DoneIsWhole PublishedIsWhole ResultsAreFresh
PROPERTIES GetsProcessed
CHECK_DEADLOCK FALSE
