CONSTANTS
  p1 = p1
  p2 = p2
  s1 = s1
  s2 = s2
  Process = {p1}
  NoProcess = NoProcess
  Sims = {s1}
  Starts = {0}
  Goals = {5}
  Restated = {}
  Faults = {"death"}
SPECIFICATION Spec
INVARIANT RerunCompletes
CHECK_DEADLOCK FALSE
