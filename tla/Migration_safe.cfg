CONSTANTS
  p1 = p1
  p2 = p2
  s1 = s1
  s2 = s2
  Process = {p1, p2}
  NoProcess = NoProcess
  Sims = {s1, s2}
  Starts = {0, 3, 5}
  Goals = {5}
  Restated = {1, 4}
  Faults = {"death", "damage"}
SPECIFICATION Spec
SYMMETRY Symmetry
CONSTRAINT Bound
INVARIANTS RecordTruthful LadderSound HistoryIsChain
CHECK_DEADLOCK FALSE
