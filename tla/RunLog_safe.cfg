CONSTANTS
  i1 = i1
  i2 = i2
  p1 = p1
  p2 = p2
  n1 = n1
  n2 = n2
  f1 = f1
  Inst = {i1, i2}
  Process = {p1, p2}
  Placements <- Spread
  Node = {n1, n2}
  NodeOf <- Nodes
  Field = {f1}
  Rec = Rec
  MaxValue = 1
  MaxCorrupt = 1
  NoStamp = NoStamp
  NoInst = NoInst
  Faults = {"lock_left", "wiped"}
SPECIFICATION FairSpec
INVARIANTS RecoveryRecorded
PROPERTIES FieldStoreSpec DetectorSound EverySetEnds
CHECK_DEADLOCK FALSE
