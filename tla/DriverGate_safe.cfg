CONSTANTS
  d1 = d1
  d2 = d2
  h1 = h1
  h2 = h2
  a1 = a1
  NoAlloc = NoAlloc
  Driver = {d1, d2}
  Host = {h1, h2}
  Alloc = {a1}
  Kinds = {"local", "tmux", "onejob", "block", "detach"}
  Faults = {}
SPECIFICATION FairSpec
INVARIANTS OneDriver
PROPERTIES LiveRecordKept OneDriverSpec OperatorGetsThrough
CHECK_DEADLOCK FALSE
