CONSTANTS
  d1 = d1
  d2 = d2
  h1 = h1
  a1 = a1
  h2 = h2
  NoAlloc = NoAlloc
  Driver = {d1, d2}
  Host = {h1}
  Alloc = {}
  Kinds = {"local"}
  Faults = {}
SPECIFICATION Spec
PROPERTIES CapBoundsFalseAlive
CHECK_DEADLOCK FALSE
