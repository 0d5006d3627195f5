CONSTANTS
  t1 = t1
  j1 = j1
  j2 = j2
  j3 = j3
  Token = {t1}
  Job = {j1, j2, j3}
  NoJob = NoJob
  Planned = Planned
  Faults = {"die_pending"}
SPECIFICATION Spec
INVARIANTS AtMostOnce
CHECK_DEADLOCK FALSE
