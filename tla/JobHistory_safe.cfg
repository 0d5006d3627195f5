CONSTANTS
  j1 = j1
  Job = {j1}
  MaxSubmit = 2
  NoRow = NoRow
  NoStore = NoStore
  Partial = Partial
  MaxFaults = 1
SPECIFICATION FairSpec
INVARIANTS TypeOK CapturedFirst OwnRecord
PROPERTIES CsvAmends StoreAmends OneFailureLosesNothing RecordedInTheEnd
CHECK_DEADLOCK FALSE
