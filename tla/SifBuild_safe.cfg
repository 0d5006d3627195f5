CONSTANTS
  d1 = d1
  d2 = d2
  k1 = k1
  k2 = k2
  b1 = b1
  b2 = b2
  Driver = {d1, d2}
  Key = {k1, k2}
  Plans <- Singles
  Digest = {b1, b2}
  MaxAccidents = 1
  Torn = Torn
  None = None
SPECIFICATION Spec
SYMMETRY Symmetry
CONSTRAINT OneReconciles
INVARIANTS ManifestProves BuildIsGuarded PendingKeepsSpec
PROPERTIES SuccessMeansBuilt
CHECK_DEADLOCK FALSE
