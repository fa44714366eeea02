SPECIFICATION Spec
CONSTANTS
  Conn = {c1, c2}
SYMMETRY Symmetry
INVARIANT SnapshotIsConsistent
CHECK_DEADLOCK FALSE
