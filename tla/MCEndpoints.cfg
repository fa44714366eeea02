SPECIFICATION Spec
CONSTANTS
  Conn = {c1, c2, c3}
SYMMETRY Symmetry
INVARIANTS TypeOK CountersTrue SnapshotCoversAnswered SnapshotLags AnswerIsOne LogMatchesWire VerdictTrue
CHECK_DEADLOCK FALSE
