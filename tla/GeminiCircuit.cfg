SPECIFICATION Spec
CONSTANTS
  Calls = {c1, c2, c3, c4}
  MAX_ATTEMPTS = 2
  CIRCUIT_FAILURE_THRESHOLD = 2
  CIRCUIT_OPEN_FOR = 1
  AttemptTime = 1
  None = None
  MaxTime = 4
SYMMETRY Symmetry
CHECK_DEADLOCK FALSE
INVARIANTS
  OpensAfterStreak
  OutageBounded
