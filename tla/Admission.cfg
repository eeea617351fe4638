SPECIFICATION Spec
CONSTANTS
  NoCall = NoCall
  Subjects = {u1, u2, u3, u4}
  Callers = {c1, c2}
  PerWindow = 2
  Global = 3
  MaxSubjects = 3
  Window = 3
  TicksPerSecond = 2
  MaxTime = 4
  MaxAccepted = 4
CHECK_DEADLOCK FALSE
SYMMETRY MCSymmetry
INVARIANTS
  NothingEvicted
  QuotasHold
  RetryAfterSuffices
