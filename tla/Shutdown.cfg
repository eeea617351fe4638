SPECIFICATION FairSpec
CONSTANTS
  MaxSignals = 3
  MaxConns = 2
  MaxJobs = 1
CHECK_DEADLOCK FALSE
INVARIANTS
  GracefulCutsNothing
  ForceHasCause
PROPERTIES
  SignalsEndServer
