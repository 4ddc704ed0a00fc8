CONSTANTS
  Session = {s1, s2, s3}
  InitialFds = 2
  MaxCalls = 1
  ClientsMayDie = TRUE
SPECIFICATION Spec
SYMMETRY Sessions
INVARIANTS
  ConnectedIsPolled
  NobodyAbandoned
PROPERTY
  ExactlyOnce
CHECK_DEADLOCK FALSE
