SPECIFICATION FairSpec
CONSTANTS
  Servers = {s1, s2, s3}
  NumOps = 2
  Faults = {"naming", "operation", "release", "crash"}
  MaxFailures = 2
CHECK_DEADLOCK FALSE
INVARIANTS
  TypeOK
  MutualExclusion
  RowIsTrue
PROPERTY
  KeepsRunning
