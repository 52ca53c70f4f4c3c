SPECIFICATION Spec
CONSTANTS
  n1 = n1
  p1 = p1
  w1 = w1
  w2 = w2
  Nets = {n1}
  Ports = {p1}
  NetOf <- OneNetwork
  MaxRows = 3
  Workers = {w1}
  RetryLimit <- NoLimit
  ProcessingTimeout = 0
  Retention <- KeepRows
  Faults <- SendFaults
  MaxFaults = 1
  Timely = TRUE
  DistinctSeconds = TRUE
INVARIANTS
  DrainedMirror
PROPERTY OrderSpec
