SPECIFICATION FairSpec
CONSTANTS
  n1 = n1
  p1 = p1
  w1 = w1
  w2 = w2
  Nets = {n1}
  Ports = {p1}
  NetOf <- OneNetwork
  MaxRows = 2
  Workers = {w1}
  RetryLimit <- NoLimit
  ProcessingTimeout = 1
  Retention <- KeepRows
  Faults <- AllFaults
  MaxFaults = 1
  Timely = TRUE
  DistinctSeconds = TRUE
PROPERTY
  EventuallyDrained
