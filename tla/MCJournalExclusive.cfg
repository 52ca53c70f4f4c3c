SPECIFICATION Spec
CONSTANTS
  n1 = n1
  p1 = p1
  w1 = w1
  w2 = w2
  Nets = {n1}
  Ports = {p1}
  NetOf <- OneNetwork
  MaxRows = 2
  Workers = {w1, w2}
  RetryLimit = 0
  ProcessingTimeout = 0
  Retention = 0
  Faults <- SendFaults
  MaxFaults = 2
  Timely = TRUE
  DistinctSeconds = FALSE
SYMMETRY WorkerSymmetry
INVARIANT
  ExclusiveProcessing
PROPERTIES
  DoneIsFinal
  NeverTakenBack
