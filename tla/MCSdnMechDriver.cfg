SPECIFICATION Spec
CONSTANTS
  n1 = n1
  h1 = h1
  Nets = {n1}
  Ports = {p1}
  NetOf <- OneNetwork
  MaxRows = 3
  Hosts = {h1, h2}
  NoHost = NoHost
  Infos = {i1}
  NoInfo = NoInfo
  Versions <- MovesOrChanges
  MaxCalls = 1
  MaxErrors = 1
CHECK_DEADLOCK FALSE
INVARIANTS
  TypeOK
  NoStaleHost
  BoundIsHeld
  InfoPosted
PROPERTY RecordingSpec
