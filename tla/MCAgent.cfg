SPECIFICATION FairAgentSpec
CONSTANTS
  Vfs = {v1, v2}
  Macs = {m1, m2}
  Vlans = {0, 1}
  Partitions = {0, 1}
  DeviceTypes = {"MLNX4"}
  NoVf = NoVf
  NoMac = NoMac
  NoVlan = NoVlan
  InvalidMac = InvalidMac
  ClearedMac = ClearedMac
  MaxFaults = 0
  Gone = Gone
  MaxChanges = 2
  MaxFailures = 1
INVARIANTS
  AgentTypeOK
  NoForgottenUpdate
  NoForgottenRemoval
PROPERTIES
  DaemonSpec
  Converges
