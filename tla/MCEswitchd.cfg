SPECIFICATION Spec
CONSTANTS
  Vfs = {v1, v2}
  Macs = {m1, m2}
  Vlans = {1, 2}
  Partitions = {1}
  DeviceTypes = {"MLNX4", "MLNX5"}
  NoVf = NoVf
  NoMac = NoMac
  NoVlan = NoVlan
  InvalidMac = InvalidMac
  ClearedMac = ClearedMac
  MaxFaults = 2
SYMMETRY EswitchSymmetry
INVARIANTS
  TypeOK
  AlwaysAnswerable
  RightVf
  NoForeignVlan
PROPERTY
  StaysAttached
