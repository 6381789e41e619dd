SPECIFICATION Spec
CONSTANTS
  CorePods = {core0, core1}
  ClusterIds = {east, west}
  NoId = NoId
  Addresses = {a, b}
  Nodes = {n1, n2}
  Disks = {sda, sdb}
  Nics <- Names
INVARIANTS
  TypeOK
  SteadyFaultsAreReported
  HealthVerdict
  ComparesTwoClusters
  DrVerdict
  FileIsComplete
  DisksAreExcused
  OnlyChildrenTooLong
CHECK_DEADLOCK FALSE
