SPECIFICATION ColdSpec
CONSTANTS
  MaxZoneNum = 4
  Cap = 2
  ClusterNum = 1
  MaxCluster = 1
  GcValid = 0
  ColdStep = 1
  MinRestruct = 3
  MaxJobs = 2
  MaxCalls = 8
  Pages = {p1, p2}
  Vals = {v1}
  NoAddr = NoAddr
  NoData = NoData
  Absent = Absent
  Unset = Unset
SYMMETRY Symmetry
INVARIANTS ReadIdMatches
CHECK_DEADLOCK FALSE
