SPECIFICATION ColdFairSpec
CONSTANTS
  MaxZoneNum = 3
  Cap = 2
  ClusterNum = 2
  MaxCluster = 1
  GcValid = 0
  ColdStep = 1
  MinRestruct = 1
  MaxJobs = 2
  MaxCalls = 5
  Pages = {p1, p2}
  Vals = {v1}
  NoAddr = NoAddr
  NoData = NoData
  Absent = Absent
  Unset = Unset
INVARIANTS ColdTypeOK SafeApart
PROPERTIES WaitsEnd
CHECK_DEADLOCK FALSE
