SPECIFICATION Spec
CONSTANTS
  MaxZoneNum = 2
  Cap = 3
  ClusterNum = 1
  MaxCluster = 2
  GcValid = 1
  Pages = {p1, p2}
  Vals = {v1, v2}
  NoAddr = NoAddr
  NoData = NoData
  Absent = Absent
SYMMETRY Symmetry
INVARIANTS TypeOK ReadsLatest BitsMatchTable ValidCount
CHECK_DEADLOCK FALSE
