SPECIFICATION Spec
CONSTANTS
  MaxZoneNum = 3
  Cap = 2
  ClusterNum = 1
  MaxCluster = 1
  GcValid = 1
  Pages = {p1, p2}
  Vals = {v1, v2}
  NoAddr = NoAddr
  NoData = NoData
  Absent = Absent
SYMMETRY Symmetry
CONSTRAINT BeforeEarly
INVARIANTS CollectedIsDead PointersAgree
PROPERTIES StoreSpec
CHECK_DEADLOCK FALSE
