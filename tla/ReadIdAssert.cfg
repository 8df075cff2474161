SPECIFICATION Spec
CONSTANTS
  MaxZoneNum = 3
  Cap = 1
  DevCap = 10
  GcValid = 1
  MaxCalls = 7
  Pages = {p1, p2}
  Vals = {v1}
  NoAddr = NoAddr
  NoData = NoData
  Absent = Absent
  Nobody = Nobody
SYMMETRY Symmetry
INVARIANTS NoIdAbort
CHECK_DEADLOCK FALSE
