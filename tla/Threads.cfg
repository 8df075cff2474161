SPECIFICATION FairSpec
CONSTANTS
  MaxZoneNum = 3
  Cap = 1
  DevCap = 10
  GcValid = 1
  MaxCalls = 5
  Pages = {p1, p2}
  Vals = {v1}
  NoAddr = NoAddr
  NoData = NoData
  Absent = Absent
  Nobody = Nobody
INVARIANTS TypeOK  EntryKept
PROPERTIES CallReturns CollectionEnds
CHECK_DEADLOCK FALSE
